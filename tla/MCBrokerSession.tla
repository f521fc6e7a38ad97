--------------------------- MODULE MCBrokerSession ---------------------------
(* Instances of BrokerSession for TLC; the values are in the .cfg files.      *)
EXTENDS BrokerSession
=============================================================================
