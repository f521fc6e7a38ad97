--------------------------- MODULE MCConnectionPool ---------------------------
(* A small instance of ConnectionPool: see MCConnectionPool_starts.cfg. *)
EXTENDS ConnectionPool
=============================================================================
