--------------------------- MODULE MCBuildingQueue ---------------------------
(* Small instances of BuildingQueue. *)
EXTENDS BuildingQueue

(* Threads named after their worker. *)
TwoPools == [s \in Slots |-> IF s \in {"a1", "a2"} THEN "a" ELSE "b"]
=============================================================================
