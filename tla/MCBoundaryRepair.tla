-------------------------- MODULE MCBoundaryRepair --------------------------
(* Small instances of BoundaryRepair: slices are 1, 2, ..., parents 10, 20. *)
EXTENDS BoundaryRepair, TLC

(* Two broadcasts of two slices and one slice. *)
TwoBroadcasts == [c \in Slices |-> IF c \in {1, 2} THEN 10 ELSE 20]

(* Repair workers differ in nothing but their name. *)
AnyRepairer == Permutations(Repairers)
=============================================================================
