---------------------------- MODULE MessageLedger ----------------------------
(***************************************************************************)
(* What ingestion and extraction promise about raw_messages, whatever the  *)
(* number of workers and whatever fails: a row, once stored, stays; it is  *)
(* consumed at most once, for good, and only on evidence; a row imported by *)
(* history sync is evidence and nothing else; a row that counts as split   *)
(* has every one of its slices stored.                                     *)
(***************************************************************************)
CONSTANTS
  Rows,        \* raw_messages ids
  Slices,      \* row -> rows it is split into
  Resolutions  \* the reasons for which a row may be consumed

VARIABLES stored, consumed, evidence
vars == <<stored, consumed, evidence>>

Init ==
  /\ stored = {}
  /\ consumed = {}
  /\ evidence = [r \in Rows |-> {}]

Store(r) ==
  /\ r \notin stored
  /\ stored' = stored \cup {r}
  /\ UNCHANGED <<consumed, evidence>>

Import(r) ==
  /\ r \notin stored
  /\ stored' = stored \cup {r}
  /\ consumed' = consumed \cup {r}
  /\ evidence' = [evidence EXCEPT ![r] = @ \cup {"history_sync"}]

(* Work on one stored row: more evidence for it, new slices, its consumption. *)
Settle(r) ==
  /\ r \in stored
  /\ "history_sync" \notin evidence[r]
  /\ \E new \in SUBSET Slices[r] : stored' = stored \cup new
  /\ \E how \in SUBSET (Resolutions \ {"history_sync"}) :
       evidence' = [evidence EXCEPT ![r] = @ \cup how]
  /\ "children" \in evidence'[r] => Slices[r] \subseteq stored'
  /\ \/ consumed' = consumed
     \/ consumed' = consumed \cup {r} /\ evidence'[r] # {}

Next == \E r \in Rows : Store(r) \/ Import(r) \/ Settle(r)

Spec == Init /\ [][Next]_vars

-----------------------------------------------------------------------------
(* What a reader of the ledger may rely on: only stored rows are consumed,  *)
(* each for a reason, a split is complete, and history is nothing else.    *)
Consistent ==
  /\ consumed \subseteq stored
  /\ \A r \in consumed : evidence[r] # {}
  /\ \A r \in Rows : "children" \in evidence[r] => Slices[r] \subseteq stored
  /\ \A r \in Rows : "history_sync" \in evidence[r] =>
       r \in consumed /\ evidence[r] = {"history_sync"}

(* Nothing is ever taken back. *)
NothingIsLost ==
  [][/\ stored \subseteq stored'
     /\ consumed \subseteq consumed'
     /\ \A r \in Rows : evidence[r] \subseteq evidence'[r]]_vars
=============================================================================
