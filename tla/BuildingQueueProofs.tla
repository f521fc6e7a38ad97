------------------------ MODULE BuildingQueueProofs ------------------------
(***************************************************************************)
(* Proofs about BuildingQueue, for every number of rows, workers, threads  *)
(* and callers and every bound. Next to the types the inductive invariant  *)
(* says where a thread's row can be: a busy thread belongs to a batch, and *)
(* its row is neither another busy thread's nor still to be handed out.    *)
(* The budget needs the threads between the count and the record, and      *)
(* completion the threads that are about to complete.                      *)
(***************************************************************************)
EXTENDS BuildingQueue, FiniteSetTheorems, TLAPS

(* Rows of a batch are handed out once, and only while the batch runs. *)
BatchInv ==
  /\ WorkerHoldsOnce
  /\ \A s \in Slots : pc[s] # "idle" =>
       phase[home[s]] = "batch" /\ held[s] \notin todo[home[s]]

(* Threads that have counted today's searches and not yet recorded theirs. *)
Counted == {s \in Slots : pc[s] = "search"}
BudgetInv == searches + Cardinality(Counted) < MaxSearches + Cardinality(Slots)

RecordInv ==
  /\ CompletedIsRecorded
  /\ \A s \in Slots : pc[s] = "finish" => held[s] \in recorded

BuildingInv == TypeOK /\ BatchInv /\ BudgetInv /\ RecordInv

(* Take, once the row is chosen. *)
TakeRow(s, j) ==
  /\ phase[home[s]] = "batch"
  /\ Step(s, "idle", "claim")
  /\ held' = [held EXCEPT ![s] = j]
  /\ todo' = [todo EXCEPT ![home[s]] = @ \ {j}]
  /\ UNCHANGED <<tableVars, workVars, phase, current, seen, ask, asked, faults>>

-----------------------------------------------------------------------------
(* Counting attempts stays within the limit. *)
LEMMA BumpType == ASSUME NEW n \in 0..MaxAttempts PROVE Bump(n) \in 0..MaxAttempts
BY BuildingAssumption DEF Bump

(* A row's provider, once picked, is a configured one. *)
LEMMA AssignedType == ASSUME NEW j PROVE Assigned(j) \in Providers
BY BuildingAssumption DEF Assigned

(* The request that asks for nothing is a request. *)
LEMMA NoAskType == NoAsk \in Asks /\ NoAsk.op = "none" /\ NoAsk.building \in Buildings
BY BuildingAssumption DEF NoAsk, Asks, Names

(* A set of threads has at most as many members as there are threads. *)
LEMMA SlotCount ==
  ASSUME NEW S \in SUBSET Slots
  PROVE  /\ IsFiniteSet(S) /\ Cardinality(S) \in Nat
         /\ Cardinality(Slots) \in Nat /\ Cardinality(S) <= Cardinality(Slots)
BY FS_Subset, FS_CardinalityType, BuildingAssumption


(* Each step keeps the types. *)
LEMMA TypeStep == ASSUME TypeOK, [Next]_vars PROVE TypeOK'
<1>1. CASE UNCHANGED vars
  BY <1>1 DEF vars, tableVars, workVars, workerVars, slotVars, TypeOK, TableTypeOK,
     WorkerTypeOK, SlotTypeOK, AskTypeOK
<1>2. ASSUME NEW s \in Slots, Take(s)
      PROVE  TypeOK'
  <2>1. home[s] \in Workers
    BY BuildingAssumption
  <2>2. PICK j \in todo[home[s]] : TakeRow(s, j)
    BY <1>2 DEF Take, TakeRow
  <2>3. j \in Rows
    BY <2>1 DEF TypeOK, WorkerTypeOK
  <2>4. TableTypeOK' /\ AskTypeOK'
    BY <2>2 DEF TakeRow, tableVars, workVars, TypeOK, TableTypeOK, AskTypeOK, Statuses, Active
  <2>5. WorkerTypeOK'
    BY <2>1, <2>2 DEF TakeRow, TypeOK, WorkerTypeOK
  <2>6. SlotTypeOK'
    BY <2>2, <2>3 DEF TakeRow, Step, TypeOK, SlotTypeOK, Steps
  <2> QED
    BY <2>4, <2>5, <2>6 DEF TypeOK
<1>3. ASSUME NEW s \in Slots, NoProvider(s)
      PROVE  TypeOK'
  BY <1>3, BuildingAssumption DEF NoProvider, Complete, LetGo, tableVars, workVars,
     workerVars, slotVars, TypeOK, TableTypeOK, WorkerTypeOK, SlotTypeOK, AskTypeOK,
     Statuses, Active, Phases, Steps
<1>4. ASSUME NEW s \in Slots, ClaimRead(s)
      PROVE  TypeOK'
  BY <1>4, BuildingAssumption DEF ClaimRead, Step, tableVars, workVars, workerVars,
     slotVars, TypeOK, TableTypeOK, WorkerTypeOK, SlotTypeOK, AskTypeOK, Statuses,
     Active, Phases, Steps
<1>5. ASSUME NEW s \in Slots, ClaimUpdate(s)
      PROVE  TypeOK'
  BY <1>5, BuildingAssumption, BumpType, AssignedType DEF ClaimUpdate, Step, KeepRow,
     tableVars, workVars, workerVars, slotVars, TypeOK, TableTypeOK, WorkerTypeOK,
     SlotTypeOK, AskTypeOK, Statuses, Active, Phases, Steps, Names
<1>6. ASSUME NEW s \in Slots, ClaimCheck(s)
      PROVE  TypeOK'
  BY <1>6, BuildingAssumption DEF ClaimCheck, Step, KeepRow, tableVars, workVars,
     workerVars, slotVars, TypeOK, TableTypeOK, WorkerTypeOK, SlotTypeOK, AskTypeOK,
     Statuses, Active, Phases, Steps
<1>7. ASSUME NEW s \in Slots, ClaimLost(s)
      PROVE  TypeOK'
  BY <1>7, BuildingAssumption DEF ClaimLost, LetGo, tableVars, workVars, workerVars,
     slotVars, TypeOK, TableTypeOK, WorkerTypeOK, SlotTypeOK, AskTypeOK, Statuses,
     Active, Phases, Steps
<1>8. ASSUME NEW s \in Slots, Inspect(s)
      PROVE  TypeOK'
  BY <1>8, BuildingAssumption DEF Inspect, Step, KeepRow, tableVars, workVars,
     workerVars, slotVars, TypeOK, TableTypeOK, WorkerTypeOK, SlotTypeOK, AskTypeOK,
     Statuses, Active, Phases, Steps, Guarded
<1>9. ASSUME NEW s \in Slots, CountSearches(s)
      PROVE  TypeOK'
  BY <1>9, BuildingAssumption DEF CountSearches, Step, KeepRow, tableVars, workVars,
     workerVars, slotVars, TypeOK, TableTypeOK, WorkerTypeOK, SlotTypeOK, AskTypeOK,
     Statuses, Active, Phases, Steps
<1>10. ASSUME NEW s \in Slots, RecordSearch(s)
      PROVE  TypeOK'
  BY <1>10, BuildingAssumption DEF RecordSearch, Step, KeepRow, tableVars, workVars,
     workerVars, slotVars, TypeOK, TableTypeOK, WorkerTypeOK, SlotTypeOK, AskTypeOK,
     Statuses, Active, Phases, Steps
<1>11. ASSUME NEW s \in Slots, Enrich(s)
      PROVE  TypeOK'
  BY <1>11, BuildingAssumption DEF Enrich, Step, KeepRow, tableVars, workVars,
     workerVars, slotVars, TypeOK, TableTypeOK, WorkerTypeOK, SlotTypeOK, AskTypeOK,
     Statuses, Active, Phases, Steps, Guarded
<1>12. ASSUME NEW s \in Slots, Apply(s)
      PROVE  TypeOK'
  BY <1>12, BuildingAssumption DEF Apply, Step, KeepRow, tableVars, workVars,
     workerVars, slotVars, TypeOK, TableTypeOK, WorkerTypeOK, SlotTypeOK, AskTypeOK,
     Statuses, Active, Phases, Steps
<1>13. ASSUME NEW s \in Slots, Finish(s)
      PROVE  TypeOK'
  <2>1. TableTypeOK'
    BY <1>13, BuildingAssumption DEF Finish, Complete, Replied, LetGo, tableVars,
       workVars, workerVars, slotVars, TypeOK, TableTypeOK, SlotTypeOK, Statuses,
       Active, Phases, Steps
  <2>2. WorkerTypeOK'
    BY <1>13, BuildingAssumption DEF Finish, Complete, Replied, LetGo, tableVars,
       workVars, workerVars, slotVars, TypeOK, WorkerTypeOK, SlotTypeOK, Statuses,
       Active, Phases, Steps
  <2>3. SlotTypeOK'
    BY <1>13, BuildingAssumption DEF Finish, Complete, Replied, LetGo, tableVars,
       workVars, workerVars, slotVars, TypeOK, SlotTypeOK, Statuses, Active, Phases,
       Steps
  <2>4. AskTypeOK'
    BY <1>13, BuildingAssumption DEF Finish, Complete, Replied, LetGo, tableVars,
       workVars, workerVars, slotVars, TypeOK, AskTypeOK, SlotTypeOK
  <2> QED
    BY <2>1, <2>2, <2>3, <2>4 DEF TypeOK
<1>14. ASSUME NEW s \in Slots, Reject(s)
      PROVE  TypeOK'
  <2>1. TableTypeOK'
    BY <1>14, BuildingAssumption DEF Reject, Complete, Replied, LetGo, tableVars,
       workVars, workerVars, slotVars, TypeOK, TableTypeOK, SlotTypeOK, Statuses,
       Active, Phases, Steps
  <2>2. WorkerTypeOK'
    BY <1>14, BuildingAssumption DEF Reject, Complete, Replied, LetGo, tableVars,
       workVars, workerVars, slotVars, TypeOK, WorkerTypeOK, SlotTypeOK, Statuses,
       Active, Phases, Steps
  <2>3. SlotTypeOK'
    BY <1>14, BuildingAssumption DEF Reject, Complete, Replied, LetGo, tableVars,
       workVars, workerVars, slotVars, TypeOK, SlotTypeOK, Statuses, Active, Phases,
       Steps
  <2>4. AskTypeOK'
    BY <1>14, BuildingAssumption DEF Reject, Complete, Replied, LetGo, tableVars,
       workVars, workerVars, slotVars, TypeOK, AskTypeOK, SlotTypeOK
  <2> QED
    BY <2>1, <2>2, <2>3, <2>4 DEF TypeOK
<1>15. ASSUME NEW s \in Slots, Defer(s)
      PROVE  TypeOK'
  BY <1>15, BuildingAssumption DEF Defer, MakePending, Replied, LetGo, tableVars,
     workVars, workerVars, slotVars, TypeOK, TableTypeOK, WorkerTypeOK, SlotTypeOK,
     AskTypeOK, Statuses, Active, Phases, Steps
<1>16. ASSUME NEW s \in Slots, Raise(s)
      PROVE  TypeOK'
  BY <1>16, BuildingAssumption DEF Raise, tableVars, workVars, workerVars, slotVars,
     TypeOK, TableTypeOK, WorkerTypeOK, SlotTypeOK, AskTypeOK, Statuses, Active, Phases,
     Steps, Guarded
<1>17. ASSUME NEW s \in Slots, Fail(s)
      PROVE  TypeOK'
  BY <1>17, BuildingAssumption DEF Fail, Step, tableVars, workVars, workerVars,
     slotVars, TypeOK, TableTypeOK, WorkerTypeOK, SlotTypeOK, AskTypeOK, Statuses,
     Active, Phases, Steps
<1>18. ASSUME NEW s \in Slots, Retry(s)
      PROVE  TypeOK'
  BY <1>18, BuildingAssumption DEF Retry, Replied, RetryWrite, MakePending, Complete, LetGo,
     tableVars, workVars, workerVars, slotVars, TypeOK, TableTypeOK, WorkerTypeOK,
     SlotTypeOK, AskTypeOK, Statuses, Active, Phases, Steps
<1>19. ASSUME NEW s \in Slots, Escape(s)
      PROVE  TypeOK'
  BY <1>19, BuildingAssumption DEF Escape, LetGo, tableVars, workVars, workerVars,
     slotVars, TypeOK, TableTypeOK, WorkerTypeOK, SlotTypeOK, AskTypeOK, Statuses,
     Active, Phases, Steps, Guarded
<1>20. ASSUME NEW w \in Workers, RecoverSelect(w)
      PROVE  TypeOK'
  BY <1>20, BuildingAssumption DEF RecoverSelect, Goto, tableVars, workVars, workerVars,
     slotVars, TypeOK, TableTypeOK, WorkerTypeOK, SlotTypeOK, AskTypeOK, Statuses,
     Active, Phases, Steps
<1>21. ASSUME NEW w \in Workers, RecoverRead(w)
      PROVE  TypeOK'
  BY <1>21, BuildingAssumption DEF RecoverRead, Goto, tableVars, workVars, workerVars,
     slotVars, TypeOK, TableTypeOK, WorkerTypeOK, SlotTypeOK, AskTypeOK, Statuses,
     Active, Phases, Steps
<1>22. ASSUME NEW w \in Workers, RecoverWrite(w)
      PROVE  TypeOK'
  BY <1>22, BuildingAssumption DEF RecoverWrite, Goto, RetryWrite, MakePending,
     Complete, tableVars, workVars, workerVars, slotVars, TypeOK, TableTypeOK,
     WorkerTypeOK, SlotTypeOK, AskTypeOK, Statuses, Active, Phases, Steps
<1>23. ASSUME NEW w \in Workers, RecoverRefused(w)
      PROVE  TypeOK'
  BY <1>23, BuildingAssumption DEF RecoverRefused, Goto, tableVars, workVars,
     workerVars, slotVars, TypeOK, TableTypeOK, WorkerTypeOK, SlotTypeOK, AskTypeOK,
     Statuses, Active, Phases, Steps
<1>24. ASSUME NEW w \in Workers, ReleaseSelect(w)
      PROVE  TypeOK'
  BY <1>24, BuildingAssumption DEF ReleaseSelect, Limited, Releasable, Goto, tableVars, workVars, workerVars,
     slotVars, TypeOK, TableTypeOK, WorkerTypeOK, SlotTypeOK, AskTypeOK, Statuses,
     Active, Phases, Steps
<1>25. ASSUME NEW w \in Workers, ReleaseWrite(w)
      PROVE  TypeOK'
  BY <1>25, BuildingAssumption DEF ReleaseWrite, Goto, tableVars, workVars, workerVars,
     slotVars, TypeOK, TableTypeOK, WorkerTypeOK, SlotTypeOK, AskTypeOK, Statuses,
     Active, Phases, Steps
<1>26. ASSUME NEW w \in Workers, Fetch(w)
      PROVE  TypeOK'
  BY <1>26, BuildingAssumption DEF Fetch, Limited, Runnable, Goto, tableVars, workVars,
     workerVars, slotVars, TypeOK, TableTypeOK, WorkerTypeOK, SlotTypeOK, AskTypeOK,
     Statuses, Active, Phases, Steps
<1>27. ASSUME NEW w \in Workers, BatchEnd(w)
      PROVE  TypeOK'
  BY <1>27, BuildingAssumption DEF BatchEnd, Goto, SlotsOf, tableVars, workVars,
     workerVars, slotVars, TypeOK, TableTypeOK, WorkerTypeOK, SlotTypeOK, AskTypeOK,
     Statuses, Active, Phases, Steps
<1>28. ASSUME NEW w \in Workers, Crash(w)
      PROVE  TypeOK'
  BY <1>28, BuildingAssumption DEF Crash, Goto, SlotsOf, tableVars, workVars,
     workerVars, slotVars, TypeOK, TableTypeOK, WorkerTypeOK, SlotTypeOK, AskTypeOK,
     Statuses, Active, Phases, Steps
<1>29. ASSUME NEW a \in Askers, NEW b \in Buildings, NEW p \in Providers, Request(a, b, p)
      PROVE  TypeOK'
  <2>1. TableTypeOK'
    BY <1>29, BuildingAssumption, NoAskType DEF Request, Decide, RowsFor, tableVars,
       workVars, workerVars, slotVars, TypeOK, TableTypeOK, Statuses, Active, Phases,
       Steps, Asks, Names
  <2>2. WorkerTypeOK'
    BY <1>29, BuildingAssumption, NoAskType DEF Request, Decide, RowsFor, tableVars,
       workVars, workerVars, slotVars, TypeOK, WorkerTypeOK, Statuses, Active, Phases,
       Steps
  <2>3. SlotTypeOK'
    BY <1>29, BuildingAssumption, NoAskType DEF Request, Decide, RowsFor, tableVars,
       workVars, workerVars, slotVars, TypeOK, SlotTypeOK, Statuses, Active, Phases,
       Steps
  <2>4. AskTypeOK'
    BY <1>29, BuildingAssumption, NoAskType DEF Request, Decide, RowsFor, tableVars,
       workVars, workerVars, slotVars, TypeOK, AskTypeOK, Asks, Names
  <2> QED
    BY <2>1, <2>2, <2>3, <2>4 DEF TypeOK
<1>30. ASSUME NEW a \in Askers, NEW b \in Buildings, Observe(a, b)
      PROVE  TypeOK'
  BY <1>30, BuildingAssumption, NoAskType DEF Observe, Decide, tableVars, workVars,
     workerVars, slotVars, TypeOK, TableTypeOK, WorkerTypeOK, SlotTypeOK, AskTypeOK,
     Statuses, Active, Phases, Steps, Asks, Names
<1>31. ASSUME NEW a \in Askers, Insert(a)
      PROVE  TypeOK'
  <2>1. TableTypeOK'
    BY <1>31, BuildingAssumption, NoAskType DEF Insert, Answered, tableVars, workVars,
       workerVars, slotVars, TypeOK, TableTypeOK, AskTypeOK, Statuses, Active, Phases,
       Steps, Asks, Names
  <2>2. WorkerTypeOK'
    BY <1>31, BuildingAssumption, NoAskType DEF Insert, Answered, tableVars, workVars,
       workerVars, slotVars, TypeOK, WorkerTypeOK, AskTypeOK, Statuses, Active, Phases,
       Steps
  <2>3. SlotTypeOK'
    BY <1>31, BuildingAssumption, NoAskType DEF Insert, Answered, tableVars, workVars,
       workerVars, slotVars, TypeOK, SlotTypeOK, AskTypeOK, Statuses, Active, Phases,
       Steps
  <2>4. AskTypeOK'
    BY <1>31, BuildingAssumption, NoAskType DEF Insert, Answered, tableVars, workVars,
       workerVars, slotVars, TypeOK, AskTypeOK, Asks, Names
  <2> QED
    BY <2>1, <2>2, <2>3, <2>4 DEF TypeOK
<1>32. ASSUME NEW a \in Askers, Requeue(a)
      PROVE  TypeOK'
  <2>1. TableTypeOK'
    BY <1>32, BuildingAssumption, NoAskType DEF Requeue, MakePending, Answered,
       tableVars, workVars, workerVars, slotVars, TypeOK, TableTypeOK, AskTypeOK,
       Statuses, Active, Phases, Steps, Asks, Names
  <2>2. WorkerTypeOK'
    BY <1>32, BuildingAssumption, NoAskType DEF Requeue, MakePending, Answered,
       tableVars, workVars, workerVars, slotVars, TypeOK, WorkerTypeOK, AskTypeOK,
       Statuses, Active, Phases, Steps
  <2>3. SlotTypeOK'
    BY <1>32, BuildingAssumption, NoAskType DEF Requeue, MakePending, Answered,
       tableVars, workVars, workerVars, slotVars, TypeOK, SlotTypeOK, AskTypeOK,
       Statuses, Active, Phases, Steps
  <2>4. AskTypeOK'
    BY <1>32, BuildingAssumption, NoAskType DEF Requeue, MakePending, Answered,
       tableVars, workVars, workerVars, slotVars, TypeOK, AskTypeOK, Asks, Names
  <2> QED
    BY <2>1, <2>2, <2>3, <2>4 DEF TypeOK
<1>33. ASSUME NEW j \in Rows, GrowOld(j)
      PROVE  TypeOK'
  BY <1>33, BuildingAssumption DEF GrowOld, tableVars, workVars, workerVars, slotVars,
     TypeOK, TableTypeOK, WorkerTypeOK, SlotTypeOK, AskTypeOK, Statuses, Active, Phases,
     Steps
<1>34. ASSUME NEW j \in Rows, BackoffEnds(j)
      PROVE  TypeOK'
  BY <1>34, BuildingAssumption DEF BackoffEnds, tableVars, workVars, workerVars,
     slotVars, TypeOK, TableTypeOK, WorkerTypeOK, SlotTypeOK, AskTypeOK, Statuses,
     Active, Phases, Steps
<1>35. CASE NewDay
  BY <1>35, BuildingAssumption DEF NewDay, tableVars, workVars, workerVars, slotVars,
     TypeOK, TableTypeOK, WorkerTypeOK, SlotTypeOK, AskTypeOK, Statuses, Active, Phases,
     Steps
<1> QED
  BY <1>1, <1>2, <1>3, <1>4, <1>5, <1>6, <1>7, <1>8, <1>9, <1>10, <1>11, <1>12, <1>13,
     <1>14, <1>15, <1>16, <1>17, <1>18, <1>19, <1>20, <1>21, <1>22, <1>23, <1>24, <1>25,
     <1>26, <1>27, <1>28, <1>29, <1>30, <1>31, <1>32, <1>33, <1>34, <1>35 DEF Next,
     SlotStep, WorkerStep

(* Each step keeps the rows of a batch apart. *)
LEMMA BatchStep == ASSUME TypeOK, BatchInv, [Next]_vars PROVE BatchInv'
<1>1. CASE UNCHANGED vars
  BY <1>1 DEF vars, tableVars, workVars, workerVars, slotVars, BatchInv, WorkerHoldsOnce
<1>2. ASSUME NEW s \in Slots, Take(s)
      PROVE  BatchInv'
  <2>1. home[s] \in Workers
    BY BuildingAssumption
  <2>2. PICK j \in todo[home[s]] : TakeRow(s, j)
    BY <1>2 DEF Take, TakeRow
  <2>3. /\ pc[s] = "idle" /\ pc' = [pc EXCEPT ![s] = "claim"]
        /\ held' = [held EXCEPT ![s] = j] /\ phase' = phase /\ phase[home[s]] = "batch"
        /\ todo' = [todo EXCEPT ![home[s]] = @ \ {j}]
    BY <2>2 DEF TakeRow, Step
  <2>4. \A t \in Slots : t # s /\ home[t] = home[s] /\ pc[t] # "idle" => held[t] # j
    BY <2>2 DEF BatchInv
  <2>5. WorkerHoldsOnce'
    BY <2>3, <2>4 DEF TypeOK, SlotTypeOK, BatchInv, WorkerHoldsOnce
  <2>6. ASSUME NEW t \in Slots, pc'[t] # "idle"
        PROVE  phase'[home[t]] = "batch" /\ held'[t] \notin todo'[home[t]]
    <3>1. CASE t = s
      BY <2>1, <2>3, <3>1 DEF TypeOK, SlotTypeOK, WorkerTypeOK
    <3>2. CASE t # s
      BY <2>1, <2>3, <2>6, <3>2, BuildingAssumption DEF TypeOK, SlotTypeOK, WorkerTypeOK, BatchInv
    <3> QED
      BY <3>1, <3>2
  <2> QED
    BY <2>5, <2>6 DEF BatchInv
<1>3. ASSUME NEW s \in Slots, NoProvider(s)
      PROVE  BatchInv'
  BY <1>3, BuildingAssumption DEF NoProvider, Complete, LetGo, tableVars, workVars,
     workerVars, slotVars, SlotTypeOK, WorkerTypeOK, TypeOK, BatchInv, WorkerHoldsOnce
<1>4. ASSUME NEW s \in Slots, ClaimRead(s)
      PROVE  BatchInv'
  BY <1>4, BuildingAssumption DEF ClaimRead, Step, tableVars, workVars, workerVars,
     slotVars, SlotTypeOK, WorkerTypeOK, TypeOK, BatchInv, WorkerHoldsOnce
<1>5. ASSUME NEW s \in Slots, ClaimUpdate(s)
      PROVE  BatchInv'
  BY <1>5, BuildingAssumption DEF ClaimUpdate, Step, KeepRow, tableVars, workVars,
     workerVars, slotVars, SlotTypeOK, WorkerTypeOK, TypeOK, BatchInv, WorkerHoldsOnce
<1>6. ASSUME NEW s \in Slots, ClaimCheck(s)
      PROVE  BatchInv'
  BY <1>6, BuildingAssumption DEF ClaimCheck, Step, KeepRow, tableVars, workVars,
     workerVars, slotVars, SlotTypeOK, WorkerTypeOK, TypeOK, BatchInv, WorkerHoldsOnce
<1>7. ASSUME NEW s \in Slots, ClaimLost(s)
      PROVE  BatchInv'
  BY <1>7, BuildingAssumption DEF ClaimLost, LetGo, tableVars, workVars, workerVars,
     slotVars, SlotTypeOK, WorkerTypeOK, TypeOK, BatchInv, WorkerHoldsOnce
<1>8. ASSUME NEW s \in Slots, Inspect(s)
      PROVE  BatchInv'
  BY <1>8, BuildingAssumption DEF Inspect, Step, KeepRow, tableVars, workVars,
     workerVars, slotVars, SlotTypeOK, WorkerTypeOK, TypeOK, BatchInv, WorkerHoldsOnce
<1>9. ASSUME NEW s \in Slots, CountSearches(s)
      PROVE  BatchInv'
  BY <1>9, BuildingAssumption DEF CountSearches, Step, KeepRow, tableVars, workVars,
     workerVars, slotVars, SlotTypeOK, WorkerTypeOK, TypeOK, BatchInv, WorkerHoldsOnce
<1>10. ASSUME NEW s \in Slots, RecordSearch(s)
      PROVE  BatchInv'
  BY <1>10, BuildingAssumption DEF RecordSearch, Step, KeepRow, tableVars, workVars,
     workerVars, slotVars, SlotTypeOK, WorkerTypeOK, TypeOK, BatchInv, WorkerHoldsOnce
<1>11. ASSUME NEW s \in Slots, Enrich(s)
      PROVE  BatchInv'
  BY <1>11, BuildingAssumption DEF Enrich, Step, KeepRow, tableVars, workVars,
     workerVars, slotVars, SlotTypeOK, WorkerTypeOK, TypeOK, BatchInv, WorkerHoldsOnce
<1>12. ASSUME NEW s \in Slots, Apply(s)
      PROVE  BatchInv'
  BY <1>12, BuildingAssumption DEF Apply, Step, KeepRow, tableVars, workVars,
     workerVars, slotVars, SlotTypeOK, WorkerTypeOK, TypeOK, BatchInv, WorkerHoldsOnce
<1>13. ASSUME NEW s \in Slots, Finish(s)
      PROVE  BatchInv'
  BY <1>13, BuildingAssumption DEF Finish, Complete, Replied, LetGo, tableVars,
     workVars, workerVars, slotVars, SlotTypeOK, WorkerTypeOK, TypeOK, BatchInv,
     WorkerHoldsOnce
<1>14. ASSUME NEW s \in Slots, Reject(s)
      PROVE  BatchInv'
  BY <1>14, BuildingAssumption DEF Reject, Complete, Replied, LetGo, tableVars,
     workVars, workerVars, slotVars, SlotTypeOK, WorkerTypeOK, TypeOK, BatchInv,
     WorkerHoldsOnce
<1>15. ASSUME NEW s \in Slots, Defer(s)
      PROVE  BatchInv'
  BY <1>15, BuildingAssumption DEF Defer, MakePending, Replied, LetGo, tableVars,
     workVars, workerVars, slotVars, SlotTypeOK, WorkerTypeOK, TypeOK, BatchInv,
     WorkerHoldsOnce
<1>16. ASSUME NEW s \in Slots, Raise(s)
      PROVE  BatchInv'
  BY <1>16, BuildingAssumption DEF Raise, tableVars, workVars, workerVars, slotVars,
     SlotTypeOK, WorkerTypeOK, TypeOK, BatchInv, WorkerHoldsOnce, Guarded
<1>17. ASSUME NEW s \in Slots, Fail(s)
      PROVE  BatchInv'
  BY <1>17, BuildingAssumption DEF Fail, Step, tableVars, workVars, workerVars,
     slotVars, SlotTypeOK, WorkerTypeOK, TypeOK, BatchInv, WorkerHoldsOnce
<1>18. ASSUME NEW s \in Slots, Retry(s)
      PROVE  BatchInv'
  BY <1>18, BuildingAssumption DEF Retry, Replied, RetryWrite, MakePending, Complete, LetGo,
     tableVars, workVars, workerVars, slotVars, SlotTypeOK, WorkerTypeOK, TypeOK,
     BatchInv, WorkerHoldsOnce
<1>19. ASSUME NEW s \in Slots, Escape(s)
      PROVE  BatchInv'
  BY <1>19, BuildingAssumption DEF Escape, LetGo, tableVars, workVars, workerVars,
     slotVars, SlotTypeOK, WorkerTypeOK, TypeOK, BatchInv, WorkerHoldsOnce
<1>20. ASSUME NEW w \in Workers, RecoverSelect(w)
      PROVE  BatchInv'
  BY <1>20, BuildingAssumption DEF RecoverSelect, Goto, tableVars, workVars, workerVars,
     slotVars, SlotTypeOK, WorkerTypeOK, TypeOK, BatchInv, WorkerHoldsOnce
<1>21. ASSUME NEW w \in Workers, RecoverRead(w)
      PROVE  BatchInv'
  BY <1>21, BuildingAssumption DEF RecoverRead, Goto, tableVars, workVars, workerVars,
     slotVars, SlotTypeOK, WorkerTypeOK, TypeOK, BatchInv, WorkerHoldsOnce
<1>22. ASSUME NEW w \in Workers, RecoverWrite(w)
      PROVE  BatchInv'
  BY <1>22, BuildingAssumption DEF RecoverWrite, Goto, RetryWrite, MakePending,
     Complete, tableVars, workVars, workerVars, slotVars, SlotTypeOK, WorkerTypeOK,
     TypeOK, BatchInv, WorkerHoldsOnce
<1>23. ASSUME NEW w \in Workers, RecoverRefused(w)
      PROVE  BatchInv'
  BY <1>23, BuildingAssumption DEF RecoverRefused, Goto, tableVars, workVars,
     workerVars, slotVars, SlotTypeOK, WorkerTypeOK, TypeOK, BatchInv, WorkerHoldsOnce
<1>24. ASSUME NEW w \in Workers, ReleaseSelect(w)
      PROVE  BatchInv'
  BY <1>24, BuildingAssumption DEF ReleaseSelect, Limited, Releasable, Goto, tableVars, workVars, workerVars,
     slotVars, SlotTypeOK, WorkerTypeOK, TypeOK, BatchInv, WorkerHoldsOnce
<1>25. ASSUME NEW w \in Workers, ReleaseWrite(w)
      PROVE  BatchInv'
  BY <1>25, BuildingAssumption DEF ReleaseWrite, Goto, tableVars, workVars, workerVars,
     slotVars, SlotTypeOK, WorkerTypeOK, TypeOK, BatchInv, WorkerHoldsOnce
<1>26. ASSUME NEW w \in Workers, Fetch(w)
      PROVE  BatchInv'
  BY <1>26, BuildingAssumption DEF Fetch, Limited, Runnable, Goto, tableVars, workVars,
     workerVars, slotVars, SlotTypeOK, WorkerTypeOK, TypeOK, BatchInv, WorkerHoldsOnce
<1>27. ASSUME NEW w \in Workers, BatchEnd(w)
      PROVE  BatchInv'
  BY <1>27, BuildingAssumption DEF BatchEnd, Goto, SlotsOf, tableVars, workVars,
     workerVars, slotVars, SlotTypeOK, WorkerTypeOK, TypeOK, BatchInv, WorkerHoldsOnce
<1>28. ASSUME NEW w \in Workers, Crash(w)
      PROVE  BatchInv'
  BY <1>28, BuildingAssumption DEF Crash, Goto, SlotsOf, tableVars, workVars,
     workerVars, slotVars, SlotTypeOK, WorkerTypeOK, TypeOK, BatchInv, WorkerHoldsOnce
<1>29. ASSUME NEW a \in Askers, NEW b \in Buildings, NEW p \in Providers, Request(a, b, p)
      PROVE  BatchInv'
  BY <1>29, BuildingAssumption DEF Request, Decide, RowsFor, tableVars, workVars,
     workerVars, slotVars, SlotTypeOK, WorkerTypeOK, TypeOK, BatchInv, WorkerHoldsOnce
<1>30. ASSUME NEW a \in Askers, NEW b \in Buildings, Observe(a, b)
      PROVE  BatchInv'
  BY <1>30, BuildingAssumption DEF Observe, Decide, tableVars, workVars, workerVars,
     slotVars, SlotTypeOK, WorkerTypeOK, TypeOK, BatchInv, WorkerHoldsOnce
<1>31. ASSUME NEW a \in Askers, Insert(a)
      PROVE  BatchInv'
  BY <1>31, BuildingAssumption DEF Insert, Answered, tableVars, workVars, workerVars,
     slotVars, SlotTypeOK, WorkerTypeOK, TypeOK, BatchInv, WorkerHoldsOnce
<1>32. ASSUME NEW a \in Askers, Requeue(a)
      PROVE  BatchInv'
  BY <1>32, BuildingAssumption DEF Requeue, MakePending, Answered, tableVars, workVars,
     workerVars, slotVars, SlotTypeOK, WorkerTypeOK, TypeOK, BatchInv, WorkerHoldsOnce
<1>33. ASSUME NEW j \in Rows, GrowOld(j)
      PROVE  BatchInv'
  BY <1>33, BuildingAssumption DEF GrowOld, tableVars, workVars, workerVars, slotVars,
     SlotTypeOK, WorkerTypeOK, TypeOK, BatchInv, WorkerHoldsOnce
<1>34. ASSUME NEW j \in Rows, BackoffEnds(j)
      PROVE  BatchInv'
  BY <1>34, BuildingAssumption DEF BackoffEnds, tableVars, workVars, workerVars,
     slotVars, SlotTypeOK, WorkerTypeOK, TypeOK, BatchInv, WorkerHoldsOnce
<1>35. CASE NewDay
  BY <1>35, BuildingAssumption DEF NewDay, tableVars, workVars, workerVars, slotVars,
     SlotTypeOK, WorkerTypeOK, TypeOK, BatchInv, WorkerHoldsOnce
<1> QED
  BY <1>1, <1>2, <1>3, <1>4, <1>5, <1>6, <1>7, <1>8, <1>9, <1>10, <1>11, <1>12, <1>13,
     <1>14, <1>15, <1>16, <1>17, <1>18, <1>19, <1>20, <1>21, <1>22, <1>23, <1>24, <1>25,
     <1>26, <1>27, <1>28, <1>29, <1>30, <1>31, <1>32, <1>33, <1>34, <1>35 DEF Next,
     SlotStep, WorkerStep

(* Each step keeps completed rows recorded. *)
LEMMA RecordStep == ASSUME TypeOK, RecordInv, [Next]_vars PROVE RecordInv'
<1>1. CASE UNCHANGED vars
  BY <1>1 DEF vars, tableVars, workVars, workerVars, slotVars, RecordInv,
     CompletedIsRecorded
<1>2. ASSUME NEW s \in Slots, Take(s)
      PROVE  RecordInv'
  BY <1>2, BuildingAssumption DEF Take, Step, tableVars, workVars, workerVars, slotVars,
     SlotTypeOK, TableTypeOK, TypeOK, RecordInv, CompletedIsRecorded
<1>3. ASSUME NEW s \in Slots, NoProvider(s)
      PROVE  RecordInv'
  BY <1>3, BuildingAssumption DEF NoProvider, Complete, LetGo, tableVars, workVars,
     workerVars, slotVars, SlotTypeOK, TableTypeOK, TypeOK, RecordInv,
     CompletedIsRecorded
<1>4. ASSUME NEW s \in Slots, ClaimRead(s)
      PROVE  RecordInv'
  BY <1>4, BuildingAssumption DEF ClaimRead, Step, tableVars, workVars, workerVars,
     slotVars, SlotTypeOK, TableTypeOK, TypeOK, RecordInv, CompletedIsRecorded
<1>5. ASSUME NEW s \in Slots, ClaimUpdate(s)
      PROVE  RecordInv'
  BY <1>5, BuildingAssumption DEF ClaimUpdate, Step, KeepRow, tableVars, workVars,
     workerVars, slotVars, SlotTypeOK, TableTypeOK, TypeOK, RecordInv,
     CompletedIsRecorded
<1>6. ASSUME NEW s \in Slots, ClaimCheck(s)
      PROVE  RecordInv'
  BY <1>6, BuildingAssumption DEF ClaimCheck, Step, KeepRow, tableVars, workVars,
     workerVars, slotVars, SlotTypeOK, TableTypeOK, TypeOK, RecordInv,
     CompletedIsRecorded
<1>7. ASSUME NEW s \in Slots, ClaimLost(s)
      PROVE  RecordInv'
  BY <1>7, BuildingAssumption DEF ClaimLost, LetGo, tableVars, workVars, workerVars,
     slotVars, SlotTypeOK, TableTypeOK, TypeOK, RecordInv, CompletedIsRecorded
<1>8. ASSUME NEW s \in Slots, Inspect(s)
      PROVE  RecordInv'
  BY <1>8, BuildingAssumption DEF Inspect, Step, KeepRow, tableVars, workVars,
     workerVars, slotVars, SlotTypeOK, TableTypeOK, TypeOK, RecordInv,
     CompletedIsRecorded
<1>9. ASSUME NEW s \in Slots, CountSearches(s)
      PROVE  RecordInv'
  BY <1>9, BuildingAssumption DEF CountSearches, Step, KeepRow, tableVars, workVars,
     workerVars, slotVars, SlotTypeOK, TableTypeOK, TypeOK, RecordInv,
     CompletedIsRecorded
<1>10. ASSUME NEW s \in Slots, RecordSearch(s)
      PROVE  RecordInv'
  BY <1>10, BuildingAssumption DEF RecordSearch, Step, KeepRow, tableVars, workVars,
     workerVars, slotVars, SlotTypeOK, TableTypeOK, TypeOK, RecordInv,
     CompletedIsRecorded
<1>11. ASSUME NEW s \in Slots, Enrich(s)
      PROVE  RecordInv'
  BY <1>11, BuildingAssumption DEF Enrich, Step, KeepRow, tableVars, workVars,
     workerVars, slotVars, SlotTypeOK, TableTypeOK, TypeOK, RecordInv,
     CompletedIsRecorded
<1>12. ASSUME NEW s \in Slots, Apply(s)
      PROVE  RecordInv'
  BY <1>12, BuildingAssumption DEF Apply, Step, KeepRow, tableVars, workVars,
     workerVars, slotVars, SlotTypeOK, TableTypeOK, TypeOK, RecordInv,
     CompletedIsRecorded
<1>13. ASSUME NEW s \in Slots, Finish(s)
      PROVE  RecordInv'
  BY <1>13, BuildingAssumption DEF Finish, Complete, Replied, LetGo, tableVars,
     workVars, workerVars, slotVars, SlotTypeOK, TableTypeOK, TypeOK, RecordInv,
     CompletedIsRecorded
<1>14. ASSUME NEW s \in Slots, Reject(s)
      PROVE  RecordInv'
  BY <1>14, BuildingAssumption DEF Reject, Complete, Replied, LetGo, tableVars,
     workVars, workerVars, slotVars, SlotTypeOK, TableTypeOK, TypeOK, RecordInv,
     CompletedIsRecorded
<1>15. ASSUME NEW s \in Slots, Defer(s)
      PROVE  RecordInv'
  BY <1>15, BuildingAssumption DEF Defer, MakePending, Replied, LetGo, tableVars,
     workVars, workerVars, slotVars, SlotTypeOK, TableTypeOK, TypeOK, RecordInv,
     CompletedIsRecorded
<1>16. ASSUME NEW s \in Slots, Raise(s)
      PROVE  RecordInv'
  BY <1>16, BuildingAssumption DEF Raise, tableVars, workVars, workerVars, slotVars,
     SlotTypeOK, TableTypeOK, TypeOK, RecordInv, CompletedIsRecorded, Guarded
<1>17. ASSUME NEW s \in Slots, Fail(s)
      PROVE  RecordInv'
  BY <1>17, BuildingAssumption DEF Fail, Step, tableVars, workVars, workerVars,
     slotVars, SlotTypeOK, TableTypeOK, TypeOK, RecordInv, CompletedIsRecorded
<1>18. ASSUME NEW s \in Slots, Retry(s)
      PROVE  RecordInv'
  BY <1>18, BuildingAssumption DEF Retry, Replied, RetryWrite, MakePending, Complete, LetGo,
     tableVars, workVars, workerVars, slotVars, SlotTypeOK, TableTypeOK, TypeOK,
     RecordInv, CompletedIsRecorded
<1>19. ASSUME NEW s \in Slots, Escape(s)
      PROVE  RecordInv'
  BY <1>19, BuildingAssumption DEF Escape, LetGo, tableVars, workVars, workerVars,
     slotVars, SlotTypeOK, TableTypeOK, TypeOK, RecordInv, CompletedIsRecorded, Guarded
<1>20. ASSUME NEW w \in Workers, RecoverSelect(w)
      PROVE  RecordInv'
  BY <1>20, BuildingAssumption DEF RecoverSelect, Goto, tableVars, workVars, workerVars,
     slotVars, SlotTypeOK, TableTypeOK, TypeOK, RecordInv, CompletedIsRecorded
<1>21. ASSUME NEW w \in Workers, RecoverRead(w)
      PROVE  RecordInv'
  BY <1>21, BuildingAssumption DEF RecoverRead, Goto, tableVars, workVars, workerVars,
     slotVars, SlotTypeOK, TableTypeOK, TypeOK, RecordInv, CompletedIsRecorded
<1>22. ASSUME NEW w \in Workers, RecoverWrite(w)
      PROVE  RecordInv'
  BY <1>22, BuildingAssumption DEF RecoverWrite, Goto, RetryWrite, MakePending,
     Complete, tableVars, workVars, workerVars, slotVars, SlotTypeOK, TableTypeOK,
     TypeOK, RecordInv, CompletedIsRecorded
<1>23. ASSUME NEW w \in Workers, RecoverRefused(w)
      PROVE  RecordInv'
  BY <1>23, BuildingAssumption DEF RecoverRefused, Goto, tableVars, workVars,
     workerVars, slotVars, SlotTypeOK, TableTypeOK, TypeOK, RecordInv,
     CompletedIsRecorded
<1>24. ASSUME NEW w \in Workers, ReleaseSelect(w)
      PROVE  RecordInv'
  BY <1>24, BuildingAssumption DEF ReleaseSelect, Limited, Releasable, Goto, tableVars, workVars, workerVars,
     slotVars, SlotTypeOK, TableTypeOK, TypeOK, RecordInv, CompletedIsRecorded
<1>25. ASSUME NEW w \in Workers, ReleaseWrite(w)
      PROVE  RecordInv'
  BY <1>25, BuildingAssumption DEF ReleaseWrite, Goto, tableVars, workVars, workerVars,
     slotVars, SlotTypeOK, TableTypeOK, TypeOK, RecordInv, CompletedIsRecorded
<1>26. ASSUME NEW w \in Workers, Fetch(w)
      PROVE  RecordInv'
  BY <1>26, BuildingAssumption DEF Fetch, Limited, Runnable, Goto, tableVars, workVars,
     workerVars, slotVars, SlotTypeOK, TableTypeOK, TypeOK, RecordInv,
     CompletedIsRecorded
<1>27. ASSUME NEW w \in Workers, BatchEnd(w)
      PROVE  RecordInv'
  BY <1>27, BuildingAssumption DEF BatchEnd, Goto, SlotsOf, tableVars, workVars,
     workerVars, slotVars, SlotTypeOK, TableTypeOK, TypeOK, RecordInv,
     CompletedIsRecorded
<1>28. ASSUME NEW w \in Workers, Crash(w)
      PROVE  RecordInv'
  BY <1>28, BuildingAssumption DEF Crash, Goto, SlotsOf, tableVars, workVars,
     workerVars, slotVars, SlotTypeOK, TableTypeOK, TypeOK, RecordInv,
     CompletedIsRecorded
<1>29. ASSUME NEW a \in Askers, NEW b \in Buildings, NEW p \in Providers, Request(a, b, p)
      PROVE  RecordInv'
  BY <1>29, BuildingAssumption DEF Request, Decide, RowsFor, tableVars, workVars,
     workerVars, slotVars, SlotTypeOK, TableTypeOK, TypeOK, RecordInv,
     CompletedIsRecorded
<1>30. ASSUME NEW a \in Askers, NEW b \in Buildings, Observe(a, b)
      PROVE  RecordInv'
  BY <1>30, BuildingAssumption DEF Observe, Decide, tableVars, workVars, workerVars,
     slotVars, SlotTypeOK, TableTypeOK, TypeOK, RecordInv, CompletedIsRecorded
<1>31. ASSUME NEW a \in Askers, Insert(a)
      PROVE  RecordInv'
  BY <1>31, BuildingAssumption DEF Insert, Answered, tableVars, workVars, workerVars,
     slotVars, SlotTypeOK, TableTypeOK, TypeOK, RecordInv, CompletedIsRecorded
<1>32. ASSUME NEW a \in Askers, Requeue(a)
      PROVE  RecordInv'
  BY <1>32, BuildingAssumption DEF Requeue, MakePending, Answered, tableVars, workVars,
     workerVars, slotVars, SlotTypeOK, TableTypeOK, TypeOK, RecordInv,
     CompletedIsRecorded
<1>33. ASSUME NEW j \in Rows, GrowOld(j)
      PROVE  RecordInv'
  BY <1>33, BuildingAssumption DEF GrowOld, tableVars, workVars, workerVars, slotVars,
     SlotTypeOK, TableTypeOK, TypeOK, RecordInv, CompletedIsRecorded
<1>34. ASSUME NEW j \in Rows, BackoffEnds(j)
      PROVE  RecordInv'
  BY <1>34, BuildingAssumption DEF BackoffEnds, tableVars, workVars, workerVars,
     slotVars, SlotTypeOK, TableTypeOK, TypeOK, RecordInv, CompletedIsRecorded
<1>35. CASE NewDay
  BY <1>35, BuildingAssumption DEF NewDay, tableVars, workVars, workerVars, slotVars,
     SlotTypeOK, TableTypeOK, TypeOK, RecordInv, CompletedIsRecorded
<1> QED
  BY <1>1, <1>2, <1>3, <1>4, <1>5, <1>6, <1>7, <1>8, <1>9, <1>10, <1>11, <1>12, <1>13,
     <1>14, <1>15, <1>16, <1>17, <1>18, <1>19, <1>20, <1>21, <1>22, <1>23, <1>24, <1>25,
     <1>26, <1>27, <1>28, <1>29, <1>30, <1>31, <1>32, <1>33, <1>34, <1>35 DEF Next,
     SlotStep, WorkerStep

(* A step in which nobody starts to count and nobody records keeps the budget. *)
LEMMA BudgetQuiet ==
  ASSUME BudgetInv, TypeOK, TypeOK', searches' <= searches, Counted' \subseteq Counted
  PROVE  BudgetInv'
<1>1. Counted \in SUBSET Slots /\ Counted' \in SUBSET Slots
  BY DEF Counted
<1>2. Cardinality(Counted') <= Cardinality(Counted)
  BY <1>1, SlotCount, FS_Subset
<1> QED
  BY <1>1, <1>2, SlotCount, BuildingAssumption DEF BudgetInv, TypeOK, TableTypeOK

(* Each step keeps the overshoot within the number of threads. *)
LEMMA BudgetStep == ASSUME TypeOK, TypeOK', BudgetInv, [Next]_vars PROVE BudgetInv'
<1>1. Counted \in SUBSET Slots /\ Counted' \in SUBSET Slots
  BY DEF Counted
<1>2. ASSUME NEW s \in Slots, CountSearches(s)
      PROVE  BudgetInv'
  <2>1. CASE searches < MaxSearches /\ Counted' # Slots
    <3>1. Cardinality(Counted') <= Cardinality(Slots)
      BY <1>1, SlotCount
    <3> QED
      BY <1>1, <1>2, <2>1, <3>1, SlotCount, BuildingAssumption
      DEF CountSearches, KeepRow, workVars, BudgetInv, TypeOK, TableTypeOK
  <2>2. CASE searches < MaxSearches /\ Counted' = Slots
    BY <1>1, <1>2, <2>2, SlotCount, BuildingAssumption
    DEF CountSearches, KeepRow, workVars, BudgetInv, TypeOK, TableTypeOK
  <2>3. CASE ~(searches < MaxSearches)
    <3>1. Counted' \subseteq Counted /\ searches' = searches
      BY <1>2, <2>3 DEF CountSearches, Step, workVars, Counted, TypeOK, SlotTypeOK
    <3> QED
      BY <3>1, BudgetQuiet DEF TypeOK, TableTypeOK
  <2> QED
    BY <2>1, <2>2, <2>3
<1>3. ASSUME NEW s \in Slots, RecordSearch(s)
      PROVE  BudgetInv'
  <2>1. Counted' = Counted \ {s} /\ s \in Counted /\ searches' = searches + 1
    BY <1>3 DEF RecordSearch, Step, Counted, TypeOK, SlotTypeOK
  <2>2. Cardinality(Counted') = Cardinality(Counted) - 1
    BY <1>1, <2>1, SlotCount, FS_RemoveElement
  <2> QED
    BY <1>1, <2>1, <2>2, SlotCount, BuildingAssumption DEF BudgetInv, TypeOK, TableTypeOK
<1>4. ASSUME [Next]_vars, \A s \in Slots : ~CountSearches(s) /\ ~RecordSearch(s)
      PROVE  searches' <= searches /\ Counted' \subseteq Counted
  <2>1. CASE UNCHANGED vars
    BY <2>1 DEF vars, workVars, slotVars, Counted, TypeOK, TableTypeOK
  <2>2. ASSUME NEW s \in Slots, Take(s)
        PROVE  searches' <= searches /\ Counted' \subseteq Counted
    BY <2>2, BuildingAssumption DEF Take, Step, tableVars, workVars, workerVars,
       slotVars, Counted, TypeOK, TableTypeOK, SlotTypeOK
  <2>3. ASSUME NEW s \in Slots, NoProvider(s)
        PROVE  searches' <= searches /\ Counted' \subseteq Counted
    BY <2>3, BuildingAssumption DEF NoProvider, Complete, LetGo, tableVars, workVars,
       workerVars, slotVars, Counted, TypeOK, TableTypeOK, SlotTypeOK
  <2>4. ASSUME NEW s \in Slots, ClaimRead(s)
        PROVE  searches' <= searches /\ Counted' \subseteq Counted
    BY <2>4, BuildingAssumption DEF ClaimRead, Step, tableVars, workVars, workerVars,
       slotVars, Counted, TypeOK, TableTypeOK, SlotTypeOK
  <2>5. ASSUME NEW s \in Slots, ClaimUpdate(s)
        PROVE  searches' <= searches /\ Counted' \subseteq Counted
    BY <2>5, BuildingAssumption DEF ClaimUpdate, Step, KeepRow, tableVars, workVars,
       workerVars, slotVars, Counted, TypeOK, TableTypeOK, SlotTypeOK
  <2>6. ASSUME NEW s \in Slots, ClaimCheck(s)
        PROVE  searches' <= searches /\ Counted' \subseteq Counted
    BY <2>6, BuildingAssumption DEF ClaimCheck, Step, KeepRow, tableVars, workVars,
       workerVars, slotVars, Counted, TypeOK, TableTypeOK, SlotTypeOK
  <2>7. ASSUME NEW s \in Slots, ClaimLost(s)
        PROVE  searches' <= searches /\ Counted' \subseteq Counted
    BY <2>7, BuildingAssumption DEF ClaimLost, LetGo, tableVars, workVars, workerVars,
       slotVars, Counted, TypeOK, TableTypeOK, SlotTypeOK
  <2>8. ASSUME NEW s \in Slots, Inspect(s)
        PROVE  searches' <= searches /\ Counted' \subseteq Counted
    BY <2>8, BuildingAssumption DEF Inspect, Step, KeepRow, tableVars, workVars,
       workerVars, slotVars, Counted, TypeOK, TableTypeOK, SlotTypeOK
  <2>9. ASSUME NEW s \in Slots, Enrich(s)
        PROVE  searches' <= searches /\ Counted' \subseteq Counted
    BY <2>9, BuildingAssumption DEF Enrich, Step, KeepRow, tableVars, workVars,
       workerVars, slotVars, Counted, TypeOK, TableTypeOK, SlotTypeOK
  <2>10. ASSUME NEW s \in Slots, Apply(s)
        PROVE  searches' <= searches /\ Counted' \subseteq Counted
    BY <2>10, BuildingAssumption DEF Apply, Step, KeepRow, tableVars, workVars,
       workerVars, slotVars, Counted, TypeOK, TableTypeOK, SlotTypeOK
  <2>11. ASSUME NEW s \in Slots, Finish(s)
        PROVE  searches' <= searches /\ Counted' \subseteq Counted
    BY <2>11, BuildingAssumption DEF Finish, Complete, Replied, LetGo, tableVars,
       workVars, workerVars, slotVars, Counted, TypeOK, TableTypeOK, SlotTypeOK
  <2>12. ASSUME NEW s \in Slots, Reject(s)
        PROVE  searches' <= searches /\ Counted' \subseteq Counted
    BY <2>12, BuildingAssumption DEF Reject, Complete, Replied, LetGo, tableVars,
       workVars, workerVars, slotVars, Counted, TypeOK, TableTypeOK, SlotTypeOK
  <2>13. ASSUME NEW s \in Slots, Defer(s)
        PROVE  searches' <= searches /\ Counted' \subseteq Counted
    BY <2>13, BuildingAssumption DEF Defer, MakePending, Replied, LetGo, tableVars,
       workVars, workerVars, slotVars, Counted, TypeOK, TableTypeOK, SlotTypeOK
  <2>14. ASSUME NEW s \in Slots, Raise(s)
        PROVE  searches' <= searches /\ Counted' \subseteq Counted
    BY <2>14, BuildingAssumption DEF Raise, tableVars, workVars, workerVars, slotVars,
       Counted, TypeOK, TableTypeOK, SlotTypeOK, Guarded
  <2>15. ASSUME NEW s \in Slots, Fail(s)
        PROVE  searches' <= searches /\ Counted' \subseteq Counted
    BY <2>15, BuildingAssumption DEF Fail, Step, tableVars, workVars, workerVars,
       slotVars, Counted, TypeOK, TableTypeOK, SlotTypeOK
  <2>16. ASSUME NEW s \in Slots, Retry(s)
        PROVE  searches' <= searches /\ Counted' \subseteq Counted
    BY <2>16, BuildingAssumption DEF Retry, Replied, RetryWrite, MakePending, Complete, LetGo,
       tableVars, workVars, workerVars, slotVars, Counted, TypeOK, TableTypeOK,
       SlotTypeOK
  <2>17. ASSUME NEW s \in Slots, Escape(s)
        PROVE  searches' <= searches /\ Counted' \subseteq Counted
    BY <2>17, BuildingAssumption DEF Escape, LetGo, tableVars, workVars, workerVars,
       slotVars, Counted, TypeOK, TableTypeOK, SlotTypeOK, Guarded
  <2>18. ASSUME NEW w \in Workers, RecoverSelect(w)
        PROVE  searches' <= searches /\ Counted' \subseteq Counted
    BY <2>18, BuildingAssumption DEF RecoverSelect, Goto, tableVars, workVars,
       workerVars, slotVars, Counted, TypeOK, TableTypeOK, SlotTypeOK
  <2>19. ASSUME NEW w \in Workers, RecoverRead(w)
        PROVE  searches' <= searches /\ Counted' \subseteq Counted
    BY <2>19, BuildingAssumption DEF RecoverRead, Goto, tableVars, workVars, workerVars,
       slotVars, Counted, TypeOK, TableTypeOK, SlotTypeOK
  <2>20. ASSUME NEW w \in Workers, RecoverWrite(w)
        PROVE  searches' <= searches /\ Counted' \subseteq Counted
    BY <2>20, BuildingAssumption DEF RecoverWrite, Goto, RetryWrite, MakePending,
       Complete, tableVars, workVars, workerVars, slotVars, Counted, TypeOK,
       TableTypeOK, SlotTypeOK
  <2>21. ASSUME NEW w \in Workers, RecoverRefused(w)
        PROVE  searches' <= searches /\ Counted' \subseteq Counted
    BY <2>21, BuildingAssumption DEF RecoverRefused, Goto, tableVars, workVars,
       workerVars, slotVars, Counted, TypeOK, TableTypeOK, SlotTypeOK
  <2>22. ASSUME NEW w \in Workers, ReleaseSelect(w)
        PROVE  searches' <= searches /\ Counted' \subseteq Counted
    BY <2>22, BuildingAssumption DEF ReleaseSelect, Limited, Releasable, Goto, tableVars, workVars,
       workerVars, slotVars, Counted, TypeOK, TableTypeOK, SlotTypeOK
  <2>23. ASSUME NEW w \in Workers, ReleaseWrite(w)
        PROVE  searches' <= searches /\ Counted' \subseteq Counted
    BY <2>23, BuildingAssumption DEF ReleaseWrite, Goto, tableVars, workVars,
       workerVars, slotVars, Counted, TypeOK, TableTypeOK, SlotTypeOK
  <2>24. ASSUME NEW w \in Workers, Fetch(w)
        PROVE  searches' <= searches /\ Counted' \subseteq Counted
    BY <2>24, BuildingAssumption DEF Fetch, Limited, Runnable, Goto, tableVars, workVars,
       workerVars, slotVars, Counted, TypeOK, TableTypeOK, SlotTypeOK
  <2>25. ASSUME NEW w \in Workers, BatchEnd(w)
        PROVE  searches' <= searches /\ Counted' \subseteq Counted
    BY <2>25, BuildingAssumption DEF BatchEnd, Goto, SlotsOf, tableVars, workVars,
       workerVars, slotVars, Counted, TypeOK, TableTypeOK, SlotTypeOK
  <2>26. ASSUME NEW w \in Workers, Crash(w)
        PROVE  searches' <= searches /\ Counted' \subseteq Counted
    BY <2>26, BuildingAssumption DEF Crash, Goto, SlotsOf, tableVars, workVars,
       workerVars, slotVars, Counted, TypeOK, TableTypeOK, SlotTypeOK
  <2>27. ASSUME NEW a \in Askers, NEW b \in Buildings, NEW p \in Providers, Request(a, b, p)
        PROVE  searches' <= searches /\ Counted' \subseteq Counted
    BY <2>27, BuildingAssumption DEF Request, Decide, RowsFor, tableVars, workVars,
       workerVars, slotVars, Counted, TypeOK, TableTypeOK, SlotTypeOK
  <2>28. ASSUME NEW a \in Askers, NEW b \in Buildings, Observe(a, b)
        PROVE  searches' <= searches /\ Counted' \subseteq Counted
    BY <2>28, BuildingAssumption DEF Observe, Decide, tableVars, workVars, workerVars,
       slotVars, Counted, TypeOK, TableTypeOK, SlotTypeOK
  <2>29. ASSUME NEW a \in Askers, Insert(a)
        PROVE  searches' <= searches /\ Counted' \subseteq Counted
    BY <2>29, BuildingAssumption DEF Insert, Answered, tableVars, workVars, workerVars,
       slotVars, Counted, TypeOK, TableTypeOK, SlotTypeOK
  <2>30. ASSUME NEW a \in Askers, Requeue(a)
        PROVE  searches' <= searches /\ Counted' \subseteq Counted
    BY <2>30, BuildingAssumption DEF Requeue, MakePending, Answered, tableVars,
       workVars, workerVars, slotVars, Counted, TypeOK, TableTypeOK, SlotTypeOK
  <2>31. ASSUME NEW j \in Rows, GrowOld(j)
        PROVE  searches' <= searches /\ Counted' \subseteq Counted
    BY <2>31, BuildingAssumption DEF GrowOld, tableVars, workVars, workerVars, slotVars,
       Counted, TypeOK, TableTypeOK, SlotTypeOK
  <2>32. ASSUME NEW j \in Rows, BackoffEnds(j)
        PROVE  searches' <= searches /\ Counted' \subseteq Counted
    BY <2>32, BuildingAssumption DEF BackoffEnds, tableVars, workVars, workerVars,
       slotVars, Counted, TypeOK, TableTypeOK, SlotTypeOK
  <2>33. CASE NewDay
    BY <2>33, BuildingAssumption DEF NewDay, tableVars, workVars, workerVars, slotVars,
       Counted, TypeOK, TableTypeOK, SlotTypeOK
  <2> QED
    BY <1>4, <2>1, <2>2, <2>3, <2>4, <2>5, <2>6, <2>7, <2>8, <2>9, <2>10, <2>11, <2>12,
       <2>13, <2>14, <2>15, <2>16, <2>17, <2>18, <2>19, <2>20, <2>21, <2>22, <2>23,
       <2>24, <2>25, <2>26, <2>27, <2>28, <2>29, <2>30, <2>31, <2>32, <2>33 DEF Next,
       SlotStep, WorkerStep
<1> QED
  BY <1>2, <1>3, <1>4, BudgetQuiet

-----------------------------------------------------------------------------
(* Every reachable state starts from the invariant. *)
LEMMA InitInv == ASSUME Init PROVE BuildingInv
<1>1. TypeOK
  BY NoAskType, BuildingAssumption
  DEF Init, TypeOK, TableTypeOK, WorkerTypeOK, SlotTypeOK, AskTypeOK, Names, Statuses, Phases, Steps
<1>2. BatchInv /\ RecordInv
  BY DEF Init, BatchInv, WorkerHoldsOnce, RecordInv, CompletedIsRecorded
<1>3. BudgetInv
  <2>1. Counted = {}
    BY DEF Init, Counted
  <2> QED
    BY <2>1, SlotCount, FS_EmptySet, BuildingAssumption DEF Init, BudgetInv
<1> QED
  BY <1>1, <1>2, <1>3 DEF BuildingInv

(* The invariant holds in every reachable state. *)
THEOREM BuildingInvariant == Spec => []BuildingInv
<1>1. Init => BuildingInv
  BY InitInv
<1>2. BuildingInv /\ [Next]_vars => BuildingInv'
  BY TypeStep, BatchStep, BudgetStep, RecordStep DEF BuildingInv
<1> QED
  BY <1>1, <1>2, PTL DEF Spec

(* Types, and the row that a step in progress is about. *)
THEOREM BuildingTypes == Spec => []TypeOK
<1>1. BuildingInv => TypeOK
  BY DEF BuildingInv
<1> QED
  BY <1>1, BuildingInvariant, PTL

(* One worker never has two threads on the same row, for pools and batches of
   every size, and whatever other workers do to the table. *)
THEOREM OneThreadPerRow == Spec => []WorkerHoldsOnce
<1>1. BuildingInv => WorkerHoldsOnce
  BY DEF BuildingInv, BatchInv
<1> QED
  BY <1>1, BuildingInvariant, PTL

(* The daily budget is overshot by fewer searches than there are threads. *)
THEOREM BudgetOvershoot == Spec => []OvershootBounded
<1>1. BuildingInv => OvershootBounded
  <2>1. Cardinality(Counted) \in Nat /\ Cardinality(Slots) \in Nat
    BY SlotCount DEF Counted
  <2> QED
    BY <2>1, BuildingAssumption DEF BuildingInv, BudgetInv, OvershootBounded, TypeOK, TableTypeOK
<1> QED
  BY <1>1, BuildingInvariant, PTL

(* Completed rows have a recorded enrichment. *)
THEOREM CompletionIsRecorded == Spec => []CompletedIsRecorded
<1>1. BuildingInv => CompletedIsRecorded
  BY DEF BuildingInv, RecordInv
<1> QED
  BY <1>1, BuildingInvariant, PTL

(* While one worker runs alone, claims are exclusive, pool or not: what the
   comment in _process_batch says of several workers holds of one. *)
THEOREM LoneWorkerClaims == (\A v, w \in Workers : v = w) => (Spec => []SingleHolder)
<1>1. ASSUME \A v, w \in Workers : v = w
      PROVE  BuildingInv => SingleHolder
  BY <1>1, BuildingAssumption
  DEF BuildingInv, BatchInv, WorkerHoldsOnce, SingleHolder, Holders, Holding, Guarded
<1>2. ASSUME \A v, w \in Workers : v = w
      PROVE  Spec => []SingleHolder
  BY <1>1, <1>2, BuildingInvariant, PTL
<1> QED
  BY <1>2

=============================================================================
