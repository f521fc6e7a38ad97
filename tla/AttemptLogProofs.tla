--------------------------- MODULE AttemptLogProofs ---------------------------
(***************************************************************************)
(* The extraction queue implements the contract of the attempt log, for    *)
(* any number of rows, workers, triggers, crashes and failed calls. A      *)
(* worker in the model is a caller that knows the ids it was given (att);  *)
(* that it closes an attempt that is its own and still running is          *)
(* AttemptInv, that it works on a stored row is HandInv.                   *)
(***************************************************************************)
EXTENDS ExtractionQueueProofs

Given == [w \in Workers |-> att[w]]

StatusOf(r) ==
  IF ~exists[r] THEN "absent" ELSE IF processed[r] THEN "consumed" ELSE "available"

Status == [r \in Rows |-> StatusOf(r)]

-----------------------------------------------------------------------------
(* Steps that the contract does not see. *)
LEMMA Unseen ==
  ASSUME UNCHANGED <<exists, processed, outcome, log, att>>
  PROVE  UNCHANGED Attempts!vars
BY DEF Attempts!vars

(* The pipeline consumes the row it works on, or leaves it, with or without *)
(* the mark of a repeat.                                                   *)
LEMMA ConsumeStep ==
  ASSUME TypeOK, EvidenceInv, NEW a \in Actors, NEW r \in Rows,
         job[a][r] # "none",
         UNCHANGED <<exists, log, att>>,
         \/ processed' = processed /\ outcome' = outcome
         \/ /\ processed' = [processed EXCEPT ![r] = TRUE]
            /\ outcome' \in {outcome, [outcome EXCEPT ![r] = "repeat_observation"]}
  PROVE  [Attempts!Next]_(Attempts!vars)
<1>1. CASE processed' = processed /\ outcome' = outcome
  BY <1>1, Unseen
<1>2. CASE /\ processed' = [processed EXCEPT ![r] = TRUE]
           /\ outcome' \in {outcome, [outcome EXCEPT ![r] = "repeat_observation"]}
  <2>1. exists[r]
    BY DEF EvidenceInv, HandInv
  <2>2. Status' = [Status EXCEPT ![r] = "consumed"] /\ Status[r] # "absent"
    BY <1>2, <2>1 DEF Status, StatusOf, TypeOK, DbTypeOK
  <2>3. Attempts!Consume(r)
    BY <1>2, <2>2 DEF Attempts!Consume, Status, StatusOf
  <2> QED
    BY <2>3 DEF Attempts!Next
<1> QED
  BY <1>1, <1>2

(* A worker lets go of its ids for some rows. *)
LEMMA ForgetStep ==
  ASSUME TypeOK, NEW w \in Workers, NEW rs \in SUBSET Rows,
         UNCHANGED <<exists, processed, outcome, log>>,
         att' = [att EXCEPT ![w] = [r \in Rows |-> IF r \in rs THEN 0 ELSE att[w][r]]]
  PROVE  [Attempts!Next]_(Attempts!vars)
<1>1. Given' = [Given EXCEPT ![w] = [r \in Rows |-> IF r \in rs THEN 0 ELSE Given[w][r]]]
  BY DEF Given, TypeOK, JobTypeOK, Actors
<1>2. Attempts!Forget(w, rs)
  BY <1>1 DEF Attempts!Forget, Given
<1> QED
  BY <1>2 DEF Attempts!Next

-----------------------------------------------------------------------------
(* Every step of the queue is a step of the contract or leaves it alone. *)
LEMMA AttemptStep ==
  ASSUME TypeOK, AttemptInv, EvidenceInv, [Next]_vars
  PROVE  [Attempts!Next]_(Attempts!vars)
<1> USE DEF dbVars, controlVars, cycleVars, jobVars, historyVars
<1>0. /\ att \in [Actors -> [Rows -> Nat]] /\ log \in [Rows -> Seq(LogStatus)]
      /\ exists \in [Rows -> BOOLEAN] /\ processed \in [Rows -> BOOLEAN]
      /\ Workers \subseteq Actors
  BY DEF TypeOK, DbTypeOK, JobTypeOK, Actors
<1>1. CASE UNCHANGED vars
  BY <1>1, Unseen DEF vars
<1>2. CASE ControlPlane
  BY <1>2, Unseen DEF ControlPlane, SelectGroups, OptOut, OptIn, StartExtraction,
     PauseExtraction
<1>3. CASE ControlWrites
  BY <1>3, Unseen DEF ControlWrites, ConfirmSelection, RewriteQueuedRows
<1>4. ASSUME NEW w \in Workers,
             \/ BeginCycle(w) \/ ReenableRead(w) \/ ReenableWrite(w) \/ Fetch(w)
             \/ Filter(w) \/ EndCycle(w)
      PROVE  UNCHANGED Attempts!vars
  BY <1>4, Unseen DEF BeginCycle, ReenableRead, ReenableWrite, Fetch, Filter, EndCycle
<1>5. ASSUME NEW w \in Workers, NEW r \in Rows,
             Suppress(w, r) \/ ClaimStale(w, r) \/ ClaimError(w, r) \/ RaiseUnsaved(w, r)
      PROVE  UNCHANGED Attempts!vars
  BY <1>5, Unseen DEF Suppress, ClaimStale, ClaimError, RaiseUnsaved
<1>6. ASSUME NEW a \in Actors, NEW r \in Rows,
             \/ ContextError(a, r) \/ ProviderUnavailable(a, r) \/ CloneDuplicate(a, r)
             \/ ExtractListing(a, r) \/ SaveListing(a, r) \/ SaveStub(a, r)
      PROVE  UNCHANGED Attempts!vars
  BY <1>6, Unseen DEF ContextError, ProviderUnavailable, CloneDuplicate, ExtractListing,
     SaveListing, SaveStub
<1>7. ASSUME NEW r \in Rows, Arrive(r) \/ ArriveHistory(r)
      PROVE  [Attempts!Next]_(Attempts!vars)
  <2>1. PICK status \in {"available", "consumed"} :
          Status' = [q \in Rows |-> IF q \in {r} THEN status ELSE Status[q]]
    <3>1. CASE Arrive(r)
      <4>1. ~processed[r]
        BY <3>1 DEF Arrive, EvidenceInv, HistoryInv
      <4>2. Status' = [q \in Rows |-> IF q \in {r} THEN "available" ELSE Status[q]]
        BY <1>0, <3>1, <4>1 DEF Arrive, Status, StatusOf
      <4> QED
        BY <4>2
    <3>2. CASE ArriveHistory(r)
      <4>1. Status' = [q \in Rows |-> IF q \in {r} THEN "consumed" ELSE Status[q]]
        BY <1>0, <3>2 DEF ArriveHistory, Status, StatusOf
      <4> QED
        BY <4>1
    <3> QED
      BY <1>7, <3>1, <3>2
  <2>2. Status[r] = "absent" /\ UNCHANGED <<outcome, log, Given>>
    BY <1>7 DEF Arrive, ArriveHistory, Status, StatusOf, Given
  <2>3. Attempts!Arrive({r}, status)
    BY <2>1, <2>2 DEF Attempts!Arrive, Status, StatusOf, Given
  <2> QED
    BY <2>3 DEF Attempts!Next
<1>8. ASSUME NEW a \in Actors, NEW r \in Rows, Materialize(a, r)
      PROVE  [Attempts!Next]_(Attempts!vars)
  <2>1. PICK missing \in SUBSET {c \in ChildrenOf[r] : ~exists[c]} :
          exists' = [c \in Rows |-> exists[c] \/ c \in ChildrenOf[r] \ missing]
    BY <1>8 DEF Materialize
  <2> DEFINE new == {c \in Rows : ~exists[c] /\ c \in ChildrenOf[r] \ missing}
  <2>2. \A c \in new : ~processed[c]
    BY DEF EvidenceInv, HistoryInv
  <2>3. UNCHANGED <<processed, outcome, log, att>>
    BY <1>8 DEF Materialize
  <2>4. Status' = [q \in Rows |-> IF q \in new THEN "available" ELSE Status[q]]
    BY <1>0, <2>1, <2>2, <2>3 DEF Status, StatusOf
  <2>5. \A c \in new : Status[c] = "absent"
    BY DEF Status, StatusOf
  <2>6. new \in SUBSET Rows
    OBVIOUS
  <2> HIDE DEF new
  <2>7. Attempts!Arrive(new, "available")
    BY <2>3, <2>4, <2>5, <2>6 DEF Attempts!Arrive, Status, StatusOf
  <2> QED
    BY <2>6, <2>7 DEF Attempts!Next
<1>9. ASSUME NEW a \in Actors, NEW r \in Rows,
             \/ SkipExcluded(a, r) \/ RecordRepeat(a, r) \/ PassGates(a, r)
             \/ MarkSplitParent(a, r) \/ MarkProcessed(a, r)
      PROVE  [Attempts!Next]_(Attempts!vars)
  <2>1. job[a][r] # "none" /\ UNCHANGED <<exists, log, att>>
    BY <1>9 DEF SkipExcluded, RecordRepeat, PassGates, MarkSplitParent, MarkProcessed
  <2>2. \/ processed' = processed /\ outcome' = outcome
        \/ /\ processed' = [processed EXCEPT ![r] = TRUE]
           /\ outcome' \in {outcome, [outcome EXCEPT ![r] = "repeat_observation"]}
    BY <1>9 DEF SkipExcluded, RecordRepeat, PassGates, MarkSplitParent, MarkProcessed
  <2> QED
    BY <2>1, <2>2, ConsumeStep
<1>10. ASSUME NEW w \in Workers, NEW r \in Rows, DeadLetter(w, r)
       PROVE  [Attempts!Next]_(Attempts!vars)
  <2>1. CASE UNCHANGED <<processed, outcome, log>>
    BY <1>10, <2>1, Unseen DEF DeadLetter
  <2>2. CASE ~ UNCHANGED <<processed, outcome, log>>
    <3>1. /\ ~processed[r] /\ exists[r] /\ UNCHANGED <<exists, att>>
          /\ processed' = [processed EXCEPT ![r] = TRUE]
          /\ outcome' = [outcome EXCEPT ![r] = "dead_lettered"]
          /\ log' = [log EXCEPT ![r] = Append(@, "dead_lettered")]
      BY <1>0, <1>10, <2>2 DEF DeadLetter, EvidenceInv, HandInv
    <3>2. Status[r] = "available" /\ Status' = [Status EXCEPT ![r] = "consumed"]
      BY <1>0, <3>1 DEF Status, StatusOf
    <3>3. Attempts!DeadLetter(r)
      BY <3>1, <3>2 DEF Attempts!DeadLetter, Status, StatusOf
    <3> QED
      BY <3>3 DEF Attempts!Next
  <2> QED
    BY <2>1, <2>2
<1>11. ASSUME NEW w \in Workers, NEW r \in Rows, Claim(w, r)
       PROVE  [Attempts!Next]_(Attempts!vars)
  <2>1. Status[r] = "available" /\ Given[w][r] = 0
    BY <1>0, <1>11 DEF Claim, EvidenceInv, HandInv, AttemptInv, InFlight, Status, StatusOf, Given
  <2>2. Given' = [Given EXCEPT ![w][r] = Len(log[r]) + 1]
    BY <1>0, <1>11 DEF Claim, Given
  <2>3. Attempts!Begin(w, r)
    BY <1>11, <2>1, <2>2 DEF Claim, Attempts!Begin, Status, StatusOf, Given
  <2> QED
    BY <2>3 DEF Attempts!Next
<1>12. ASSUME NEW w \in Workers, NEW r \in Rows, Finish(w, r) \/ FinishFailed(w, r)
       PROVE  [Attempts!Next]_(Attempts!vars)
  <2>1. UNCHANGED <<exists, processed>>
    BY <1>12 DEF Finish, FinishFailed
  <2>2. ASSUME NEW status \in {"succeeded", "skipped", "failed"},
               SetAttempt(r, att[w][r], status), Release(w, r),
               outcome' = [outcome EXCEPT ![r] = status]
        PROVE  [Attempts!Next]_(Attempts!vars)
    <3>1. /\ Given[w][r] \in 1..Len(log[r]) /\ log[r][Given[w][r]] = "running"
          /\ Given[w][r] = att[w][r]
      BY <1>12 DEF Finish, FinishFailed, AttemptInv, InFlight, Given
    <3>2. Given' = [Given EXCEPT ![w][r] = 0]
      BY <1>0, <2>2 DEF Release, Given
    <3>3. Attempts!Finish(w, r, status)
      BY <2>1, <2>2, <3>1, <3>2 DEF SetAttempt, Attempts!Finish, Given
    <3> QED
      BY <3>3 DEF Attempts!Next
  <2>3. CASE UNCHANGED <<log, outcome>> /\ Release(w, r)
    <3>1. att' = [att EXCEPT ![w] = [q \in Rows |-> IF q \in {r} THEN 0 ELSE att[w][q]]]
      BY <1>0, <2>3 DEF Release
    <3> QED
      BY <2>1, <2>3, <3>1, ForgetStep
  <2>4. CASE UNCHANGED <<log, outcome, att>>
    BY <2>1, <2>4, Unseen
  <2> QED
    BY <1>12, <2>2, <2>3, <2>4 DEF Finish, FinishFailed, FinishStatus
<1>13. ASSUME NEW d \in Triggers, NEW r \in Rows, TriggerStart(d, r) \/ TriggerEnd(d, r)
       PROVE  UNCHANGED Attempts!vars
  <2>1. Given' = Given
    <3>1. att' = att \/ att' = [att EXCEPT ![d][r] = 0]
      BY <1>13 DEF TriggerStart, TriggerEnd, Release
    <3>2. d \notin Workers
      BY ProcessAssumption
    <3> QED
      BY <1>0, <3>1, <3>2 DEF Given
  <2> QED
    BY <1>13, <2>1 DEF TriggerStart, TriggerEnd, Attempts!vars, Given
<1>14. ASSUME NEW w \in Workers, Crash(w)
       PROVE  [Attempts!Next]_(Attempts!vars)
  <2>1. att' = [att EXCEPT ![w] = [q \in Rows |-> IF q \in Rows THEN 0 ELSE att[w][q]]]
    BY <1>14 DEF Crash
  <2> QED
    BY <1>14, <2>1, ForgetStep DEF Crash
<1> QED
  BY <1>1, <1>2, <1>3, <1>4, <1>5, <1>6, <1>7, <1>8, <1>9, <1>10, <1>11, <1>12, <1>13, <1>14
     DEF Next, WorkerStep, RowStep, TriggerStep, Pipeline, Actors

(* Whatever workers, triggers and operators do, and whatever fails, what    *)
(* they do to rows, outcomes and attempts is a behaviour of the contract.  *)
THEOREM AttemptRefinement == Spec => ImplementsAttempts
<1>1. Init => Attempts!Init
  BY DEF Init, Attempts!Init, Actors
<1>2. QueueInv /\ [Next]_vars => [Attempts!Next]_(Attempts!vars)
  BY AttemptStep DEF QueueInv, ClaimInv
<1> QED
  BY <1>1, <1>2, Invariant, PTL DEF Spec, ImplementsAttempts, Attempts!Spec
=============================================================================
