------------------------ MODULE ExtractionOutcomeProofs ------------------------
(***************************************************************************)
(* What the outcomes of the extraction queue are worth, for any number of  *)
(* rows, actors, crashes and failed calls: a success in the attempt log is *)
(* backed, a dead letter is earned, a closed attempt is never rewritten,   *)
(* and a withdrawal of consent is outrun by at most one batch of a lane.   *)
(* Two more hold only while no two actors hold the same row (Exclusive),   *)
(* which the code does not enforce but which one worker process gives: a   *)
(* succeeded row is visible, and a dead letter is final.                   *)
(*                                                                         *)
(* QueueInv of ExtractionQueueProofs is the context; each result adds the  *)
(* part of the inductive invariant that it needs.                          *)
(***************************************************************************)
EXTENDS ExtractionQueueProofs, FiniteSetTheorems

Evidence == {"listing", "clone", "repeat"}

(* What an actor is about to report as stored has been saved, copied or matched. *)
BackedInv ==
  /\ \A a \in Actors, r \in Rows : plan[a][r] = "stored" => resolved[r] \cap Evidence # {}
  /\ SuccessIsBacked

(* A worker counts no failure that neither the log nor a failed call shows. *)
CountInv ==
  \A w \in Workers, r \in Rows : retry[w][r] <= Cardinality(Failures(r)) + faults

-----------------------------------------------------------------------------
(* Steps that write nothing the outcomes depend on: they move rows towards *)
(* a lane or through the pipeline.                                         *)
QuietMoves ==
  {<<"claimed", "raised">>, <<"claimed", "gated">>, <<"gated", "split">>,
   <<"gated", "raised">>, <<"saved", "returned">>, <<"returned", "raised">>}

Quiet ==
  /\ UNCHANGED <<log, outcome, repeatOf, typed, plan, retry>>
  /\ \A a \in Actors, r \in Rows :
       \/ job'[a][r] = job[a][r]
       \/ job[a][r] \notin InFlight /\ job'[a][r] \notin InFlight
       \/ <<job[a][r], job'[a][r]>> \in QuietMoves

(* The steps that are not quiet. *)
Report(w, r) ==
  \/ DeadLetter(w, r) \/ Claim(w, r) \/ ClaimStale(w, r) \/ ClaimError(w, r)
  \/ Finish(w, r) \/ FinishFailed(w, r)

Save(a, r) ==
  \/ SkipExcluded(a, r) \/ RecordRepeat(a, r) \/ MarkSplitParent(a, r)
  \/ CloneDuplicate(a, r) \/ ExtractListing(a, r) \/ SaveListing(a, r) \/ SaveStub(a, r)

Loud ==
  \/ \E w \in Workers : Crash(w)
  \/ \E w \in Workers, r \in Rows : Report(w, r)
  \/ \E a \in Actors, r \in Rows : Save(a, r)
  \/ \E d \in Triggers, r \in Rows : TriggerStart(d, r) \/ TriggerEnd(d, r)

(* Every step is quiet or one of those. *)
LEMMA QuietOrLoud == ASSUME TypeOK, PlaceInv, [Next]_vars PROVE Quiet \/ Loud
<1> USE DEF Quiet, dbVars, controlVars, cycleVars, jobVars, historyVars
<1>1. CASE UNCHANGED vars
  BY <1>1 DEF vars
<1>2. ASSUME NEW r \in Rows, Arrive(r) \/ ArriveHistory(r)
      PROVE  Quiet
  BY <1>2 DEF Arrive, ArriveHistory
<1>3. CASE ControlPlane
  BY <1>3 DEF ControlPlane, SelectGroups, OptOut, OptIn, StartExtraction, PauseExtraction
<1>4. CASE ControlWrites
  BY <1>4 DEF ControlWrites, ConfirmSelection, RewriteQueuedRows
<1>5. ASSUME NEW w \in Workers,
             BeginCycle(w) \/ ReenableRead(w) \/ ReenableWrite(w) \/ EndCycle(w)
      PROVE  Quiet
  BY <1>5 DEF BeginCycle, ReenableRead, ReenableWrite, EndCycle
<1>6. ASSUME NEW w \in Workers, Fetch(w)
      PROVE  Quiet
  <2>1. \A r \in Rows : job[w][r] = "none"
    BY <1>6 DEF Fetch, PlaceInv
  <2>2. \A r \in Rows : job'[w][r] \in {"none", "fetched"}
    BY <1>6 DEF Fetch, TypeOK, JobTypeOK, Actors
  <2>3. \A a \in Actors \ {w} : job'[a] = job[a]
    BY <1>6 DEF Fetch, TypeOK, JobTypeOK
  <2> QED
    BY <1>6, <2>1, <2>2, <2>3 DEF Fetch, InFlight
<1>7. ASSUME NEW w \in Workers, Filter(w)
      PROVE  Quiet
  <2>1. \A r \in Rows : job[w][r] \in {"none", "fetched"}
    BY <1>7 DEF Filter, PlaceInv
  <2>2. \A r \in Rows : job'[w][r] \in {"none", "queued", "unconsented"}
    BY <1>7, <2>1 DEF Filter, TypeOK, JobTypeOK, Actors
  <2>3. \A a \in Actors \ {w} : job'[a] = job[a]
    BY <1>7 DEF Filter, TypeOK, JobTypeOK
  <2> QED
    BY <1>7, <2>1, <2>2, <2>3 DEF Filter, InFlight
<1>8. ASSUME NEW w \in Workers, NEW r \in Rows, Suppress(w, r) \/ RaiseUnsaved(w, r)
      PROVE  Quiet
  BY <1>8 DEF Suppress, RaiseUnsaved, Move, TypeOK, JobTypeOK, InFlight, QuietMoves, Actors
<1>9. ASSUME NEW a \in Actors, NEW r \in Rows,
             ContextError(a, r) \/ PassGates(a, r) \/ ProviderUnavailable(a, r)
      PROVE  Quiet
  BY <1>9 DEF ContextError, PassGates, ProviderUnavailable, Move, TypeOK, JobTypeOK,
     QuietMoves
<1>10. ASSUME NEW a \in Actors, NEW r \in Rows, Materialize(a, r)
      PROVE  Quiet
  <2>1. PICK phase \in {"split", "raised"} : Move(a, r, phase)
    BY <1>10 DEF Materialize
  <2>2. job[a][r] = "gated"
    BY <1>10 DEF Materialize
  <2>3. \A b \in Actors, q \in Rows :
          job'[b][q] = IF b = a /\ q = r THEN phase ELSE job[b][q]
    BY <2>1 DEF Move, TypeOK, JobTypeOK
  <2>4. UNCHANGED <<log, outcome, repeatOf, typed, plan, retry>>
    BY <1>10 DEF Materialize
  <2> QED
    BY <2>1, <2>2, <2>3, <2>4 DEF QuietMoves
<1>11. ASSUME NEW a \in Actors, NEW r \in Rows, MarkProcessed(a, r)
      PROVE  Quiet
  BY <1>11 DEF MarkProcessed, Move, TypeOK, JobTypeOK, QuietMoves
<1> QED
  BY <1>1, <1>2, <1>3, <1>4, <1>5, <1>6, <1>7, <1>8, <1>9, <1>10, <1>11
     DEF Next, WorkerStep, RowStep, TriggerStep, Pipeline, Loud, Report, Save, Actors

(* Evidence, consumption and failed calls only accumulate. *)
LEMMA Monotone ==
  ASSUME TypeOK, [Next]_vars
  PROVE  /\ \A r \in Rows : resolved[r] \subseteq resolved'[r]
         /\ \A r \in Rows : processed[r] => processed'[r]
         /\ faults' \in Nat /\ faults <= faults'
<1> DEFINE Grows ==
      /\ \A r \in Rows : resolved[r] \subseteq resolved'[r]
      /\ \A r \in Rows : processed[r] => processed'[r]
      /\ faults' \in Nat /\ faults <= faults'
<1> USE DEF dbVars, controlVars, cycleVars, jobVars, historyVars, Fault, NoFault, Resolve
<1>0. /\ faults \in Nat
      /\ resolved \in [Rows -> SUBSET Resolutions]
      /\ processed \in [Rows -> BOOLEAN]
  BY BoundAssumption DEF TypeOK, HistoryTypeOK, DbTypeOK
<1>1. CASE UNCHANGED vars
  BY <1>0, <1>1 DEF vars
<1>2. ASSUME NEW r \in Rows, Arrive(r) \/ ArriveHistory(r)
      PROVE  Grows
  BY <1>0, <1>2 DEF Arrive, ArriveHistory
<1>3. CASE ControlPlane
  <2>1. UNCHANGED <<resolved, processed, faults>>
    BY <1>3 DEF ControlPlane, SelectGroups, OptOut, OptIn, StartExtraction, PauseExtraction
  <2> QED
    BY <1>0, <2>1
<1>4. CASE ControlWrites
  BY <1>0, <1>4 DEF ControlWrites, ConfirmSelection, RewriteQueuedRows
<1>5. ASSUME NEW w \in Workers,
             \/ BeginCycle(w) \/ ReenableRead(w) \/ ReenableWrite(w) \/ EndCycle(w)
             \/ Fetch(w) \/ Filter(w) \/ Crash(w)
      PROVE  Grows
  <2>1. UNCHANGED <<resolved, processed>>
    BY <1>5 DEF BeginCycle, ReenableRead, ReenableWrite, EndCycle, Fetch, Filter, Crash
  <2>2. faults' \in {faults, faults + 1}
    BY <1>5 DEF BeginCycle, ReenableRead, ReenableWrite, EndCycle, Fetch, Filter, Crash
  <2> QED
    BY <1>0, <2>1, <2>2
<1>6. ASSUME NEW w \in Workers, NEW r \in Rows,
             \/ Suppress(w, r) \/ Claim(w, r) \/ ClaimStale(w, r) \/ ClaimError(w, r)
             \/ Finish(w, r) \/ RaiseUnsaved(w, r) \/ FinishFailed(w, r)
      PROVE  Grows
  BY <1>0, <1>6 DEF Suppress, Claim, ClaimStale, ClaimError, Finish, RaiseUnsaved, FinishFailed
<1>7. ASSUME NEW w \in Workers, NEW r \in Rows, DeadLetter(w, r)
      PROVE  Grows
  BY <1>0, <1>7 DEF DeadLetter
<1>8. ASSUME NEW d \in Triggers, NEW r \in Rows, TriggerStart(d, r) \/ TriggerEnd(d, r)
      PROVE  Grows
  BY <1>0, <1>8 DEF TriggerStart, TriggerEnd
<1>9. ASSUME NEW a \in Actors, NEW r \in Rows,
             \/ ContextError(a, r) \/ SkipExcluded(a, r) \/ RecordRepeat(a, r)
             \/ MarkSplitParent(a, r) \/ ProviderUnavailable(a, r)
      PROVE  Grows
  BY <1>0, <1>9 DEF ContextError, SkipExcluded, RecordRepeat, MarkSplitParent,
     ProviderUnavailable
<1>10. ASSUME NEW a \in Actors, NEW r \in Rows, PassGates(a, r)
      PROVE  Grows
  BY <1>0, <1>10 DEF PassGates
<1>11. ASSUME NEW a \in Actors, NEW r \in Rows, Materialize(a, r)
      PROVE  Grows
  BY <1>0, <1>11 DEF Materialize
<1>12. ASSUME NEW a \in Actors, NEW r \in Rows,
              CloneDuplicate(a, r) \/ SaveListing(a, r) \/ MarkProcessed(a, r)
      PROVE  Grows
  BY <1>0, <1>12 DEF CloneDuplicate, SaveListing, MarkProcessed
<1>13. ASSUME NEW a \in Actors, NEW r \in Rows, ExtractListing(a, r) \/ SaveStub(a, r)
      PROVE  Grows
  BY <1>0, <1>13 DEF ExtractListing, CleanOtherRoutes, SaveStub
<1> QED
  BY <1>1, <1>2, <1>3, <1>4, <1>5, <1>6, <1>7, <1>8, <1>9, <1>10, <1>11, <1>12, <1>13
     DEF Next, WorkerStep, RowStep, TriggerStep, Pipeline, Actors

(* Only a worker's reports write the log: an attempt is opened or a dead   *)
(* letter appended, or the worker closes the running attempt it owns.      *)
LogChange(r) ==
  \/ log'[r] = log[r]
  \/ \E status \in {"running", "dead_lettered"} : log'[r] = Append(log[r], status)
  \/ \E w \in Workers, status \in LogStatus :
       /\ att[w][r] \in 1..Len(log[r]) /\ log[r][att[w][r]] = "running"
       /\ log'[r] = [log[r] EXCEPT ![att[w][r]] = status]

LEMMA LogStep == ASSUME QueueInv, [Next]_vars PROVE \A r \in Rows : LogChange(r)
<1>0. TypeOK /\ PlaceInv /\ AttemptInv /\ log \in [Rows -> Seq(LogStatus)]
  BY DEF QueueInv, ClaimInv, TypeOK, DbTypeOK
<1>1. CASE Quiet
  BY <1>1 DEF Quiet, LogChange
<1>2. ASSUME NEW w \in Workers, NEW r \in Rows,
             DeadLetter(w, r) \/ Claim(w, r) \/ ClaimStale(w, r) \/ ClaimError(w, r)
      PROVE  \A q \in Rows : LogChange(q)
  BY <1>0, <1>2 DEF DeadLetter, Claim, ClaimStale, ClaimError, dbVars, LogChange
<1>3. ASSUME NEW w \in Workers, NEW r \in Rows, Finish(w, r) \/ FinishFailed(w, r)
      PROVE  \A q \in Rows : LogChange(q)
  <2>1. \/ UNCHANGED log
        \/ \E status \in LogStatus : SetAttempt(r, att[w][r], status)
    BY <1>3 DEF Finish, FinishFailed, FinishStatus, LogStatus
  <2>2. att[w][r] \in 1..Len(log[r]) /\ log[r][att[w][r]] = "running"
    BY <1>0, <1>3 DEF Finish, FinishFailed, AttemptInv, InFlight
  <2> QED
    BY <1>0, <2>1, <2>2 DEF SetAttempt, LogChange
<1>4. ASSUME NEW a \in Actors, NEW r \in Rows, Save(a, r)
      PROVE  UNCHANGED log
  BY <1>4 DEF Save, SkipExcluded, RecordRepeat, MarkSplitParent, CloneDuplicate,
     ExtractListing, SaveListing, SaveStub
<1>5. ASSUME NEW d \in Triggers, NEW r \in Rows, TriggerStart(d, r) \/ TriggerEnd(d, r)
      PROVE  UNCHANGED log
  BY <1>5 DEF TriggerStart, TriggerEnd, dbVars
<1>6. ASSUME NEW w \in Workers, Crash(w)
      PROVE  UNCHANGED log
  BY <1>6 DEF Crash, dbVars
<1> QED
  BY <1>0, <1>1, <1>2, <1>3, <1>4, <1>5, <1>6, QuietOrLoud DEF Loud, Report, LogChange

-----------------------------------------------------------------------------
(* A closed attempt is never rewritten and no entry is lost, for any number *)
(* of workers, triggers, crashes and failed calls: begin, finish and        *)
(* dead_letter only append, or close the running attempt of their caller.   *)
THEOREM AttemptHistory == Spec => ClosedAttemptsStay
<1> DEFINE Keeps == \A r \in Rows : \A i \in 1..Len(log[r]) :
      /\ i \in 1..Len(log'[r])
      /\ log[r][i] # "running" => log'[r][i] = log[r][i]
<1>1. QueueInv /\ [Next]_vars => [Keeps]_vars
  <2> SUFFICES ASSUME QueueInv, [Next]_vars PROVE Keeps
    OBVIOUS
  <2> SUFFICES ASSUME NEW r \in Rows, NEW i \in 1..Len(log[r])
               PROVE  /\ i \in 1..Len(log'[r])
                      /\ log[r][i] # "running" => log'[r][i] = log[r][i]
    OBVIOUS
  <2>1. LogChange(r)
    BY LogStep
  <2>2. log[r] \in Seq(LogStatus)
    BY DEF QueueInv, TypeOK, DbTypeOK
  <2>3. CASE log'[r] = log[r]
    BY <2>3
  <2>4. ASSUME NEW status \in LogStatus, log'[r] = Append(log[r], status)
        PROVE  i \in 1..Len(log'[r]) /\ log'[r][i] = log[r][i]
    BY <2>2, <2>4
  <2>5. ASSUME NEW k \in 1..Len(log[r]), NEW status \in LogStatus, log[r][k] = "running",
               log'[r] = [log[r] EXCEPT ![k] = status]
        PROVE  /\ i \in 1..Len(log'[r])
               /\ log[r][i] # "running" => log'[r][i] = log[r][i]
    BY <2>2, <2>5
  <2>6. {"running", "dead_lettered"} \subseteq LogStatus
    BY DEF LogStatus
  <2> QED
    BY <2>1, <2>3, <2>4, <2>5, <2>6 DEF LogChange
<1> QED
  BY <1>1, Invariant, PTL DEF Spec, ClosedAttemptsStay

-----------------------------------------------------------------------------
(* Planning to report "stored" needs evidence, and so does logging it. *)
LEMMA BackedStep == ASSUME QueueInv, BackedInv, [Next]_vars PROVE BackedInv'
<1> DEFINE Backed(r) == resolved[r] \cap Evidence # {}
           Planned == \A a \in Actors, r \in Rows : plan[a][r] = "stored" => Backed(r)
           Logged == \A r \in Rows : \A i \in 1..Len(log[r]) :
                       log[r][i] = "succeeded" => Backed(r)
<1>0. /\ TypeOK /\ PlaceInv /\ AttemptInv /\ Planned /\ Logged
      /\ log \in [Rows -> Seq(LogStatus)]
      /\ plan \in [Actors -> [Rows -> Plans]]
      /\ resolved \in [Rows -> SUBSET Resolutions]
  BY DEF QueueInv, ClaimInv, BackedInv, SuccessIsBacked, Evidence, TypeOK, DbTypeOK,
     JobTypeOK, HistoryTypeOK
<1>1. \A r \in Rows : Backed(r) => Backed(r)'
  BY Monotone, <1>0
(* Which actors may still report "stored". *)
<1>2. ASSUME \A a \in Actors, r \in Rows : plan'[a][r] = "stored" => plan[a][r] = "stored"
      PROVE  Planned'
  BY <1>0, <1>1, <1>2
<1>3. ASSUME \A r \in Rows : \/ log'[r] = log[r]
                             \/ log'[r] = Append(log[r], "running")
                             \/ log'[r] = Append(log[r], "dead_lettered")
      PROVE  Logged'
  <2> SUFFICES ASSUME NEW r \in Rows, NEW i \in 1..Len(log'[r]), log'[r][i] = "succeeded"
               PROVE  Backed(r)'
    OBVIOUS
  <2>1. i \in 1..Len(log[r]) /\ log[r][i] = "succeeded"
    <3>1. log[r] \in Seq(LogStatus)
      BY <1>0
    <3>2. CASE log'[r] = log[r]
      BY <3>2
    <3>3. ASSUME NEW status \in {"running", "dead_lettered"}, log'[r] = Append(log[r], status)
          PROVE  i \in 1..Len(log[r]) /\ log[r][i] = "succeeded"
      <4>1. Len(log'[r]) = Len(log[r]) + 1 /\ log'[r][Len(log[r]) + 1] = status
        BY <3>1, <3>3
      <4>2. i # Len(log[r]) + 1
        BY <4>1
      <4> QED
        BY <3>1, <3>3, <4>1, <4>2
    <3> QED
      BY <1>3, <3>2, <3>3
  <2> QED
    BY <1>0, <1>1, <2>1
<1> HIDE DEF Planned, Logged
<1>4. ASSUME Quiet
      PROVE  Planned' /\ Logged'
  <2>1. \A a \in Actors, r \in Rows : plan'[a][r] = "stored" => plan[a][r] = "stored"
    BY <1>4 DEF Quiet
  <2>2. \A r \in Rows : \/ log'[r] = log[r]
                         \/ log'[r] = Append(log[r], "running")
                         \/ log'[r] = Append(log[r], "dead_lettered")
    BY <1>4 DEF Quiet
  <2>3. Planned'
    BY <1>2, <2>1
  <2>4. Logged'
    BY <1>3, <2>2
  <2> QED
    BY <2>3, <2>4
<1>5. ASSUME NEW w \in Workers, NEW r \in Rows,
             DeadLetter(w, r) \/ Claim(w, r) \/ ClaimStale(w, r) \/ ClaimError(w, r)
      PROVE  Planned' /\ Logged'
  <2>1. plan' = plan
    BY <1>5 DEF DeadLetter, Claim, ClaimStale, ClaimError
  <2>2. \/ log' = log
        \/ log' = [log EXCEPT ![r] = Append(@, "running")]
        \/ log' = [log EXCEPT ![r] = Append(@, "dead_lettered")]
    BY <1>5 DEF DeadLetter, Claim, ClaimStale, ClaimError, dbVars
  <2> QED
    BY <1>0, <1>2, <1>3, <2>1, <2>2
<1>6. ASSUME NEW w \in Workers, NEW r \in Rows, Finish(w, r) \/ FinishFailed(w, r)
      PROVE  Planned' /\ Logged'
  <2>1. \/ UNCHANGED plan
        \/ plan' = [plan EXCEPT ![w][r] = "none"]
    BY <1>6 DEF Finish, FinishFailed, Release
  <2>2. \/ UNCHANGED log
        \/ \E status \in LogStatus : /\ log' = [log EXCEPT ![r][att[w][r]] = status]
                                     /\ status = "succeeded" => plan[w][r] = "stored"
    BY <1>6 DEF Finish, FinishFailed, FinishStatus, SetAttempt, LogStatus
  <2>3. Planned'
    <3>1. \A a \in Actors, q \in Rows : plan'[a][q] = "stored" => plan[a][q] = "stored"
      BY <1>0, <2>1 DEF Actors
    <3> QED
      BY <1>2, <3>1
  <2>4. Logged'
    <3>1. CASE UNCHANGED log
      BY <1>0, <1>3, <3>1
    <3>2. ASSUME NEW status \in LogStatus, log' = [log EXCEPT ![r][att[w][r]] = status],
                 status = "succeeded" => plan[w][r] = "stored"
          PROVE  Logged'
      <4> SUFFICES ASSUME NEW q \in Rows, NEW i \in 1..Len(log'[q]), log'[q][i] = "succeeded"
                   PROVE  Backed(q)
        BY <1>1 DEF Logged
      <4>1. CASE q # r
        BY <1>0, <3>2, <4>1 DEF Logged
      <4>2. CASE q = r
        <5>1. log'[r] = [log[r] EXCEPT ![att[w][r]] = status]
          BY <1>0, <3>2
        <5>2. i \in 1..Len(log[r])
          BY <1>0, <5>1, <4>2
        <5>3. CASE i = att[w][r]
          <6>1. status = "succeeded"
            BY <1>0, <5>1, <5>2, <5>3, <4>2
          <6> QED
            BY <1>0, <3>2, <6>1, <4>2 DEF Actors, Planned
        <5>4. CASE i # att[w][r]
          BY <1>0, <5>1, <5>2, <5>4, <4>2 DEF Logged
        <5> QED
          BY <5>3, <5>4
      <4> QED
        BY <4>1, <4>2
    <3> QED
      BY <2>2, <3>1, <3>2
  <2> QED
    BY <2>3, <2>4
<1>7. ASSUME NEW a \in Actors, NEW r \in Rows, Save(a, r)
      PROVE  Planned' /\ Logged'
  <2>1. UNCHANGED log
    BY <1>7 DEF Save, SkipExcluded, RecordRepeat, MarkSplitParent, CloneDuplicate,
       ExtractListing, SaveListing, SaveStub
  <2>2. Logged'
    BY <1>3, <2>1
  <2>3. ASSUME NEW status, plan' = [plan EXCEPT ![a][r] = status],
               status = "stored" => Backed(r)'
        PROVE  Planned'
    BY <1>0, <1>1, <2>3 DEF Planned
  <2>4. ASSUME UNCHANGED plan
        PROVE  Planned'
    <3>1. \A b \in Actors, q \in Rows : plan'[b][q] = "stored" => plan[b][q] = "stored"
      BY <2>4
    <3> QED
      BY <1>2, <3>1
  <2>5. \/ UNCHANGED plan
        \/ \E status : plan' = [plan EXCEPT ![a][r] = status] /\ (status = "stored" => Backed(r)')
    <3>1. CASE SkipExcluded(a, r) \/ MarkSplitParent(a, r) \/ SaveStub(a, r)
      BY <3>1 DEF SkipExcluded, MarkSplitParent, SaveStub, Return
    <3>2. CASE RecordRepeat(a, r) \/ CloneDuplicate(a, r)
      <4>1. \E how \in Evidence : resolved' = [resolved EXCEPT ![r] = @ \cup {how}]
        BY <3>2 DEF RecordRepeat, CloneDuplicate, Resolve, Evidence
      <4>2. Backed(r)'
        BY <1>0, <4>1
      <4> QED
        BY <3>2, <4>2 DEF RecordRepeat, CloneDuplicate, Return
    <3>3. CASE SaveListing(a, r)
      <4>1. \/ /\ plan' = [plan EXCEPT ![a][r] = "stored"]
               /\ resolved' = [resolved EXCEPT ![r] = @ \cup {"listing"}]
            \/ plan' = [plan EXCEPT ![a][r] = "failed"]
        BY <3>3 DEF SaveListing, Return, Resolve
      <4>2. resolved' = [resolved EXCEPT ![r] = @ \cup {"listing"}] => Backed(r)'
        BY <1>0 DEF Evidence
      <4> QED
        BY <4>1, <4>2
    <3>4. CASE ExtractListing(a, r)
      BY <3>4, TableAssumption DEF ExtractListing, StorageStatus
    <3> QED
      BY <1>7, <3>1, <3>2, <3>3, <3>4 DEF Save
  <2> QED
    BY <2>2, <2>3, <2>4, <2>5
<1>8. ASSUME NEW d \in Triggers, NEW r \in Rows, TriggerStart(d, r) \/ TriggerEnd(d, r)
      PROVE  Planned' /\ Logged'
  <2>1. UNCHANGED log /\ (UNCHANGED plan \/ plan' = [plan EXCEPT ![d][r] = "none"])
    BY <1>8 DEF TriggerStart, TriggerEnd, Release, dbVars
  <2>2. ASSUME NEW a \in Actors, NEW q \in Rows
        PROVE  plan'[a][q] = "stored" => plan[a][q] = "stored"
    <3>1. plan'[a][q] \in {plan[a][q], "none"}
      BY <1>0, <2>1
    <3> QED
      BY <3>1
  <2>3. Planned'
    BY <1>2, <2>2
  <2> QED
    BY <1>3, <2>1, <2>3
<1>9. ASSUME NEW w \in Workers, Crash(w)
      PROVE  Planned' /\ Logged'
  <2>1. UNCHANGED log /\ plan' = [plan EXCEPT ![w] = [r \in Rows |-> "none"]]
    BY <1>9 DEF Crash, dbVars
  <2>2. ASSUME NEW a \in Actors, NEW q \in Rows
        PROVE  plan'[a][q] = "stored" => plan[a][q] = "stored"
    <3>1. plan'[a] = IF a = w THEN [r \in Rows |-> "none"] ELSE plan[a]
      BY <1>0, <2>1
    <3> QED
      BY <3>1
  <2>3. Planned'
    BY <1>2, <2>2
  <2> QED
    BY <1>3, <2>1, <2>3
<1>10. Planned' /\ Logged'
  <2>1. Quiet \/ Loud
    BY <1>0, QuietOrLoud
  <2> QED
    BY <1>4, <1>5, <1>6, <1>7, <1>8, <1>9, <2>1 DEF Loud, Report
<1> QED
  BY <1>10 DEF BackedInv, SuccessIsBacked, Evidence, Planned, Logged

(* An attempt logged as succeeded saved a listing, copied one or matched one *)
(* that is there, whichever calls failed and whoever else was on the row.    *)
THEOREM SuccessBacked == Spec => []SuccessIsBacked
<1>1. Init => BackedInv
  BY DEF Init, BackedInv, SuccessIsBacked
<1>2. QueueInv /\ BackedInv /\ [Next]_vars => BackedInv'
  BY BackedStep
<1>3. BackedInv => SuccessIsBacked
  BY DEF BackedInv
<1> QED
  BY <1>1, <1>2, <1>3, Invariant, PTL DEF Spec

-----------------------------------------------------------------------------
(* The failures of a row are finitely many, and a step never loses one. *)
LEMMA FailuresKept ==
  ASSUME QueueInv, [Next]_vars, NEW r \in Rows
  PROVE  /\ IsFiniteSet(Failures(r)) /\ IsFiniteSet(Failures(r)')
         /\ Cardinality(Failures(r)) \in Nat /\ Cardinality(Failures(r)') \in Nat
         /\ Failures(r) \subseteq Failures(r)'
         /\ Cardinality(Failures(r)) <= Cardinality(Failures(r)')
<1>1. log[r] \in Seq(LogStatus) /\ log'[r] \in Seq(LogStatus)
  <2>1. TypeOK'
    BY TypeStep DEF QueueInv, ClaimInv
  <2> QED
    BY <2>1 DEF QueueInv, TypeOK, DbTypeOK
<1>2. IsFiniteSet(Failures(r)) /\ IsFiniteSet(Failures(r)')
  <2>1. IsFiniteSet(1..Len(log[r])) /\ IsFiniteSet(1..Len(log'[r]))
    BY <1>1, FS_Interval
  <2> QED
    BY <2>1, FS_Subset DEF Failures
<1>3. Failures(r) \subseteq Failures(r)'
  <2> SUFFICES ASSUME NEW i \in 1..Len(log[r]), log[r][i] = "failed"
               PROVE  i \in 1..Len(log'[r]) /\ log'[r][i] = "failed"
    BY DEF Failures
  <2>1. CASE log'[r] = log[r]
    BY <2>1
  <2>2. ASSUME NEW status \in {"running", "dead_lettered"}, log'[r] = Append(log[r], status)
        PROVE  i \in 1..Len(log'[r]) /\ log'[r][i] = "failed"
    BY <1>1, <2>2
  <2>3. ASSUME NEW w \in Workers, NEW status \in LogStatus,
               log[r][att[w][r]] = "running",
               log'[r] = [log[r] EXCEPT ![att[w][r]] = status]
        PROVE  i \in 1..Len(log'[r]) /\ log'[r][i] = "failed"
    BY <1>1, <2>3
  <2> QED
    BY <2>1, <2>2, <2>3, LogStep DEF LogChange
<1> QED
  BY <1>2, <1>3, FS_Subset, FS_CardinalityType

(* A retry is counted for a failure that is logged, or for a failed claim. *)
LEMMA CountStep == ASSUME QueueInv, CountInv, [Next]_vars PROVE CountInv'
<1> DEFINE Counted(v, q) == retry[v][q] <= Cardinality(Failures(q)) + faults
<1>0. /\ TypeOK /\ PlaceInv /\ AttemptInv
      /\ log \in [Rows -> Seq(LogStatus)]
      /\ retry \in [Workers -> [Rows -> 0..MaxRetries]]
      /\ MaxRetries \in Nat /\ faults \in Nat /\ faults' \in Nat /\ faults <= faults'
  BY Monotone, BoundAssumption DEF QueueInv, ClaimInv, TypeOK, DbTypeOK, JobTypeOK,
     HistoryTypeOK
<1>1. \A v \in Workers, q \in Rows : Counted(v, q) /\ retry[v][q] \in Nat
  BY <1>0 DEF CountInv
(* What is enough: the count stays, or starts again from zero. *)
<1>2. ASSUME NEW v \in Workers, NEW q \in Rows, retry'[v][q] \in {0, retry[v][q]}
      PROVE  Counted(v, q)'
  <2> DEFINE before == Cardinality(Failures(q))
             after == Cardinality(Failures(q)')
  <2>1. before \in Nat /\ after \in Nat /\ before <= after
    BY FailuresKept
  <2>2. retry[v][q] <= before + faults /\ retry[v][q] \in Nat
    BY <1>1
  <2> HIDE DEF before, after
  <2>3. retry'[v][q] <= after + faults'
    BY <1>0, <1>2, <2>1, <2>2
  <2> QED
    BY <2>3 DEF after
<1> HIDE DEF Counted
<1>3. ASSUME UNCHANGED retry
      PROVE  \A v \in Workers, q \in Rows : Counted(v, q)'
  BY <1>2, <1>3
<1>4. ASSUME Quiet
      PROVE  UNCHANGED retry
  BY <1>4 DEF Quiet
<1>5. ASSUME NEW w \in Workers, NEW r \in Rows, DeadLetter(w, r) \/ Claim(w, r)
      PROVE  UNCHANGED retry
  BY <1>5 DEF DeadLetter, Claim
<1>6. ASSUME NEW w \in Workers, NEW r \in Rows, ClaimStale(w, r) \/ Finish(w, r)
      PROVE  \A v \in Workers, q \in Rows : Counted(v, q)'
  <2>1. UNCHANGED retry \/ retry' = [retry EXCEPT ![w][r] = 0]
    BY <1>6 DEF ClaimStale, Finish
  <2>2. \A v \in Workers, q \in Rows : retry'[v][q] \in {0, retry[v][q]}
    BY <1>0, <2>1
  <2> QED
    BY <1>2, <2>2
<1>7. ASSUME NEW w \in Workers, NEW r \in Rows, ClaimError(w, r)
      PROVE  \A v \in Workers, q \in Rows : Counted(v, q)'
  <2>1. retry' = [retry EXCEPT ![w][r] = @ + 1] /\ faults' = faults + 1 /\ log' = log
    BY <1>7 DEF ClaimError, Fault, dbVars
  <2>2. Counted(w, r)'
    <3> DEFINE count == Cardinality(Failures(r))
    <3>1. Failures(r)' = Failures(r) /\ count \in Nat
      BY <2>1, FailuresKept DEF Failures
    <3>2. retry[w][r] <= count + faults /\ retry'[w][r] = retry[w][r] + 1
      BY <1>0, <1>1, <2>1 DEF Counted
    <3> HIDE DEF count
    <3>3. retry'[w][r] <= count + faults'
      BY <1>0, <1>1, <2>1, <3>1, <3>2
    <3> QED
      BY <3>1, <3>3 DEF Counted, count
  <2>3. ASSUME NEW v \in Workers, NEW q \in Rows, v # w \/ q # r
        PROVE  Counted(v, q)'
    <3>1. retry'[v][q] = retry[v][q]
      BY <1>0, <2>1, <2>3
    <3> QED
      BY <1>2, <3>1
  <2> QED
    BY <2>2, <2>3
<1>8. ASSUME NEW w \in Workers, NEW r \in Rows, FinishFailed(w, r)
      PROVE  \A v \in Workers, q \in Rows : Counted(v, q)'
  <2>1. CASE UNCHANGED retry
    BY <1>3, <2>1
  <2>2. CASE /\ SetAttempt(r, att[w][r], "failed")
             /\ retry' = [retry EXCEPT ![w][r] = @ + 1]
    <3> DEFINE i == att[w][r]
               before == Cardinality(Failures(r))
               after == Cardinality(Failures(r)')
    <3>1. i \in 1..Len(log[r]) /\ log[r][i] = "running"
      BY <1>0, <1>8 DEF FinishFailed, AttemptInv, InFlight
    <3>2. log'[r] = [log[r] EXCEPT ![i] = "failed"]
      BY <1>0, <2>2 DEF SetAttempt
    <3>3. i \notin Failures(r) /\ Failures(r)' = Failures(r) \cup {i}
      BY <1>0, <3>1, <3>2 DEF Failures
    <3>4. before \in Nat /\ after = before + 1
      BY <3>3, FailuresKept, FS_AddElement
    <3>5. retry[w][r] <= before + faults /\ retry'[w][r] = retry[w][r] + 1
      BY <1>0, <1>1, <2>2 DEF Counted
    <3> HIDE DEF before, after
    <3>6. retry'[w][r] <= after + faults'
      BY <1>0, <1>1, <3>4, <3>5
    <3>7. Counted(w, r)'
      BY <3>6 DEF Counted, after
    <3>8. ASSUME NEW v \in Workers, NEW q \in Rows, v # w \/ q # r
          PROVE  Counted(v, q)'
      <4>1. retry'[v][q] = retry[v][q]
        BY <1>0, <2>2, <3>8
      <4> QED
        BY <1>2, <4>1
    <3> QED
      BY <3>7, <3>8
  <2> QED
    BY <1>8, <2>1, <2>2 DEF FinishFailed
<1>9. ASSUME NEW a \in Actors, NEW r \in Rows, Save(a, r)
      PROVE  UNCHANGED retry
  BY <1>9 DEF Save, SkipExcluded, RecordRepeat, MarkSplitParent, CloneDuplicate,
     ExtractListing, SaveListing, SaveStub
<1>10. ASSUME NEW d \in Triggers, NEW r \in Rows, TriggerStart(d, r) \/ TriggerEnd(d, r)
      PROVE  UNCHANGED retry
  BY <1>10 DEF TriggerStart, TriggerEnd
<1>11. ASSUME NEW w \in Workers, Crash(w)
      PROVE  \A v \in Workers, q \in Rows : Counted(v, q)'
  <2>1. retry' = [retry EXCEPT ![w] = [r \in Rows |-> 0]]
    BY <1>11 DEF Crash
  <2>2. ASSUME NEW v \in Workers, NEW q \in Rows
        PROVE  retry'[v][q] \in {0, retry[v][q]}
    BY <1>0, <2>1
  <2> QED
    BY <1>2, <2>2
<1>12. \A v \in Workers, q \in Rows : Counted(v, q)'
  <2>1. Quiet \/ Loud
    BY <1>0, QuietOrLoud
  <2> QED
    BY <1>3, <1>4, <1>5, <1>6, <1>7, <1>8, <1>9, <1>10, <1>11, <2>1 DEF Loud, Report
<1> QED
  BY <1>12 DEF CountInv, Counted

(* Nothing but dead_letter_extraction resolves a row as a dead letter. *)
LEMMA OnlyDeadLetters ==
  ASSUME TypeOK, PlaceInv, [Next]_vars, NEW r \in Rows,
         "dead_letter" \in resolved'[r], "dead_letter" \notin resolved[r]
  PROVE  \E w \in Workers : DeadLetter(w, r)
<1> DEFINE Else == \/ UNCHANGED resolved
                   \/ \E q \in Rows, how \in Resolutions \ {"dead_letter"} : Resolve(q, how)
<1> USE DEF dbVars, controlVars, cycleVars, jobVars, historyVars
<1>0. resolved \in [Rows -> SUBSET Resolutions]
  BY DEF TypeOK, HistoryTypeOK
<1>1. ASSUME UNCHANGED vars
      PROVE  Else
  BY <1>1 DEF vars
<1>2. ASSUME NEW q \in Rows, Arrive(q) \/ ArriveHistory(q)
      PROVE  Else
  BY <1>2 DEF Arrive, ArriveHistory, Resolutions
<1>3. ASSUME ControlPlane \/ ControlWrites
      PROVE  Else
  BY <1>3 DEF ControlPlane, SelectGroups, OptOut, OptIn, StartExtraction, PauseExtraction,
     ControlWrites, ConfirmSelection, RewriteQueuedRows
<1>4. ASSUME NEW w \in Workers,
             \/ BeginCycle(w) \/ ReenableRead(w) \/ ReenableWrite(w) \/ EndCycle(w)
             \/ Fetch(w) \/ Filter(w) \/ Crash(w)
      PROVE  Else
  BY <1>4 DEF BeginCycle, ReenableRead, ReenableWrite, EndCycle, Fetch, Filter, Crash
<1>5. ASSUME NEW w \in Workers, NEW q \in Rows,
             \/ Suppress(w, q) \/ Claim(w, q) \/ ClaimStale(w, q) \/ ClaimError(w, q)
             \/ Finish(w, q) \/ RaiseUnsaved(w, q) \/ FinishFailed(w, q)
      PROVE  Else
  BY <1>5 DEF Suppress, Claim, ClaimStale, ClaimError, Finish, RaiseUnsaved, FinishFailed
<1>6. ASSUME NEW d \in Triggers, NEW q \in Rows, TriggerStart(d, q) \/ TriggerEnd(d, q)
      PROVE  Else
  BY <1>6 DEF TriggerStart, TriggerEnd
<1>7. ASSUME NEW a \in Actors, NEW q \in Rows,
             \/ ContextError(a, q) \/ SkipExcluded(a, q) \/ RecordRepeat(a, q)
             \/ MarkSplitParent(a, q) \/ ProviderUnavailable(a, q) \/ CloneDuplicate(a, q)
             \/ ExtractListing(a, q) \/ SaveStub(a, q) \/ MarkProcessed(a, q)
      PROVE  Else
  BY <1>7 DEF ContextError, SkipExcluded, RecordRepeat, MarkSplitParent, ProviderUnavailable,
     CloneDuplicate, ExtractListing, SaveStub, MarkProcessed, Resolutions
<1>8. ASSUME NEW a \in Actors, NEW q \in Rows, PassGates(a, q) \/ SaveListing(a, q)
      PROVE  Else
  BY <1>8 DEF PassGates, SaveListing, Resolutions
<1>9. ASSUME NEW a \in Actors, NEW q \in Rows, Materialize(a, q)
      PROVE  Else
  <2>1. \/ resolved' = [resolved EXCEPT ![q] = @ \cup {"children"}]
        \/ resolved' = [resolved EXCEPT ![q] = @]
    BY <1>9 DEF Materialize
  <2> QED
    BY <1>0, <2>1 DEF Resolve, Resolutions
<1>10. Else => FALSE
  BY <1>0 DEF Resolve
<1>11. ASSUME NEW w \in Workers, NEW q \in Rows, DeadLetter(w, q)
       PROVE  q = r
  BY <1>0, <1>11 DEF DeadLetter, Resolve
<1> HIDE DEF Else
<1> QED
  BY <1>1, <1>2, <1>3, <1>4, <1>5, <1>6, <1>7, <1>8, <1>9, <1>10, <1>11
     DEF Next, WorkerStep, RowStep, TriggerStep, Pipeline, Actors

(* Counted failures are shown, so a dead letter has its MaxRetries of them. *)
LEMMA EarnedStep ==
  ASSUME QueueInv, CountInv, DeadLetterIsEarned, [Next]_vars
  PROVE  DeadLetterIsEarned'
<1> DEFINE Earned(r) == Cardinality(Failures(r)) + faults >= MaxRetries
<1>0. /\ TypeOK /\ resolved \in [Rows -> SUBSET Resolutions]
      /\ MaxRetries \in Nat /\ faults \in Nat /\ faults' \in Nat /\ faults <= faults'
      /\ PlaceInv
  BY Monotone, BoundAssumption DEF QueueInv, ClaimInv, TypeOK, HistoryTypeOK
<1>1. ASSUME NEW r \in Rows, Earned(r)
      PROVE  Earned(r)'
  <2> DEFINE before == Cardinality(Failures(r))
             after == Cardinality(Failures(r)')
  <2>1. before \in Nat /\ after \in Nat /\ before <= after
    BY FailuresKept
  <2>2. before + faults >= MaxRetries
    BY <1>1
  <2>3. \A x, y, f, g \in Nat : x <= y /\ f <= g /\ x + f >= MaxRetries => y + g >= MaxRetries
    BY <1>0
  <2> HIDE DEF before, after
  <2>4. after + faults' >= MaxRetries
    BY <1>0, <2>1, <2>2, <2>3
  <2> QED
    BY <2>4 DEF after
<1>2. ASSUME NEW w \in Workers, NEW r \in Rows, DeadLetter(w, r)
      PROVE  Earned(r)
  <2> DEFINE count == Cardinality(Failures(r))
  <2>1. retry[w][r] >= MaxRetries
    BY <1>2 DEF DeadLetter
  <2>2. retry[w][r] \in Nat
    BY <1>0 DEF TypeOK, JobTypeOK
  <2>3. retry[w][r] <= count + faults /\ count \in Nat
    BY FailuresKept DEF CountInv
  <2> HIDE DEF count
  <2>4. count + faults >= MaxRetries
    BY <1>0, <2>1, <2>2, <2>3
  <2> QED
    BY <2>4 DEF count
<1> HIDE DEF Earned
<1>3. ASSUME NEW r \in Rows, "dead_letter" \in resolved'[r], "dead_letter" \notin resolved[r]
      PROVE  \E w \in Workers : DeadLetter(w, r)
  BY <1>0, <1>3, OnlyDeadLetters
<1> QED
  BY <1>1, <1>2, <1>3 DEF DeadLetterIsEarned, Earned

(* A row is dead-lettered only after MaxRetries failures that the attempt log *)
(* or a failed call shows, for any number of workers, restarts and retries.  *)
THEOREM DeadLettersEarned == Spec => []DeadLetterIsEarned
<1>1. Init => CountInv /\ DeadLetterIsEarned
  <2> SUFFICES ASSUME Init PROVE CountInv /\ DeadLetterIsEarned
    OBVIOUS
  <2>1. \A r \in Rows : Cardinality(Failures(r)) = 0
    <3>1. \A r \in Rows : Failures(r) = {}
      BY DEF Init, Failures
    <3> QED
      BY <3>1, FS_EmptySet
  <2>2. CountInv
    BY <2>1 DEF Init, CountInv
  <2>3. DeadLetterIsEarned
    BY DEF Init, DeadLetterIsEarned
  <2> QED
    BY <2>2, <2>3
<1>2. QueueInv /\ CountInv /\ DeadLetterIsEarned /\ [Next]_vars => (CountInv /\ DeadLetterIsEarned)'
  BY CountStep, EarnedStep
<1> QED
  BY <1>1, <1>2, Invariant, PTL DEF Spec

-----------------------------------------------------------------------------
(* No two actors hold a row, from the moment a worker has it in a lane. The *)
(* claim does not exclude a second claimer, so this is an assumption about  *)
(* the deployment: one worker process and no trigger, or workers that poll  *)
(* disjoint rows.                                                           *)
Exclusive ==
  \A r \in Rows : \A a, b \in Actors :
    /\ job[a][r] \in InFlight \cup {"queued"}
    /\ job[b][r] \in InFlight \cup {"queued"}
    => a = b

(* Nobody is left who could write the outcome of a dead-lettered row. *)
DeadInv ==
  \A r \in Rows : outcome[r] = "dead_lettered" =>
    processed[r] /\ \A a \in Actors : job[a][r] \notin InFlight

(* A row is taken in hand only while it is unprocessed. *)
LEMMA TakenUnprocessed ==
  ASSUME TypeOK, PlaceInv, [Next]_vars, NEW a \in Actors, NEW r \in Rows,
         job'[a][r] \in InFlight, job[a][r] \notin InFlight
  PROVE  ~processed[r]
<1>0. job \in [Actors -> [Rows -> Phases]]
  BY DEF TypeOK, JobTypeOK
<1>1. CASE Quiet
  BY <1>1 DEF Quiet, QuietMoves, InFlight
<1>2. ASSUME NEW w \in Workers, NEW q \in Rows, Report(w, q)
      PROVE  ~processed[r]
  <2>1. CASE Claim(w, q)
    <3>1. a = w /\ r = q
      BY <1>0, <2>1 DEF Claim, Move
    <3> QED
      BY <2>1, <3>1 DEF Claim
  <2>2. CASE DeadLetter(w, q) \/ ClaimStale(w, q) \/ ClaimError(w, q)
    BY <1>0, <2>2 DEF DeadLetter, ClaimStale, ClaimError, Move, InFlight
  <2>3. CASE Finish(w, q) \/ FinishFailed(w, q)
    BY <1>0, <2>3 DEF Finish, FinishFailed, Release, Move, InFlight
  <2> QED
    BY <1>2, <2>1, <2>2, <2>3 DEF Report
<1>3. ASSUME NEW b \in Actors, NEW q \in Rows, Save(b, q)
      PROVE  FALSE
  <2>1. job[b][q] \in InFlight /\ \E phase \in Phases : Move(b, q, phase)
    BY <1>3 DEF Save, SkipExcluded, RecordRepeat, MarkSplitParent, CloneDuplicate,
       ExtractListing, SaveListing, SaveStub, Return, InFlight, Phases
  <2> QED
    BY <1>0, <2>1 DEF Move
<1>4. ASSUME NEW d \in Triggers, NEW q \in Rows, TriggerStart(d, q) \/ TriggerEnd(d, q)
      PROVE  ~processed[r]
  <2>1. CASE TriggerStart(d, q)
    BY <1>0, <2>1 DEF TriggerStart, Move
  <2>2. CASE TriggerEnd(d, q)
    BY <1>0, <2>2 DEF TriggerEnd, Release, Move, InFlight
  <2> QED
    BY <1>4, <2>1, <2>2
<1>5. ASSUME NEW w \in Workers, Crash(w)
      PROVE  FALSE
  BY <1>0, <1>5 DEF Crash, InFlight
<1> QED
  BY <1>1, <1>2, <1>3, <1>4, <1>5, QuietOrLoud DEF Loud

(* An outcome is written by whoever has the row in flight, or by a claim or *)
(* a dead letter of an unprocessed row.                                     *)
LEMMA OutcomeWritten ==
  ASSUME TypeOK, PlaceInv, [Next]_vars, NEW r \in Rows, outcome'[r] # outcome[r]
  PROVE  \/ \E a \in Actors : job[a][r] \in InFlight /\ outcome'[r] # "dead_lettered"
         \/ ~processed[r] /\ outcome'[r] # "dead_lettered"
         \/ ~processed[r] /\ processed'[r] /\ \E w \in Workers : DeadLetter(w, r)
<1>0. /\ outcome \in [Rows -> Outcomes] /\ processed \in [Rows -> BOOLEAN]
      /\ Workers \subseteq Actors
  BY DEF TypeOK, DbTypeOK, Actors
<1>1. CASE Quiet
  BY <1>1 DEF Quiet
<1>2. ASSUME NEW w \in Workers, NEW q \in Rows, DeadLetter(w, q)
      PROVE  q = r /\ ~processed[r] /\ processed'[r]
  BY <1>0, <1>2 DEF DeadLetter
<1>3. ASSUME NEW w \in Workers, NEW q \in Rows, Claim(w, q)
      PROVE  q = r /\ ~processed[r] /\ outcome'[r] # "dead_lettered"
  BY <1>0, <1>3 DEF Claim
<1>4. ASSUME NEW w \in Workers, NEW q \in Rows, Finish(w, q) \/ FinishFailed(w, q)
      PROVE  q = r /\ job[w][r] \in InFlight /\ outcome'[r] # "dead_lettered"
  <2>1. \/ outcome' = outcome
        \/ \E o \in {"succeeded", "skipped", "failed"} : outcome' = [outcome EXCEPT ![q] = o]
    BY <1>4 DEF Finish, FinishFailed, FinishStatus
  <2>2. q = r /\ outcome'[r] # "dead_lettered"
    BY <1>0, <2>1
  <2> QED
    BY <1>4, <2>2 DEF Finish, FinishFailed, InFlight
<1>5. ASSUME NEW a \in Actors, NEW q \in Rows, Save(a, q)
      PROVE  q = r /\ job[a][r] \in InFlight /\ outcome'[r] # "dead_lettered"
  <2>1. job[a][q] \in InFlight
    BY <1>5 DEF Save, SkipExcluded, RecordRepeat, MarkSplitParent, CloneDuplicate,
       ExtractListing, SaveListing, SaveStub, InFlight
  <2>2. outcome' = outcome \/ outcome' = [outcome EXCEPT ![q] = "repeat_observation"]
    BY <1>5 DEF Save, SkipExcluded, RecordRepeat, MarkSplitParent, CloneDuplicate,
       ExtractListing, SaveListing, SaveStub
  <2> QED
    BY <1>0, <2>1, <2>2
<1>6. ASSUME NEW w \in Workers, NEW q \in Rows,
             ClaimStale(w, q) \/ ClaimError(w, q) \/ Crash(w)
      PROVE  FALSE
  BY <1>6 DEF ClaimStale, ClaimError, Crash, dbVars
<1>7. ASSUME NEW d \in Triggers, NEW q \in Rows, TriggerStart(d, q) \/ TriggerEnd(d, q)
      PROVE  FALSE
  BY <1>7 DEF TriggerStart, TriggerEnd, dbVars
<1> QED
  BY <1>0, <1>1, <1>2, <1>3, <1>4, <1>5, <1>6, <1>7, QuietOrLoud DEF Loud, Report

(* With exclusive rows a dead letter finds nobody at work on its row, and   *)
(* nobody takes a processed row in hand.                                    *)
LEMMA DeadStep ==
  ASSUME QueueInv, DeadInv, Exclusive, [Next]_vars
  PROVE  /\ DeadInv'
         /\ \A r \in Rows : outcome[r] = "dead_lettered" => outcome'[r] = "dead_lettered"
<1>0. TypeOK /\ PlaceInv /\ processed \in [Rows -> BOOLEAN]
  BY DEF QueueInv, ClaimInv, TypeOK, DbTypeOK
<1>1. ASSUME NEW r \in Rows, outcome[r] = "dead_lettered"
      PROVE  outcome'[r] = "dead_lettered"
  BY <1>0, <1>1, OutcomeWritten DEF DeadInv
<1>2. ASSUME NEW r \in Rows, outcome'[r] = "dead_lettered"
      PROVE  processed'[r] /\ \A a \in Actors : job'[a][r] \notin InFlight
  <2>1. CASE outcome[r] = "dead_lettered"
    <3>1. processed[r] /\ \A a \in Actors : job[a][r] \notin InFlight
      BY <2>1 DEF DeadInv
    <3> QED
      BY <1>0, <3>1, Monotone, TakenUnprocessed
  <2>2. CASE outcome[r] # "dead_lettered"
    <3>1. PICK w \in Workers : DeadLetter(w, r) /\ processed'[r]
      BY <1>0, <1>2, <2>2, OutcomeWritten
    <3>2. job[w][r] = "queued" /\ w \in Actors /\ job' = [job EXCEPT ![w][r] = "none"]
      BY <3>1 DEF DeadLetter, Move, Actors
    <3>3. \A a \in Actors : job[a][r] \notin InFlight
      BY <3>2 DEF Exclusive, InFlight
    <3>4. \A a \in Actors : job'[a][r] \in {job[a][r], "none"}
      BY <1>0, <3>2 DEF TypeOK, JobTypeOK
    <3> QED
      BY <3>1, <3>3, <3>4 DEF InFlight
  <2> QED
    BY <2>1, <2>2
<1> QED
  BY <1>1, <1>2 DEF DeadInv

(* As long as rows are held exclusively, dead-lettering is the last word on *)
(* a row: no late attempt, of a worker or of a trigger, rewrites it.        *)
THEOREM DeadLettersFinal == Spec /\ []Exclusive => DeadLetterIsFinal
<1> DEFINE Final == \A r \in Rows : outcome[r] = "dead_lettered" => outcome'[r] = "dead_lettered"
<1>1. Init => DeadInv
  BY DEF Init, DeadInv
<1>2. QueueInv /\ DeadInv /\ Exclusive /\ [Next]_vars => DeadInv' /\ [Final]_vars
  BY DeadStep
<1> QED
  BY <1>1, <1>2, Invariant, PTL DEF Spec, DeadLetterIsFinal

(* Without exclusive rows a dead letter can be rewritten, but only by work   *)
(* that was under way on the row when it was dead-lettered: the fence of    *)
(* begin_extraction_attempt and dead_letter_extraction lets no other in.    *)
THEOREM DeadLettersFenced == Spec => DeadLetterFence
<1> DEFINE Consumed == \A r \in Rows : outcome[r] = "dead_lettered" => processed[r]
           Fenced(r) ==
             /\ \A a \in Actors : job'[a][r] \in InFlight => job[a][r] \in InFlight
             /\ outcome'[r] # "dead_lettered" => \E a \in Actors : job[a][r] \in InFlight
           Fence == \A r \in Rows : outcome[r] = "dead_lettered" => Fenced(r)
<1>1. Init => Consumed
  BY DEF Init
<1>2. QueueInv /\ Consumed /\ [Next]_vars => Consumed' /\ [Fence]_vars
  <2> SUFFICES ASSUME QueueInv, Consumed, [Next]_vars
               PROVE  Consumed' /\ Fence
    OBVIOUS
  <2>0. TypeOK /\ PlaceInv
    BY DEF QueueInv, ClaimInv
  <2>1. ASSUME NEW r \in Rows, outcome'[r] = "dead_lettered"
        PROVE  processed'[r]
    <3>1. processed[r] => processed'[r]
      BY <2>0, Monotone
    <3>2. outcome'[r] # outcome[r] => processed'[r]
      BY <2>0, <2>1, OutcomeWritten
    <3> QED
      BY <2>1, <3>1, <3>2
  <2>2. ASSUME NEW r \in Rows, outcome[r] = "dead_lettered"
        PROVE  Fenced(r)
    <3>1. processed[r]
      BY <2>2
    <3>2. \A a \in Actors : job'[a][r] \in InFlight => job[a][r] \in InFlight
      BY <2>0, <3>1, TakenUnprocessed
    <3>3. outcome'[r] # "dead_lettered" => \E a \in Actors : job[a][r] \in InFlight
      BY <2>0, <2>2, <3>1, OutcomeWritten
    <3> QED
      BY <3>2, <3>3
  <2> QED
    BY <2>1, <2>2
<1> QED
  BY <1>1, <1>2, Invariant, PTL DEF Spec, DeadLetterFence

-----------------------------------------------------------------------------
(* A row that was reported as stored, or is about to be, has something to   *)
(* show: a typed row, or the copy it points at. While a worker has the row  *)
(* in flight its last outcome is no success, so the typed rows may go.      *)
Shown(r) == HasTyped(r) \/ repeatOf[r] # {}

ShownRow(r) ==
  /\ \A w \in Workers :
       /\ job[w][r] \in InFlight => outcome[r] # "succeeded"
       /\ job[w][r] = "routed" => plan[w][r] \in Tables
       /\ plan[w][r] = "stored" => job[w][r] \in {"saved", "returned", "raised"} /\ Shown(r)
  /\ outcome[r] = "succeeded" => Shown(r)

ShownInv == \A r \in Rows : ShownRow(r)

(* A row whose columns and whose work stay as they are. *)
LEMMA ShownFrame ==
  ASSUME NEW r \in Rows, ShownRow(r),
         outcome'[r] = outcome[r], typed'[r] = typed[r], repeatOf'[r] = repeatOf[r],
         \A w \in Workers : job'[w][r] = job[w][r] /\ plan'[w][r] = plan[w][r]
  PROVE  ShownRow(r)'
BY DEF ShownRow, Shown, HasTyped

(* What saving a row of its own does to what the row shows. *)
LEMMA ShownSave ==
  ASSUME TypeOK, ShownInv, Exclusive, Triggers = {},
         NEW w \in Workers, NEW r \in Rows, Save(w, r)
  PROVE  ShownRow(r)'
<1>0. /\ job \in [Actors -> [Rows -> Phases]] /\ plan \in [Actors -> [Rows -> Plans]]
      /\ typed \in [Rows -> [Tables -> {"none", "listing", "stub"}]]
      /\ repeatOf \in [Rows -> SUBSET Rows] /\ outcome \in [Rows -> Outcomes]
      /\ Workers \subseteq Actors
  BY DEF TypeOK, DbTypeOK, JobTypeOK, Actors
<1>1. job[w][r] \in {"claimed", "gated", "routed", "split"}
  BY DEF Save, SkipExcluded, RecordRepeat, MarkSplitParent, CloneDuplicate,
     ExtractListing, SaveListing, SaveStub
(* Nobody else has the row, so nobody else is about to report it. *)
<1>2. ASSUME NEW v \in Workers, v # w
      PROVE  /\ job[v][r] \notin InFlight /\ plan[v][r] # "stored"
             /\ job'[v][r] = job[v][r] /\ plan'[v][r] = plan[v][r]
  <2>1. job[v][r] \notin InFlight
    BY <1>0, <1>1, <1>2 DEF Exclusive, InFlight
  <2>2. plan[v][r] # "stored"
    BY <2>1 DEF ShownInv, ShownRow, InFlight
  <2>3. \E phase : Move(w, r, phase)
    BY DEF Save, SkipExcluded, RecordRepeat, MarkSplitParent, CloneDuplicate,
       ExtractListing, SaveListing, SaveStub, Return
  <2>4. UNCHANGED plan \/ \E p : plan' = [plan EXCEPT ![w][r] = p]
    BY DEF Save, SkipExcluded, RecordRepeat, MarkSplitParent, CloneDuplicate,
       ExtractListing, SaveListing, SaveStub, Return
  <2> QED
    BY <1>0, <1>2, <2>1, <2>2, <2>3, <2>4 DEF Move
<1>3. outcome[r] # "succeeded" /\ plan[w][r] # "stored"
  BY <1>1 DEF ShownInv, ShownRow, InFlight
<1>4. outcome'[r] # "succeeded"
  <2>1. outcome' = outcome \/ outcome' = [outcome EXCEPT ![r] = "repeat_observation"]
    BY DEF Save, SkipExcluded, RecordRepeat, MarkSplitParent, CloneDuplicate,
       ExtractListing, SaveListing, SaveStub
  <2> QED
    BY <1>0, <1>3, <2>1
(* What is left to show of the saving worker itself. *)
<1>5. /\ job'[w][r] = "routed" => plan'[w][r] \in Tables
      /\ plan'[w][r] = "stored" => job'[w][r] \in {"saved", "returned", "raised"} /\ Shown(r)'
  <2>1. CASE SkipExcluded(w, r) \/ SaveStub(w, r) \/ MarkSplitParent(w, r)
    <3>1. /\ \E phase \in {"returned", "saved", "raised"} : Move(w, r, phase)
          /\ \/ UNCHANGED plan
             \/ \E p \in {"skipped", "split_queued"} : plan' = [plan EXCEPT ![w][r] = p]
      BY <2>1 DEF SkipExcluded, SaveStub, MarkSplitParent, Return
    <3> QED
      BY <1>0, <1>3, <3>1 DEF Move
  <2>2. CASE RecordRepeat(w, r)
    <3>1. /\ Move(w, r, "returned") /\ plan' = [plan EXCEPT ![w][r] = "stored"]
          /\ \E q : repeatOf' = [repeatOf EXCEPT ![r] = {q}]
      BY <2>2 DEF RecordRepeat, Return
    <3> QED
      BY <1>0, <3>1 DEF Move, Shown
  <2>3. CASE CloneDuplicate(w, r)
    <3>1. PICK q \in Rows, t \in Tables :
            /\ typed[q][t] # "none"
            /\ typed' = [typed EXCEPT ![r] =
                 [u \in Tables |-> IF u = t THEN typed[q][t] ELSE "none"]]
      BY <2>3 DEF CloneDuplicate
    <3>2. typed'[r][t] # "none"
      BY <1>0, <3>1
    <3>3. Move(w, r, "saved")
      BY <2>3 DEF CloneDuplicate
    <3> QED
      BY <1>0, <3>2, <3>3 DEF Move, Shown, HasTyped
  <2>4. CASE ExtractListing(w, r)
    <3>1. PICK t \in Tables : plan' = [plan EXCEPT ![w][r] = t]
      BY <2>4 DEF ExtractListing
    <3>2. t # "stored"
      BY TableAssumption DEF StorageStatus
    <3> QED
      BY <1>0, <3>1, <3>2
  <2>5. CASE SaveListing(w, r)
    <3>1. job[w][r] = "routed" /\ plan[w][r] \in Tables
      BY <2>5 DEF SaveListing, ShownInv, ShownRow
    <3>2. \/ /\ typed' = [typed EXCEPT ![r][plan[w][r]] = "listing"]
             /\ Move(w, r, "saved") /\ plan' = [plan EXCEPT ![w][r] = "stored"]
          \/ Move(w, r, "returned") /\ plan' = [plan EXCEPT ![w][r] = "failed"]
      BY <2>5 DEF SaveListing, Return
    <3>3. typed' = [typed EXCEPT ![r][plan[w][r]] = "listing"] => Shown(r)'
      <4> SUFFICES ASSUME typed' = [typed EXCEPT ![r][plan[w][r]] = "listing"]
                   PROVE  Shown(r)'
        OBVIOUS
      <4>1. typed'[r][plan[w][r]] = "listing"
        BY <1>0, <3>1
      <4> QED
        BY <3>1, <4>1 DEF Shown, HasTyped
    <3> QED
      BY <1>0, <3>2, <3>3 DEF Move
  <2> QED
    BY <2>1, <2>2, <2>3, <2>4, <2>5 DEF Save
<1> QED
  <2>1. ASSUME NEW v \in Workers
        PROVE  /\ job'[v][r] \in InFlight => outcome'[r] # "succeeded"
               /\ job'[v][r] = "routed" => plan'[v][r] \in Tables
               /\ plan'[v][r] = "stored" =>
                    job'[v][r] \in {"saved", "returned", "raised"} /\ Shown(r)'
    <3>1. CASE v = w
      BY <1>4, <1>5, <3>1
    <3>2. CASE v # w
      BY <1>2, <1>4, <3>2 DEF InFlight
    <3> QED
      BY <3>1, <3>2
  <2> QED
    BY <1>4, <2>1 DEF ShownRow

LEMMA ShownStep ==
  ASSUME QueueInv, ShownInv, Exclusive, Triggers = {}, [Next]_vars
  PROVE  ShownInv'
<1>0. /\ TypeOK /\ PlaceInv /\ Workers \subseteq Actors
      /\ job \in [Actors -> [Rows -> Phases]] /\ plan \in [Actors -> [Rows -> Plans]]
      /\ typed \in [Rows -> [Tables -> {"none", "listing", "stub"}]]
      /\ repeatOf \in [Rows -> SUBSET Rows] /\ outcome \in [Rows -> Outcomes]
  BY DEF QueueInv, ClaimInv, TypeOK, DbTypeOK, JobTypeOK, Actors
<1> SUFFICES ASSUME NEW q \in Rows PROVE ShownRow(q)'
  BY DEF ShownInv
<1>1. ShownRow(q)
  BY DEF ShownInv
<1>2. CASE Quiet
  <2>1. outcome'[q] = outcome[q] /\ (Shown(q) <=> Shown(q)')
    BY <1>2 DEF Quiet, Shown, HasTyped
  <2>2. ASSUME NEW w \in Workers
        PROVE  /\ plan'[w][q] = plan[w][q]
               /\ job'[w][q] \in InFlight => job[w][q] \in InFlight
               /\ job'[w][q] = "routed" => job[w][q] = "routed"
               /\ job[w][q] \in {"saved", "returned", "raised"} =>
                    job'[w][q] \in {"saved", "returned", "raised"}
    BY <1>0, <1>2 DEF Quiet, QuietMoves, InFlight
  <2> QED
    BY <1>1, <2>1, <2>2 DEF ShownRow
<1>3. ASSUME NEW w \in Workers, NEW r \in Rows, Report(w, r)
      PROVE  ShownRow(q)'
  <2>1. UNCHANGED <<typed, repeatOf>>
    BY <1>3 DEF Report, DeadLetter, Claim, ClaimStale, ClaimError, Finish, FinishFailed, dbVars
  <2>2. Shown(q) <=> Shown(q)'
    BY <2>1 DEF Shown, HasTyped
  <2>3. /\ UNCHANGED outcome \/ \E o : outcome' = [outcome EXCEPT ![r] = o]
        /\ \E phase : Move(w, r, phase)
        /\ UNCHANGED plan \/ \E p : plan' = [plan EXCEPT ![w][r] = p]
    BY <1>3 DEF Report, DeadLetter, Claim, ClaimStale, ClaimError, Finish, FinishFailed,
       Release, dbVars
  <2>4. CASE q # r
    <3>1. outcome'[q] = outcome[q] /\ typed'[q] = typed[q] /\ repeatOf'[q] = repeatOf[q]
      BY <1>0, <2>1, <2>3, <2>4
    <3>2. \A v \in Workers : job'[v][q] = job[v][q] /\ plan'[v][q] = plan[v][q]
      BY <1>0, <2>3, <2>4 DEF Move
    <3> QED
      BY <1>1, <3>1, <3>2, ShownFrame
  <2>5. ASSUME q = r, NEW v \in Workers, v # w
        PROVE  job'[v][q] = job[v][q] /\ plan'[v][q] = plan[v][q]
    BY <1>0, <2>3, <2>5 DEF Move
  <2>6. CASE q = r /\ (DeadLetter(w, r) \/ Claim(w, r) \/ ClaimStale(w, r) \/ ClaimError(w, r))
    <3>1. job[w][q] = "queued" /\ plan' = plan
      BY <2>6 DEF DeadLetter, Claim, ClaimStale, ClaimError
    <3>2. \/ job'[w][q] = "none"
             /\ (outcome' = outcome \/ outcome' = [outcome EXCEPT ![r] = "dead_lettered"])
          \/ job'[w][q] = "claimed" /\ outcome' = [outcome EXCEPT ![r] = "running"]
      BY <1>0, <2>6 DEF DeadLetter, Claim, ClaimStale, ClaimError, Move, dbVars
    <3>3. /\ outcome'[q] = "succeeded" => outcome[q] = "succeeded"
          /\ outcome'[q] = outcome[q] \/ outcome'[q] # "succeeded"
          /\ job'[w][q] = "claimed" => outcome'[q] = "running"
      BY <1>0, <2>6, <3>2
    <3>4. plan[w][q] # "stored"
      BY <1>1, <3>1 DEF ShownRow
    <3> QED
      BY <1>1, <2>2, <2>5, <2>6, <3>1, <3>2, <3>3, <3>4 DEF ShownRow, InFlight
  <2>7. CASE q = r /\ (Finish(w, r) \/ FinishFailed(w, r))
    <3>1. job[w][q] \in InFlight
      BY <2>7 DEF Finish, FinishFailed, InFlight
    <3>2. ASSUME NEW v \in Workers, v # w
          PROVE  job[v][q] \notin InFlight
      BY <1>0, <3>1, <3>2 DEF Exclusive
    <3>3. \/ /\ outcome' = [outcome EXCEPT ![r] = FinishStatus(plan[w][r])]
             /\ job'[w][q] = "none" /\ plan'[w][q] = "none"
          \/ UNCHANGED <<outcome, plan>> /\ job[w][q] = "returned" /\ job'[w][q] = "raised"
          \/ /\ outcome' = outcome \/ outcome' = [outcome EXCEPT ![r] = "failed"]
             /\ job'[w][q] = "none" /\ plan'[w][q] = "none"
      BY <1>0, <2>7 DEF Finish, FinishFailed, Release, Move
    <3>4. outcome'[q] = "succeeded" => plan[w][q] = "stored" /\ job'[w][q] = "none"
      <4>1. outcome[q] # "succeeded"
        BY <1>1, <3>1 DEF ShownRow
      <4> QED
        BY <1>0, <2>7, <3>3, <4>1 DEF FinishStatus
    <3>5. plan[w][q] = "stored" => Shown(q)
      BY <1>1 DEF ShownRow
    <3>6. ASSUME NEW v \in Workers
          PROVE  /\ job'[v][q] \in InFlight => outcome'[q] # "succeeded"
                 /\ job'[v][q] = "routed" => plan'[v][q] \in Tables
                 /\ plan'[v][q] = "stored" =>
                      job'[v][q] \in {"saved", "returned", "raised"} /\ Shown(q)'
      <4>1. CASE v = w
        BY <2>2, <3>3, <3>4, <3>5, <4>1 DEF InFlight
      <4>2. CASE v # w
        BY <1>1, <2>2, <2>5, <2>7, <3>2, <4>2 DEF ShownRow, InFlight
      <4> QED
        BY <4>1, <4>2
    <3> QED
      BY <2>2, <3>4, <3>5, <3>6 DEF ShownRow
  <2> QED
    BY <1>3, <2>4, <2>6, <2>7 DEF Report
<1>4. ASSUME NEW w \in Workers, NEW r \in Rows, Save(w, r)
      PROVE  ShownRow(q)'
  <2>1. CASE q = r
    BY <1>0, <1>4, <2>1, ShownSave
  <2>2. CASE q # r
    <3>1. /\ UNCHANGED outcome \/ \E o : outcome' = [outcome EXCEPT ![r] = o]
          /\ UNCHANGED repeatOf \/ \E o : repeatOf' = [repeatOf EXCEPT ![r] = o]
          /\ \E phase : Move(w, r, phase)
          /\ UNCHANGED plan \/ \E p : plan' = [plan EXCEPT ![w][r] = p]
      BY <1>4 DEF Save, SkipExcluded, RecordRepeat, MarkSplitParent, CloneDuplicate,
         ExtractListing, SaveListing, SaveStub, Return
    <3>2. typed'[q] = typed[q]
      BY <1>0, <1>4, <2>2 DEF Save, SkipExcluded, RecordRepeat, MarkSplitParent,
         CloneDuplicate, ExtractListing, CleanOtherRoutes, SaveListing, SaveStub
    <3>3. outcome'[q] = outcome[q] /\ repeatOf'[q] = repeatOf[q]
      BY <1>0, <2>2, <3>1
    <3>4. \A v \in Workers : job'[v][q] = job[v][q] /\ plan'[v][q] = plan[v][q]
      BY <1>0, <2>2, <3>1 DEF Move
    <3> QED
      BY <1>1, <3>2, <3>3, <3>4, ShownFrame
  <2> QED
    BY <2>1, <2>2
<1>5. ASSUME NEW w \in Workers, Crash(w)
      PROVE  ShownRow(q)'
  <2>1. /\ outcome'[q] = outcome[q] /\ (Shown(q) <=> Shown(q)')
        /\ job' = [job EXCEPT ![w] = [r \in Rows |-> "none"]]
        /\ plan' = [plan EXCEPT ![w] = [r \in Rows |-> "none"]]
    BY <1>5 DEF Crash, dbVars, Shown, HasTyped
  <2>2. ASSUME NEW v \in Workers
        PROVE  \/ job'[v][q] = job[v][q] /\ plan'[v][q] = plan[v][q]
               \/ job'[v][q] = "none" /\ plan'[v][q] = "none"
    BY <1>0, <2>1
  <2> QED
    BY <1>1, <2>1, <2>2 DEF ShownRow, InFlight
<1> QED
  <2>1. Quiet \/ Loud
    BY <1>0, QuietOrLoud
  <2>2. Actors = Workers
    BY DEF Actors
  <2> QED
    BY <1>2, <1>3, <1>4, <1>5, <2>1, <2>2 DEF Loud

(* Without triggers, and as long as rows are held exclusively, a row whose    *)
(* latest outcome is succeeded shows a typed row or the copy that has one:    *)
(* deletes in other tables, lost saves, lost marks, retries and restarts of  *)
(* workers never leave a success without a projection.                       *)
THEOREM SuccessVisible ==
  ASSUME Triggers = {}
  PROVE  Spec /\ []Exclusive => []SucceededIsVisible
<1>1. Init => ShownInv
  BY DEF Init, ShownInv, ShownRow, InFlight, Actors
<1>2. QueueInv /\ ShownInv /\ Exclusive /\ [Next]_vars => ShownInv'
  BY ShownStep
<1>3. ShownInv => SucceededIsVisible
  BY DEF ShownInv, ShownRow, Shown, SucceededIsVisible
<1> QED
  BY <1>1, <1>2, <1>3, Invariant, PTL DEF Spec

(* The deployment that the worker's docstring asks for, one worker process  *)
(* that owns the queue, has both guarantees without any further assumption. *)
THEOREM LoneWorkerOutcomes ==
  ASSUME NEW w, Workers = {w}, Triggers = {}
  PROVE  Spec => []SucceededIsVisible /\ DeadLetterIsFinal
<1>1. Exclusive
  BY DEF Exclusive, Actors
<1>2. []Exclusive
  BY <1>1, PTL
<1> QED
  BY <1>2, SuccessVisible, DeadLettersFinal, PTL

-----------------------------------------------------------------------------
(* ORDER BY id LIMIT k returns at most k rows: their ranks are distinct and *)
(* below k.                                                                 *)
LEMMA FirstKBound ==
  ASSUME NEW S \in SUBSET Nat, NEW k \in Nat
  PROVE  IsFiniteSet(FirstK(S, k)) /\ Cardinality(FirstK(S, k)) <= k
<1> DEFINE Below(r) == {q \in S : q < r}
           rank == [r \in FirstK(S, k) |-> Cardinality(Below(r))]
<1>0. \A r \in S : r \in Nat
  OBVIOUS
<1>1. ASSUME NEW r \in S PROVE IsFiniteSet(Below(r)) /\ Cardinality(Below(r)) \in Nat
  <2>1. Below(r) \in SUBSET Nat /\ r \in Nat
    BY <1>0
  <2>2. \A q \in Below(r) : q <= r
    BY <1>0, <2>1
  <2>3. IsFiniteSet(Below(r))
    BY <2>1, <2>2, FS_BoundedSetOfNaturals
  <2> QED
    BY <2>3, FS_CardinalityType
<1>2. FirstK(S, k) \subseteq S
  BY DEF FirstK
<1>3. rank \in [FirstK(S, k) -> 0..(k - 1)]
  <2>1. ASSUME NEW r \in FirstK(S, k) PROVE Cardinality(Below(r)) \in 0..(k - 1)
    <3>1. r \in S /\ Cardinality(Below(r)) < k
      BY DEF FirstK
    <3>2. Cardinality(Below(r)) \in Nat
      BY <1>1, <3>1
    <3> HIDE DEF Below
    <3> QED
      BY <3>1, <3>2
  <2> HIDE DEF Below
  <2> QED
    BY <2>1
<1>4. ASSUME NEW q \in FirstK(S, k), NEW r \in FirstK(S, k), q < r
      PROVE  rank[q] # rank[r]
  <2>1. q \in S /\ r \in S /\ q \in Nat /\ r \in Nat
    BY <1>0, <1>2
  <2>2. Below(q) \in SUBSET Below(r) /\ q \in Below(r) /\ q \notin Below(q)
    <3>1. \A x \in S : x < q => x < r
      BY <1>0, <1>4, <2>1
    <3>2. q \in Below(r)
      BY <1>4, <2>1
    <3>3. q \notin Below(q)
      BY <2>1
    <3> QED
      BY <3>1, <3>2, <3>3
  <2>3. Cardinality(Below(q)) # Cardinality(Below(r))
    BY <1>1, <2>1, <2>2, FS_Subset
  <2> QED
    BY <2>3
<1>5. rank \in Injection(FirstK(S, k), 0..(k - 1))
  <2>1. \A q, r \in FirstK(S, k) : q # r => q < r \/ r < q
    <3>1. \A q, r \in Nat : q # r => q < r \/ r < q
      OBVIOUS
    <3>2. \A r \in FirstK(S, k) : r \in Nat
      BY <1>0, <1>2
    <3> QED
      BY <3>1, <3>2
  <2>2. \A q, r \in FirstK(S, k) : rank[q] = rank[r] => q = r
    BY <1>4, <2>1
  <2> QED
    BY <1>3, <2>2 DEF Injection, IsInjective
<1>6. IsFiniteSet(0..(k - 1)) /\ Cardinality(0..(k - 1)) = k
  BY FS_Interval
<1> QED
  BY <1>5, <1>6, FS_Injection

(* What a worker has in hand of a lane is a part of what it fetched last.    *)
Batch(w, l) == {r \in Rows : LaneOf[r] = l /\ job[w][r] # "none"}

BatchInv ==
  \A w \in Workers, l \in Lanes :
    IsFiniteSet(Batch(w, l)) /\ Cardinality(Batch(w, l)) <= BatchSize

LEMMA OnlyFetchTakes ==
  ASSUME QueueInv, [Next]_vars, NEW w \in Workers
  PROVE  Fetch(w) \/ \A r \in Rows : job[w][r] = "none" => job'[w][r] = "none"
<1> DEFINE Keeps == \A r \in Rows : job[w][r] = "none" => job'[w][r] = "none"
<1>0. /\ job \in [Actors -> [Rows -> Phases]] /\ w \in Actors
      /\ \A d \in Triggers : d # w
  BY ProcessAssumption DEF QueueInv, TypeOK, JobTypeOK, Actors
<1>1. ASSUME UNCHANGED job PROVE Keeps
  BY <1>1
<1>2. ASSUME NEW v \in Workers, Fetch(v), v # w
      PROVE  Keeps
  BY <1>0, <1>2 DEF Fetch
<1>3. ASSUME NEW v \in Workers, Filter(v)
      PROVE  Keeps
  BY <1>0, <1>3 DEF Filter
<1>4. ASSUME NEW v \in Workers, Crash(v)
      PROVE  Keeps
  BY <1>0, <1>4 DEF Crash, Actors
<1>5. ASSUME NEW a \in Actors, NEW r \in Rows, NEW phase, Move(a, r, phase),
             a # w \/ job[a][r] # "none"
      PROVE  Keeps
  BY <1>0, <1>5 DEF Move
<1> HIDE DEF Keeps
<1>6. ASSUME NEW v \in Workers, NEW r \in Rows,
             \/ Suppress(v, r) \/ DeadLetter(v, r)
             \/ Claim(v, r) \/ ClaimStale(v, r) \/ ClaimError(v, r)
      PROVE  Keeps
  <2>1. v \in Actors /\ job[v][r] # "none" /\ \E phase : Move(v, r, phase)
    BY <1>6 DEF Suppress, DeadLetter, Claim, ClaimStale, ClaimError, Actors
  <2> QED
    BY <1>5, <2>1
<1>7. ASSUME NEW v \in Workers, NEW r \in Rows,
             Finish(v, r) \/ RaiseUnsaved(v, r) \/ FinishFailed(v, r)
      PROVE  Keeps
  <2>1. v \in Actors /\ job[v][r] # "none" /\ \E phase : Move(v, r, phase)
    BY <1>7 DEF Finish, RaiseUnsaved, FinishFailed, Release, Actors
  <2> QED
    BY <1>5, <2>1
<1>8. ASSUME NEW a \in Actors, NEW r \in Rows, Pipeline(a, r)
      PROVE  Keeps
  <2>1. job[a][r] # "none"
    BY <1>8 DEF Pipeline, ContextError, SkipExcluded, RecordRepeat, PassGates, Materialize,
       MarkSplitParent, ProviderUnavailable, CloneDuplicate, ExtractListing, SaveListing,
       SaveStub, MarkProcessed
  <2>2. CASE ContextError(a, r) \/ SkipExcluded(a, r) \/ RecordRepeat(a, r) \/ PassGates(a, r)
    BY <1>5, <2>1, <2>2 DEF ContextError, SkipExcluded, RecordRepeat, PassGates, Return
  <2>3. CASE Materialize(a, r)
    <3>1. PICK phase \in {"split", "raised"} : Move(a, r, phase)
      BY <2>3 DEF Materialize
    <3> QED
      BY <1>5, <2>1, <3>1
  <2>4. CASE MarkSplitParent(a, r) \/ ProviderUnavailable(a, r) \/ CloneDuplicate(a, r)
    BY <1>5, <2>1, <2>4 DEF MarkSplitParent, ProviderUnavailable, CloneDuplicate, Return
  <2>5. CASE \/ ExtractListing(a, r) \/ SaveListing(a, r)
             \/ SaveStub(a, r) \/ MarkProcessed(a, r)
    BY <1>5, <2>1, <2>5 DEF ExtractListing, SaveListing, SaveStub, MarkProcessed, Return
  <2> QED
    BY <1>8, <2>2, <2>3, <2>4, <2>5 DEF Pipeline
<1>9. ASSUME NEW d \in Triggers, NEW r \in Rows, TriggerStart(d, r) \/ TriggerEnd(d, r)
      PROVE  Keeps
  <2>1. d \in Actors /\ d # w /\ \E phase : Move(d, r, phase)
    BY <1>0, <1>9 DEF TriggerStart, TriggerEnd, Release, Actors
  <2> QED
    BY <1>5, <2>1
<1>10. ASSUME NEW r \in Rows, Arrive(r) \/ ArriveHistory(r)
      PROVE  UNCHANGED job
  BY <1>10 DEF Arrive, ArriveHistory, jobVars
<1>11. ASSUME ControlPlane \/ ControlWrites PROVE UNCHANGED job
  BY <1>11 DEF ControlPlane, ControlWrites, SelectGroups, OptOut, OptIn, StartExtraction,
     PauseExtraction, ConfirmSelection, RewriteQueuedRows, jobVars
<1>12. ASSUME NEW v \in Workers,
             BeginCycle(v) \/ ReenableRead(v) \/ ReenableWrite(v) \/ EndCycle(v)
      PROVE  UNCHANGED job
  BY <1>12 DEF BeginCycle, ReenableRead, ReenableWrite, EndCycle, jobVars
<1>13. ASSUME UNCHANGED vars PROVE UNCHANGED job
  BY <1>13 DEF vars, jobVars
<1>14. Fetch(w) \/ Keeps
  <2>1. ASSUME NEW v \in Workers, WorkerStep(v) \/ Crash(v)
        PROVE  Fetch(w) \/ Keeps
    <3>1. v \in Actors
      BY DEF Actors
    <3> QED
      BY <1>1, <1>2, <1>3, <1>4, <1>6, <1>7, <1>8, <1>12, <2>1, <3>1 DEF WorkerStep, RowStep
  <2>2. ASSUME NEW d \in Triggers, TriggerStep(d)
        PROVE  Keeps
    <3>1. d \in Actors
      BY DEF Actors
    <3> QED
      BY <1>8, <1>9, <2>2, <3>1 DEF TriggerStep
  <2> QED
    BY <1>1, <1>10, <1>11, <1>13, <2>1, <2>2 DEF Next
<1> QED
  BY <1>14 DEF Keeps

LEMMA BatchStep == ASSUME QueueInv, BatchInv, [Next]_vars PROVE BatchInv'
<1> SUFFICES ASSUME NEW w \in Workers, NEW l \in Lanes
             PROVE  IsFiniteSet(Batch(w, l)') /\ Cardinality(Batch(w, l)') <= BatchSize
  BY DEF BatchInv, Batch
<1>0. BatchSize \in Nat
  BY BoundAssumption
<1>1. CASE Fetch(w)
  <2> DEFINE first == FirstK(Eligible(w, l), BatchSize)
  <2>1. Eligible(w, l) \in SUBSET Nat
    BY RowAssumption DEF Eligible
  <2>2. IsFiniteSet(first) /\ Cardinality(first) \in Nat /\ Cardinality(first) <= BatchSize
    BY <1>0, <2>1, FirstKBound, FS_CardinalityType
  <2>3. ASSUME NEW r \in Rows, LaneOf[r] = l, job'[w][r] # "none"
        PROVE  r \in first
    <3>1. PICK answered \in SUBSET Lanes :
            job' = [job EXCEPT ![w] = [q \in Rows |->
              IF q \in UNION {FirstK(Eligible(w, m), BatchSize) : m \in answered}
              THEN "fetched" ELSE "none"]]
      BY <1>1 DEF Fetch
    <3>2. w \in Actors /\ job \in [Actors -> [Rows -> Phases]]
      BY DEF QueueInv, TypeOK, JobTypeOK, Actors
    <3>3. PICK m \in answered : r \in FirstK(Eligible(w, m), BatchSize)
      BY <2>3, <3>1, <3>2
    <3>4. m = l
      BY <2>3, <3>3 DEF FirstK, Eligible
    <3> QED
      BY <3>3, <3>4
  <2>4. Batch(w, l)' \in SUBSET first
    BY <2>3 DEF Batch
  <2>5. IsFiniteSet(Batch(w, l)') /\ Cardinality(Batch(w, l)') <= Cardinality(first)
    BY <2>2, <2>4, FS_Subset
  <2> QED
    BY <1>0, <2>2, <2>5, FS_CardinalityType
<1>2. CASE ~Fetch(w)
  <2>1. Batch(w, l)' \in SUBSET Batch(w, l)
    BY <1>2, OnlyFetchTakes DEF Batch
  <2>2. IsFiniteSet(Batch(w, l)) /\ Cardinality(Batch(w, l)) <= BatchSize
    BY DEF BatchInv
  <2>3. IsFiniteSet(Batch(w, l)') /\ Cardinality(Batch(w, l)') <= Cardinality(Batch(w, l))
    BY <2>1, <2>2, FS_Subset
  <2> QED
    BY <1>0, <2>2, <2>3, FS_CardinalityType
<1> QED
  BY <1>1, <1>2

(* At most BatchSize rows of a lane are extracted by a worker after their   *)
(* group's consent ended, for any number of operators, workers and rows.    *)
THEOREM Outrun == Spec => []OutrunIsBounded
<1>1. Init => BatchInv
  <2> SUFFICES ASSUME Init, NEW w \in Workers, NEW l \in Lanes
               PROVE  IsFiniteSet(Batch(w, l)) /\ Cardinality(Batch(w, l)) <= BatchSize
    BY DEF BatchInv
  <2>1. Batch(w, l) = {}
    BY DEF Init, Batch, Actors
  <2> QED
    BY <2>1, FS_EmptySet, BoundAssumption
<1>2. QueueInv /\ BatchInv /\ [Next]_vars => BatchInv'
  BY BatchStep
<1>3. BatchInv => OutrunIsBounded
  <2> SUFFICES ASSUME BatchInv, NEW w \in Workers, NEW l \in Lanes
               PROVE  Cardinality({r \in Rows : /\ LaneOf[r] = l
                                                /\ job[w][r] \in InFlight \cup {"queued"}
                                                /\ ~HasConsent(r)}) <= BatchSize
    BY DEF OutrunIsBounded
  <2> DEFINE Late == {r \in Rows : /\ LaneOf[r] = l
                                   /\ job[w][r] \in InFlight \cup {"queued"}
                                   /\ ~HasConsent(r)}
  <2>1. Late \in SUBSET Batch(w, l)
    BY DEF Batch, InFlight
  <2>2. IsFiniteSet(Batch(w, l)) /\ Cardinality(Batch(w, l)) <= BatchSize
    BY DEF BatchInv
  <2>3. IsFiniteSet(Late) /\ Cardinality(Late) <= Cardinality(Batch(w, l))
    BY <2>1, <2>2, FS_Subset
  <2> QED
    BY <2>2, <2>3, FS_CardinalityType, BoundAssumption
<1> QED
  BY <1>1, <1>2, <1>3, Invariant, PTL DEF Spec

=============================================================================
