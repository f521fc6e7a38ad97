------------------------ MODULE ExtractionQueueProofs ------------------------
(***************************************************************************)
(* What holds of the extraction queue for any number of rows, workers,     *)
(* triggers, phones, groups, crashes and failed calls. One inductive       *)
(* invariant carries everything:                                           *)
(*   TypeOK       every variable has its type;                             *)
(*   PlaceInv     a worker holds no row before its fetch, and only fetched *)
(*                rows when it reads the consent policy;                   *)
(*   AttemptInv   a row in flight owns a running attempt of its own;       *)
(*   HandInv      a row somebody works on is stored, is not history, and   *)
(*                has its evidence before it is about to be marked;        *)
(*   HistoryInv   imported history is consumed, unattempted and unlisted.  *)
(***************************************************************************)
EXTENDS ExtractionQueue, SequenceTheorems, TLAPS

PlaceInv ==
  \A w \in Workers, r \in Rows :
    /\ pc[w] \in {"idle", "reenable", "release", "fetch"} => job[w][r] = "none"
    /\ pc[w] = "filter" => job[w][r] \in {"none", "fetched"}

AttemptInv ==
  \A w \in Workers, r \in Rows :
    /\ job[w][r] \in InFlight =>
         /\ att[w][r] \in 1..Len(log[r])
         /\ log[r][att[w][r]] = "running"
         /\ retry[w][r] < MaxRetries
    /\ job[w][r] \notin InFlight => att[w][r] = 0
    /\ \A v \in Workers \ {w} : att[w][r] # 0 => att[v][r] # att[w][r]

ClaimInv == PlaceInv /\ AttemptInv

HandInv ==
  \A a \in Actors, r \in Rows :
    /\ job[a][r] # "none" => exists[r] /\ "history_sync" \notin resolved[r]
    /\ job[a][r] \in {"saved", "split"} => resolved[r] # {}

HistoryInv ==
  \A r \in Rows :
    /\ processed[r] => exists[r]
    /\ "history_sync" \in resolved[r] => processed[r] /\ log[r] = <<>> /\ typed[r] = NoTyped
    /\ ~exists[r] => log[r] = <<>> /\ typed[r] = NoTyped

EvidenceInv == HandInv /\ ConsumedOnlyWhenResolved /\ SplitIsComplete /\ HistoryInv

QueueInv == TypeOK /\ ClaimInv /\ EvidenceInv /\ ConsentFence

-----------------------------------------------------------------------------
(* The initial state of the queue satisfies the inductive invariant. *)
LEMMA InitInv == ASSUME Init PROVE QueueInv
<1> USE RowAssumption, BoundAssumption DEF Init
<1>1. TypeOK
  <2>1. DbTypeOK
    BY DEF DbTypeOK, Outcomes, LogStatus, NoTyped
  <2>2. ControlTypeOK /\ CycleTypeOK
    BY DEF ControlTypeOK, CycleTypeOK, ConsentStates, PendingWrites, PCs
  <2>3. JobTypeOK
    BY DEF JobTypeOK, Actors, Phases, Plans
  <2>4. HistoryTypeOK
    BY DEF HistoryTypeOK
  <2> QED
    BY <2>1, <2>2, <2>3, <2>4 DEF TypeOK
<1>2. ClaimInv
  BY DEF ClaimInv, PlaceInv, AttemptInv, InFlight, Actors
<1>3. EvidenceInv
  BY DEF EvidenceInv, HandInv, HistoryInv, ConsumedOnlyWhenResolved, SplitIsComplete
<1>4. ConsentFence
  BY DEF ConsentFence, InFlight, Actors
<1> QED
  BY <1>1, <1>2, <1>3, <1>4 DEF QueueInv

-----------------------------------------------------------------------------
(* Types are preserved: closing an attempt needs that the attempt exists,  *)
(* and counting a retry that the row was claimed below the limit.          *)
LEMMA TypeStep == ASSUME TypeOK, AttemptInv, [Next]_vars PROVE TypeOK'
<1>1. CASE UNCHANGED vars
  BY <1>1 DEF vars, dbVars, controlVars, cycleVars, jobVars, historyVars, TypeOK,
     DbTypeOK, ControlTypeOK, CycleTypeOK, JobTypeOK, HistoryTypeOK
<1>2. ASSUME NEW r \in Rows, Arrive(r)
      PROVE  TypeOK'
  BY <1>2, RowAssumption, BoundAssumption DEF Arrive, controlVars, cycleVars,
     jobVars, historyVars, TypeOK, DbTypeOK, ControlTypeOK, CycleTypeOK, JobTypeOK,
     HistoryTypeOK, Actors, ConsentStates, LogStatus, Outcomes, PCs, PendingWrites,
     Phases, Plans, Resolutions, StorageStatus
<1>3. ASSUME NEW r \in Rows, ArriveHistory(r)
      PROVE  TypeOK'
  BY <1>3, RowAssumption, BoundAssumption DEF ArriveHistory, controlVars,
     cycleVars, jobVars, Resolve, TypeOK, DbTypeOK, ControlTypeOK, CycleTypeOK,
     JobTypeOK, HistoryTypeOK, Actors, ConsentStates, LogStatus, Outcomes, PCs,
     PendingWrites, Phases, Plans, Resolutions, StorageStatus
<1>4. ASSUME NEW c \in Conns, NEW gs \in SUBSET Groups, SelectGroups(c, gs)
      PROVE  TypeOK'
  <2>1. ControlTypeOK'
    BY <1>4, BoundAssumption DEF SelectGroups, dbVars, cycleVars, jobVars, Operate,
       SetConsent, TypeOK, ControlTypeOK, ConsentStates, PendingWrites
  <2>2. HistoryTypeOK'
    BY <1>4, BoundAssumption DEF SelectGroups, dbVars, cycleVars, jobVars, Operate,
       SetConsent, TypeOK, HistoryTypeOK, Resolutions, Losing
  <2>3. DbTypeOK' /\ CycleTypeOK' /\ JobTypeOK'
    BY <1>4 DEF SelectGroups, dbVars, cycleVars, jobVars, SetConsent, TypeOK,
       DbTypeOK, CycleTypeOK, JobTypeOK
  <2> QED
    BY <2>1, <2>2, <2>3 DEF TypeOK
<1>5. ASSUME NEW c \in Conns, NEW g \in Groups, OptOut(c, g)
      PROVE  TypeOK'
  <2>1. ControlTypeOK'
    <3>1. [tenant |-> TenantOf[c], group |-> g, suppress |-> TRUE] \in PendingWrites
      BY RowAssumption DEF PendingWrites
    <3>2. <<c, g>> \in Conns \X Groups
      OBVIOUS
    <3> QED
      BY <1>5, <3>1, <3>2 DEF OptOut, SetConsent, TypeOK, ControlTypeOK, ConsentStates
  <2>2. HistoryTypeOK'
    BY <1>5, BoundAssumption DEF OptOut, dbVars, cycleVars, jobVars, Operate,
       SetConsent, TypeOK, HistoryTypeOK, Resolutions, Losing
  <2>3. DbTypeOK' /\ CycleTypeOK' /\ JobTypeOK'
    BY <1>5 DEF OptOut, dbVars, cycleVars, jobVars, SetConsent, TypeOK, DbTypeOK,
       CycleTypeOK, JobTypeOK
  <2> QED
    BY <2>1, <2>2, <2>3 DEF TypeOK
<1>6. ASSUME NEW c \in Conns, NEW g \in Groups, OptIn(c, g)
      PROVE  TypeOK'
  <2>1. ControlTypeOK'
    <3>1. [tenant |-> TenantOf[c], group |-> g, suppress |-> FALSE] \in PendingWrites
      BY RowAssumption DEF PendingWrites
    <3>2. <<c, g>> \in Conns \X Groups
      OBVIOUS
    <3> QED
      BY <1>6, <3>1, <3>2 DEF OptIn, SetConsent, TypeOK, ControlTypeOK, ConsentStates
  <2>2. HistoryTypeOK'
    BY <1>6, BoundAssumption DEF OptIn, dbVars, cycleVars, jobVars, Operate,
       TypeOK, HistoryTypeOK, Resolutions
  <2>3. DbTypeOK' /\ CycleTypeOK' /\ JobTypeOK'
    BY <1>6 DEF OptIn, dbVars, cycleVars, jobVars, TypeOK, DbTypeOK, CycleTypeOK,
       JobTypeOK
  <2> QED
    BY <2>1, <2>2, <2>3 DEF TypeOK
<1>7. ASSUME NEW c \in Conns, StartExtraction(c)
      PROVE  TypeOK'
  BY <1>7, RowAssumption, BoundAssumption DEF StartExtraction, dbVars, cycleVars,
     jobVars, Operate, TypeOK, DbTypeOK, ControlTypeOK, CycleTypeOK, JobTypeOK,
     HistoryTypeOK, Actors, ConsentStates, LogStatus, Outcomes, PCs, PendingWrites,
     Phases, Plans, Resolutions, StorageStatus
<1>8. ASSUME NEW c \in Conns, PauseExtraction(c)
      PROVE  TypeOK'
  BY <1>8, RowAssumption, BoundAssumption DEF PauseExtraction, dbVars, cycleVars,
     jobVars, Operate, TypeOK, DbTypeOK, ControlTypeOK, CycleTypeOK, JobTypeOK,
     HistoryTypeOK, Actors, ConsentStates, LogStatus, Outcomes, PCs, PendingWrites,
     Phases, Plans, Resolutions, StorageStatus
<1>9. ASSUME NEW p \in pending, ConfirmSelection(p)
      PROVE  TypeOK'
  BY <1>9, RowAssumption, BoundAssumption DEF ConfirmSelection, dbVars, cycleVars,
     jobVars, Fault, NoFault, TypeOK, DbTypeOK, ControlTypeOK, CycleTypeOK,
     JobTypeOK, HistoryTypeOK, Actors, ConsentStates, LogStatus, Outcomes, PCs,
     PendingWrites, Phases, Plans, Resolutions, StorageStatus
<1>10. ASSUME NEW p \in pending, RewriteQueuedRows(p)
      PROVE  TypeOK'
  <2>1. DbTypeOK'
    <3>1. p.suppress \in BOOLEAN
      <4>1. p \in PendingWrites /\ "suppress" \in DOMAIN p
        BY <1>10 DEF RewriteQueuedRows, TypeOK, ControlTypeOK
      <4> QED
        BY <4>1 DEF PendingWrites
    <3>2. \A r \in Rows : suppressed'[r] \in {p.suppress, suppressed[r]}
      BY <1>10 DEF RewriteQueuedRows
    <3>3. suppressed' \in [Rows -> BOOLEAN]
      BY <1>10, <3>1 DEF RewriteQueuedRows, TypeOK, DbTypeOK
    <3> QED
      BY <1>10, <3>3 DEF RewriteQueuedRows, TypeOK, DbTypeOK
  <2>2. ControlTypeOK'
    BY <1>10, BoundAssumption DEF RewriteQueuedRows, cycleVars, jobVars, Fault,
       NoFault, TypeOK, ControlTypeOK, ConsentStates, PendingWrites
  <2>3. HistoryTypeOK'
    BY <1>10, BoundAssumption DEF RewriteQueuedRows, cycleVars, jobVars, Fault,
       NoFault, TypeOK, HistoryTypeOK, Resolutions
  <2>4. CycleTypeOK' /\ JobTypeOK'
    BY <1>10 DEF RewriteQueuedRows, cycleVars, jobVars, TypeOK, CycleTypeOK,
       JobTypeOK
  <2> QED
    BY <2>1, <2>2, <2>3, <2>4 DEF TypeOK
<1>11. ASSUME NEW w \in Workers, BeginCycle(w)
      PROVE  TypeOK'
  <2>1. CycleTypeOK'
    <3>1. RunningTenants \subseteq Tenants
      BY RowAssumption DEF RunningTenants, TypeOK, ControlTypeOK
    <3>2. scope' = [scope EXCEPT ![w] = RunningTenants] \/ scope' = [scope EXCEPT ![w] = Tenants]
      BY <1>11 DEF BeginCycle
    <3>3. scope' \in [Workers -> SUBSET Tenants]
      BY <3>1, <3>2 DEF TypeOK, CycleTypeOK
    <3> QED
      BY <1>11, <3>3 DEF BeginCycle, GoTo, TypeOK, CycleTypeOK, PCs
  <2>2. HistoryTypeOK'
    BY <1>11, BoundAssumption DEF BeginCycle, dbVars, controlVars, jobVars, GoTo,
       Fault, NoFault, TypeOK, HistoryTypeOK, Resolutions
  <2>3. DbTypeOK' /\ ControlTypeOK' /\ JobTypeOK'
    BY <1>11 DEF BeginCycle, dbVars, controlVars, jobVars, TypeOK, DbTypeOK,
       ControlTypeOK, JobTypeOK
  <2> QED
    BY <2>1, <2>2, <2>3 DEF TypeOK
<1>12. ASSUME NEW w \in Workers, ReenableRead(w)
      PROVE  TypeOK'
  <2>1. CycleTypeOK'
    <3> DEFINE Read == UNION {FirstK(Suppressed(cg[1], cg[2]), ReenableLimit) :
                              cg \in {x \in Conns \X Groups : consent[x] = "selected"}}
    <3>1. Read \subseteq Rows
      BY DEF FirstK, Suppressed
    <3>2. release' = [release EXCEPT ![w] = Read] \/ release' = release
      BY <1>12 DEF ReenableRead
    <3> HIDE DEF Read
    <3>3. release' \in [Workers -> SUBSET Rows]
      BY <3>1, <3>2 DEF TypeOK, CycleTypeOK
    <3> QED
      BY <1>12, <3>3 DEF ReenableRead, GoTo, TypeOK, CycleTypeOK, PCs
  <2>2. HistoryTypeOK'
    BY <1>12, BoundAssumption DEF ReenableRead, dbVars, controlVars, jobVars, GoTo,
       Fault, NoFault, TypeOK, HistoryTypeOK, Resolutions
  <2>3. DbTypeOK' /\ ControlTypeOK' /\ JobTypeOK'
    BY <1>12 DEF ReenableRead, dbVars, controlVars, jobVars, TypeOK, DbTypeOK,
       ControlTypeOK, JobTypeOK
  <2> QED
    BY <2>1, <2>2, <2>3 DEF TypeOK
<1>13. ASSUME NEW w \in Workers, ReenableWrite(w)
      PROVE  TypeOK'
  <2>1. DbTypeOK'
    <3>1. suppressed' = suppressed \/ suppressed' = [r \in Rows |->
             IF r \in release[w] /\ ~processed[r] THEN FALSE ELSE suppressed[r]]
      BY <1>13 DEF ReenableWrite
    <3>2. suppressed' \in [Rows -> BOOLEAN]
      BY <3>1 DEF TypeOK, DbTypeOK
    <3> QED
      BY <1>13, <3>2 DEF ReenableWrite, TypeOK, DbTypeOK
  <2>2. CycleTypeOK'
    BY <1>13, BoundAssumption DEF ReenableWrite, controlVars, jobVars, GoTo, Fault,
       NoFault, TypeOK, CycleTypeOK, PCs
  <2>3. HistoryTypeOK'
    <3>1. faults' = faults \/ (faults < MaxFaults /\ faults' = faults + 1)
      BY <1>13 DEF ReenableWrite, Fault, NoFault
    <3> QED
      BY <1>13, <3>1, BoundAssumption DEF ReenableWrite, TypeOK, HistoryTypeOK
  <2>4. ControlTypeOK' /\ JobTypeOK'
    BY <1>13 DEF ReenableWrite, controlVars, jobVars, TypeOK, ControlTypeOK,
       JobTypeOK
  <2> QED
    BY <2>1, <2>2, <2>3, <2>4 DEF TypeOK
<1>14. ASSUME NEW w \in Workers, Fetch(w)
      PROVE  TypeOK'
  BY <1>14, RowAssumption, BoundAssumption DEF Fetch, dbVars, controlVars, GoTo,
     Fault, NoFault, TypeOK, DbTypeOK, ControlTypeOK, CycleTypeOK, JobTypeOK,
     HistoryTypeOK, Actors, ConsentStates, LogStatus, Outcomes, PCs, PendingWrites,
     Phases, Plans, Resolutions, StorageStatus
<1>15. ASSUME NEW w \in Workers, Filter(w)
      PROVE  TypeOK'
  BY <1>15, RowAssumption, BoundAssumption DEF Filter, dbVars, controlVars, GoTo,
     Fault, NoFault, TypeOK, DbTypeOK, ControlTypeOK, CycleTypeOK, JobTypeOK,
     HistoryTypeOK, Actors, ConsentStates, LogStatus, Outcomes, PCs, PendingWrites,
     Phases, Plans, Resolutions, StorageStatus
<1>16. ASSUME NEW w \in Workers, EndCycle(w)
      PROVE  TypeOK'
  BY <1>16, RowAssumption, BoundAssumption DEF EndCycle, dbVars, controlVars,
     jobVars, historyVars, GoTo, TypeOK, DbTypeOK, ControlTypeOK, CycleTypeOK,
     JobTypeOK, HistoryTypeOK, Actors, ConsentStates, LogStatus, Outcomes, PCs,
     PendingWrites, Phases, Plans, Resolutions, StorageStatus
<1>17. ASSUME NEW w \in Workers, Crash(w)
      PROVE  TypeOK'
  BY <1>17, RowAssumption, BoundAssumption DEF Crash, dbVars, controlVars, GoTo,
     TypeOK, DbTypeOK, ControlTypeOK, CycleTypeOK, JobTypeOK, HistoryTypeOK,
     Actors, ConsentStates, LogStatus, Outcomes, PCs, PendingWrites, Phases, Plans,
     Resolutions, StorageStatus
<1>18. ASSUME NEW w \in Workers, NEW r \in Rows, Suppress(w, r)
      PROVE  TypeOK'
  <2>1. DbTypeOK'
    BY <1>18, BoundAssumption DEF Suppress, controlVars, cycleVars, Move, Fault,
       NoFault, TypeOK, DbTypeOK, Outcomes, LogStatus
  <2>2. JobTypeOK'
    BY <1>18, BoundAssumption DEF Suppress, controlVars, cycleVars, Move, Fault,
       NoFault, TypeOK, JobTypeOK, Phases, Plans, StorageStatus, Actors
  <2>3. HistoryTypeOK'
    BY <1>18, BoundAssumption DEF Suppress, controlVars, cycleVars, Move, Fault,
       NoFault, TypeOK, HistoryTypeOK, Resolutions
  <2>4. ControlTypeOK' /\ CycleTypeOK'
    BY <1>18 DEF Suppress, controlVars, cycleVars, Move, TypeOK, ControlTypeOK,
       CycleTypeOK
  <2> QED
    BY <2>1, <2>2, <2>3, <2>4 DEF TypeOK
<1>19. ASSUME NEW w \in Workers, NEW r \in Rows, DeadLetter(w, r)
      PROVE  TypeOK'
  <2>1. DbTypeOK'
    <3>1. CASE UNCHANGED <<processed, outcome, log>>
      BY <1>19, <3>1 DEF DeadLetter, TypeOK, DbTypeOK
    <3>2. CASE /\ processed' = [processed EXCEPT ![r] = TRUE]
               /\ outcome' = [outcome EXCEPT ![r] = "dead_lettered"]
               /\ log' = [log EXCEPT ![r] = Append(@, "dead_lettered")]
      BY <1>19, <3>2 DEF DeadLetter, TypeOK, DbTypeOK, Outcomes, LogStatus
    <3> QED
      BY <1>19, <3>1, <3>2 DEF DeadLetter
  <2>2. JobTypeOK'
    BY <1>19, BoundAssumption DEF DeadLetter, controlVars, cycleVars, Move,
       Resolve, Fault, NoFault, TypeOK, JobTypeOK, Phases, Plans, StorageStatus,
       Actors
  <2>3. HistoryTypeOK'
    <3>1. faults' = faults \/ (faults < MaxFaults /\ faults' = faults + 1)
      BY <1>19 DEF DeadLetter, Fault, NoFault
    <3>2. resolved' = resolved \/ resolved' = [resolved EXCEPT ![r] = @ \cup {"dead_letter"}]
      BY <1>19 DEF DeadLetter, Resolve
    <3>3. resolved' \in [Rows -> SUBSET Resolutions]
      BY <3>2 DEF TypeOK, HistoryTypeOK, Resolutions
    <3> QED
      BY <1>19, <3>1, <3>3, BoundAssumption DEF DeadLetter, TypeOK, HistoryTypeOK
  <2>4. ControlTypeOK' /\ CycleTypeOK'
    BY <1>19 DEF DeadLetter, controlVars, cycleVars, Move, TypeOK, ControlTypeOK,
       CycleTypeOK
  <2> QED
    BY <2>1, <2>2, <2>3, <2>4 DEF TypeOK
<1>20. ASSUME NEW w \in Workers, NEW r \in Rows, Claim(w, r)
      PROVE  TypeOK'
  BY <1>20, RowAssumption, BoundAssumption DEF Claim, controlVars, cycleVars,
     historyVars, Move, TypeOK, DbTypeOK, ControlTypeOK, CycleTypeOK, JobTypeOK,
     HistoryTypeOK, Actors, ConsentStates, LogStatus, Outcomes, PCs, PendingWrites,
     Phases, Plans, Resolutions, StorageStatus
<1>21. ASSUME NEW w \in Workers, NEW r \in Rows, ClaimStale(w, r)
      PROVE  TypeOK'
  BY <1>21, RowAssumption, BoundAssumption DEF ClaimStale, dbVars, controlVars,
     cycleVars, historyVars, Move, TypeOK, DbTypeOK, ControlTypeOK, CycleTypeOK,
     JobTypeOK, HistoryTypeOK, Actors, ConsentStates, LogStatus, Outcomes, PCs,
     PendingWrites, Phases, Plans, Resolutions, StorageStatus
<1>22. ASSUME NEW w \in Workers, NEW r \in Rows, ClaimError(w, r)
      PROVE  TypeOK'
  <2>1. JobTypeOK'
    BY <1>22, BoundAssumption DEF ClaimError, dbVars, controlVars, cycleVars, Move,
       Fault, TypeOK, JobTypeOK, Phases, Plans, StorageStatus, Actors
  <2>2. HistoryTypeOK'
    BY <1>22, BoundAssumption DEF ClaimError, dbVars, controlVars, cycleVars, Move,
       Fault, TypeOK, HistoryTypeOK, Resolutions
  <2>3. DbTypeOK' /\ ControlTypeOK' /\ CycleTypeOK'
    BY <1>22 DEF ClaimError, dbVars, controlVars, cycleVars, Move, TypeOK,
       DbTypeOK, ControlTypeOK, CycleTypeOK
  <2> QED
    BY <2>1, <2>2, <2>3 DEF TypeOK
<1>23. ASSUME NEW w \in Workers, NEW r \in Rows, Finish(w, r)
      PROVE  TypeOK'
  <2>1. DbTypeOK'
    <3> DEFINE s == FinishStatus(plan[w][r])
    <3>1. s \in LogStatus /\ s \in Outcomes
      BY DEF LogStatus, Outcomes, FinishStatus
    <3>2. att[w][r] \in 1..Len(log[r])
      BY <1>23 DEF Finish, AttemptInv, InFlight
    <3>3. [log[r] EXCEPT ![att[w][r]] = s] \in Seq(LogStatus)
      BY <3>1, <3>2, ExceptSeq DEF TypeOK, DbTypeOK
    <3>4. \/ log' = [log EXCEPT ![r] = [log[r] EXCEPT ![att[w][r]] = s]]
          \/ log' = log
      BY <1>23 DEF Finish, SetAttempt, TypeOK, DbTypeOK
    <3>5. outcome' = [outcome EXCEPT ![r] = s] \/ outcome' = outcome
      BY <1>23 DEF Finish
    <3> HIDE DEF s
    <3>6. log' \in [Rows -> Seq(LogStatus)]
      BY <3>3, <3>4 DEF TypeOK, DbTypeOK
    <3>7. outcome' \in [Rows -> Outcomes]
      BY <3>1, <3>5 DEF TypeOK, DbTypeOK
    <3> QED
      BY <1>23, <3>6, <3>7 DEF Finish, TypeOK, DbTypeOK
  <2>2. JobTypeOK'
    <3>1. CASE retry' = [retry EXCEPT ![w][r] = 0] /\ Release(w, r)
      BY <3>1, BoundAssumption DEF Release, Move, TypeOK, JobTypeOK, Phases, Plans, Actors
    <3>2. CASE Move(w, r, "raised") /\ UNCHANGED <<retry, att, plan>>
      BY <3>2 DEF Move, TypeOK, JobTypeOK, Phases, Actors
    <3> QED
      BY <1>23, <3>1, <3>2 DEF Finish
  <2>3. HistoryTypeOK'
    BY <1>23, BoundAssumption DEF Finish, controlVars, cycleVars, Move, Fault,
       NoFault, Release, SetAttempt, FinishStatus, TypeOK, HistoryTypeOK,
       Resolutions
  <2>4. ControlTypeOK' /\ CycleTypeOK'
    BY <1>23 DEF Finish, controlVars, cycleVars, Move, TypeOK, ControlTypeOK,
       CycleTypeOK
  <2> QED
    BY <2>1, <2>2, <2>3, <2>4 DEF TypeOK
<1>24. ASSUME NEW w \in Workers, NEW r \in Rows, RaiseUnsaved(w, r)
      PROVE  TypeOK'
  BY <1>24, RowAssumption, BoundAssumption DEF RaiseUnsaved, dbVars, controlVars,
     cycleVars, historyVars, Move, TypeOK, DbTypeOK, ControlTypeOK, CycleTypeOK,
     JobTypeOK, HistoryTypeOK, Actors, ConsentStates, LogStatus, Outcomes, PCs,
     PendingWrites, Phases, Plans, Resolutions, StorageStatus
<1>25. ASSUME NEW w \in Workers, NEW r \in Rows, FinishFailed(w, r)
      PROVE  TypeOK'
  <2>1. DbTypeOK'
    <3> DEFINE s == "failed"
    <3>1. s \in LogStatus /\ s \in Outcomes
      BY DEF LogStatus, Outcomes
    <3>2. att[w][r] \in 1..Len(log[r])
      BY <1>25 DEF FinishFailed, AttemptInv, InFlight
    <3>3. [log[r] EXCEPT ![att[w][r]] = s] \in Seq(LogStatus)
      BY <3>1, <3>2, ExceptSeq DEF TypeOK, DbTypeOK
    <3>4. \/ log' = [log EXCEPT ![r] = [log[r] EXCEPT ![att[w][r]] = s]]
          \/ log' = log
      BY <1>25 DEF FinishFailed, SetAttempt, TypeOK, DbTypeOK
    <3>5. outcome' = [outcome EXCEPT ![r] = s] \/ outcome' = outcome
      BY <1>25 DEF FinishFailed
    <3> HIDE DEF s
    <3>6. log' \in [Rows -> Seq(LogStatus)]
      BY <3>3, <3>4 DEF TypeOK, DbTypeOK
    <3>7. outcome' \in [Rows -> Outcomes]
      BY <3>1, <3>5 DEF TypeOK, DbTypeOK
    <3> QED
      BY <1>25, <3>6, <3>7 DEF FinishFailed, TypeOK, DbTypeOK
  <2>2. JobTypeOK'
    <3>1. Release(w, r)
      BY <1>25 DEF FinishFailed
    <3>2. retry[w][r] + 1 \in 0..MaxRetries
      BY <1>25, BoundAssumption DEF FinishFailed, AttemptInv, InFlight, TypeOK, JobTypeOK
    <3>3. retry' = [retry EXCEPT ![w] = [retry[w] EXCEPT ![r] = retry[w][r] + 1]] \/ retry' = retry
      BY <1>25 DEF FinishFailed, TypeOK, JobTypeOK
    <3>4. retry[w] \in [Rows -> 0..MaxRetries]
      BY DEF TypeOK, JobTypeOK
    <3>5. [retry[w] EXCEPT ![r] = retry[w][r] + 1] \in [Rows -> 0..MaxRetries]
      BY <3>2, <3>4
    <3>6. retry' \in [Workers -> [Rows -> 0..MaxRetries]]
      BY <3>3, <3>5 DEF TypeOK, JobTypeOK
    <3> QED
      BY <3>1, <3>6 DEF Release, Move, TypeOK, JobTypeOK, Phases, Plans, Actors
  <2>3. HistoryTypeOK'
    BY <1>25, BoundAssumption DEF FinishFailed, controlVars, cycleVars, Move,
       Fault, NoFault, Release, SetAttempt, TypeOK, HistoryTypeOK, Resolutions
  <2>4. ControlTypeOK' /\ CycleTypeOK'
    BY <1>25 DEF FinishFailed, controlVars, cycleVars, Move, TypeOK, ControlTypeOK,
       CycleTypeOK
  <2> QED
    BY <2>1, <2>2, <2>3, <2>4 DEF TypeOK
<1>26. ASSUME NEW a \in Actors, NEW r \in Rows, SkipExcluded(a, r)
      PROVE  TypeOK'
  BY <1>26, RowAssumption, BoundAssumption DEF SkipExcluded, controlVars,
     cycleVars, Move, Resolve, Return, TypeOK, DbTypeOK, ControlTypeOK,
     CycleTypeOK, JobTypeOK, HistoryTypeOK, Actors, ConsentStates, LogStatus,
     Outcomes, PCs, PendingWrites, Phases, Plans, Resolutions, StorageStatus
<1>27. ASSUME NEW a \in Actors, NEW r \in Rows, RecordRepeat(a, r)
      PROVE  TypeOK'
  <2>1. DbTypeOK'
    <3>1. PICK q \in Repeats(r) : repeatOf' = [repeatOf EXCEPT ![r] = {q}]
      BY <1>27 DEF RecordRepeat
    <3>2. q \in Rows
      BY DEF Repeats
    <3> QED
      BY <1>27, <3>1, <3>2 DEF RecordRepeat, TypeOK, DbTypeOK, Outcomes
  <2>2. JobTypeOK'
    BY <1>27, BoundAssumption DEF RecordRepeat, controlVars, cycleVars, Move,
       Resolve, Return, TypeOK, JobTypeOK, Phases, Plans, StorageStatus, Actors
  <2>3. HistoryTypeOK'
    BY <1>27, BoundAssumption DEF RecordRepeat, Resolve, Fault, NoFault, TypeOK,
       HistoryTypeOK, Resolutions
  <2>4. ControlTypeOK' /\ CycleTypeOK'
    BY <1>27 DEF RecordRepeat, controlVars, cycleVars, Move, TypeOK, ControlTypeOK,
       CycleTypeOK
  <2> QED
    BY <2>1, <2>2, <2>3, <2>4 DEF TypeOK
<1>28. ASSUME NEW a \in Actors, NEW r \in Rows, PassGates(a, r)
      PROVE  TypeOK'
  <2>1. JobTypeOK'
    BY <1>28, BoundAssumption DEF PassGates, controlVars, cycleVars, Move,
       Fault, NoFault, TypeOK, JobTypeOK, Phases, Plans, StorageStatus, Actors
  <2>2. HistoryTypeOK'
    BY <1>28, BoundAssumption DEF PassGates, Resolve, Fault, NoFault, TypeOK,
       HistoryTypeOK, Resolutions
  <2>3. DbTypeOK' /\ ControlTypeOK' /\ CycleTypeOK'
    BY <1>28 DEF PassGates, controlVars, cycleVars, TypeOK, DbTypeOK,
       ControlTypeOK, CycleTypeOK
  <2> QED
    BY <2>1, <2>2, <2>3 DEF TypeOK
<1>29. ASSUME NEW a \in Actors, NEW r \in Rows, Materialize(a, r)
      PROVE  TypeOK'
  <2>1. DbTypeOK'
    BY <1>29, BoundAssumption DEF Materialize, controlVars, cycleVars, Move, Fault,
       NoFault, TypeOK, DbTypeOK, Outcomes, LogStatus
  <2>2. JobTypeOK'
    BY <1>29, BoundAssumption DEF Materialize, controlVars, cycleVars, Move, Fault,
       NoFault, TypeOK, JobTypeOK, Phases, Plans, StorageStatus, Actors
  <2>3. HistoryTypeOK'
    BY <1>29, BoundAssumption DEF Materialize, controlVars, cycleVars, Move, Fault,
       NoFault, TypeOK, HistoryTypeOK, Resolutions
  <2>4. ControlTypeOK' /\ CycleTypeOK'
    BY <1>29 DEF Materialize, controlVars, cycleVars, Move, TypeOK, ControlTypeOK,
       CycleTypeOK
  <2> QED
    BY <2>1, <2>2, <2>3, <2>4 DEF TypeOK
<1>30. ASSUME NEW a \in Actors, NEW r \in Rows, MarkSplitParent(a, r)
      PROVE  TypeOK'
  <2>1. DbTypeOK'
    BY <1>30, BoundAssumption DEF MarkSplitParent, controlVars, cycleVars, Move,
       Fault, NoFault, Return, TypeOK, DbTypeOK, Outcomes, LogStatus
  <2>2. JobTypeOK'
    <3>1. CASE Return(a, r, "split_queued")
      BY <1>30, <3>1 DEF MarkSplitParent, Return, Move, TypeOK, JobTypeOK, Phases, Plans,
                        StorageStatus
    <3>2. CASE Move(a, r, "raised") /\ UNCHANGED plan
      BY <1>30, <3>2 DEF MarkSplitParent, Move, TypeOK, JobTypeOK, Phases
    <3> QED
      BY <1>30, <3>1, <3>2 DEF MarkSplitParent
  <2>3. HistoryTypeOK'
    BY <1>30, BoundAssumption DEF MarkSplitParent, controlVars, cycleVars, Move,
       Fault, NoFault, Return, TypeOK, HistoryTypeOK, Resolutions
  <2>4. ControlTypeOK' /\ CycleTypeOK'
    BY <1>30 DEF MarkSplitParent, controlVars, cycleVars, Move, TypeOK,
       ControlTypeOK, CycleTypeOK
  <2> QED
    BY <2>1, <2>2, <2>3, <2>4 DEF TypeOK
<1>31. ASSUME NEW a \in Actors, NEW r \in Rows, ProviderUnavailable(a, r)
      PROVE  TypeOK'
  BY <1>31, RowAssumption, BoundAssumption DEF ProviderUnavailable, dbVars,
     controlVars, cycleVars, historyVars, Move, TypeOK, DbTypeOK, ControlTypeOK,
     CycleTypeOK, JobTypeOK, HistoryTypeOK, Actors, ConsentStates, LogStatus,
     Outcomes, PCs, PendingWrites, Phases, Plans, Resolutions, StorageStatus
<1>39. ASSUME NEW a \in Actors, NEW r \in Rows, ContextError(a, r)
      PROVE  TypeOK'
  BY <1>39, RowAssumption, BoundAssumption DEF ContextError, dbVars,
     controlVars, cycleVars, Fault, Move, TypeOK, DbTypeOK, ControlTypeOK,
     CycleTypeOK, JobTypeOK, HistoryTypeOK, Actors, ConsentStates, LogStatus,
     Outcomes, PCs, PendingWrites, Phases, Plans, Resolutions, StorageStatus
<1>32. ASSUME NEW a \in Actors, NEW r \in Rows, CloneDuplicate(a, r)
      PROVE  TypeOK'
  BY <1>32, RowAssumption, BoundAssumption DEF CloneDuplicate, controlVars,
     cycleVars, Move, Resolve, TypeOK, DbTypeOK, ControlTypeOK, CycleTypeOK,
     JobTypeOK, HistoryTypeOK, Actors, ConsentStates, LogStatus, Outcomes, PCs,
     PendingWrites, Phases, Plans, Resolutions, StorageStatus
<1>33. ASSUME NEW a \in Actors, NEW r \in Rows, ExtractListing(a, r)
      PROVE  TypeOK'
  <2>1. DbTypeOK'
    <3>1. PICK t \in Tables : CleanOtherRoutes(r, t)
      BY <1>33 DEF ExtractListing
    <3>2. \/ typed' = typed
          \/ typed' = [typed EXCEPT ![r] =
               [u \in Tables |-> IF u = t THEN typed[r][u] ELSE "none"]]
      BY <3>1 DEF CleanOtherRoutes
    <3>3. [u \in Tables |-> IF u = t THEN typed[r][u] ELSE "none"]
             \in [Tables -> {"none", "listing", "stub"}]
      BY DEF TypeOK, DbTypeOK
    <3>4. typed' \in [Rows -> [Tables -> {"none", "listing", "stub"}]]
      BY <3>2, <3>3 DEF TypeOK, DbTypeOK
    <3> QED
      BY <1>33, <3>4 DEF ExtractListing, TypeOK, DbTypeOK
  <2>2. JobTypeOK'
    BY <1>33, BoundAssumption DEF ExtractListing, controlVars, cycleVars, Move,
       Fault, NoFault, CleanOtherRoutes, TypeOK, JobTypeOK, Phases, Plans,
       StorageStatus, Actors
  <2>3. HistoryTypeOK'
    BY <1>33, BoundAssumption DEF ExtractListing, controlVars, cycleVars, Move,
       Fault, NoFault, CleanOtherRoutes, TypeOK, HistoryTypeOK, Resolutions
  <2>4. ControlTypeOK' /\ CycleTypeOK'
    BY <1>33 DEF ExtractListing, controlVars, cycleVars, Move, TypeOK,
       ControlTypeOK, CycleTypeOK
  <2> QED
    BY <2>1, <2>2, <2>3, <2>4 DEF TypeOK
<1>34. ASSUME NEW a \in Actors, NEW r \in Rows, SaveListing(a, r)
      PROVE  TypeOK'
  <2>1. DbTypeOK'
    <3>1. typed' = [typed EXCEPT ![r][plan[a][r]] = "listing"] \/ typed' = typed
      BY <1>34 DEF SaveListing
    <3>2. [typed[r] EXCEPT ![plan[a][r]] = "listing"]
             \in [Tables -> {"none", "listing", "stub"}]
      BY DEF TypeOK, DbTypeOK
    <3>3. typed' \in [Rows -> [Tables -> {"none", "listing", "stub"}]]
      BY <3>1, <3>2 DEF TypeOK, DbTypeOK
    <3> QED
      BY <1>34, <3>3 DEF SaveListing, TypeOK, DbTypeOK
  <2>2. JobTypeOK'
    <3>1. CASE Move(a, r, "saved") /\ plan' = [plan EXCEPT ![a][r] = "stored"]
      BY <1>34, <3>1 DEF SaveListing, Move, TypeOK, JobTypeOK, Phases, Plans, StorageStatus
    <3>2. CASE Return(a, r, "failed")
      BY <1>34, <3>2 DEF SaveListing, Return, Move, TypeOK, JobTypeOK, Phases, Plans,
                        StorageStatus
    <3> QED
      BY <1>34, <3>1, <3>2 DEF SaveListing
  <2>3. HistoryTypeOK'
    <3>1. faults' = faults \/ (faults < MaxFaults /\ faults' = faults + 1)
      BY <1>34 DEF SaveListing, Fault, NoFault
    <3>2. resolved' = [resolved EXCEPT ![r] = @ \cup {"listing"}] \/ resolved' = resolved
      BY <1>34 DEF SaveListing, Resolve
    <3>3. resolved' \in [Rows -> SUBSET Resolutions]
      BY <3>2 DEF TypeOK, HistoryTypeOK, Resolutions
    <3> QED
      BY <1>34, <3>1, <3>3, BoundAssumption DEF SaveListing, TypeOK, HistoryTypeOK
  <2>4. ControlTypeOK' /\ CycleTypeOK'
    BY <1>34 DEF SaveListing, controlVars, cycleVars, Move, TypeOK, ControlTypeOK,
       CycleTypeOK
  <2> QED
    BY <2>1, <2>2, <2>3, <2>4 DEF TypeOK
<1>35. ASSUME NEW a \in Actors, NEW r \in Rows, SaveStub(a, r)
      PROVE  TypeOK'
  <2>1. DbTypeOK'
    <3>1. \/ typed' = [typed EXCEPT ![r] =
               [t \in Tables |-> IF t = StubTable THEN "stub" ELSE "none"]]
          \/ typed' = typed
      BY <1>35 DEF SaveStub
    <3>2. typed' \in [Rows -> [Tables -> {"none", "listing", "stub"}]]
      BY <3>1 DEF TypeOK, DbTypeOK
    <3> QED
      BY <1>35, <3>2 DEF SaveStub, TypeOK, DbTypeOK
  <2>2. JobTypeOK'
    BY <1>35, BoundAssumption DEF SaveStub, controlVars, cycleVars, Move, Resolve,
       Fault, NoFault, TypeOK, JobTypeOK, Phases, Plans, StorageStatus, Actors
  <2>3. HistoryTypeOK'
    BY <1>35, BoundAssumption DEF SaveStub, controlVars, cycleVars, Move, Resolve,
       Fault, NoFault, TypeOK, HistoryTypeOK, Resolutions
  <2>4. ControlTypeOK' /\ CycleTypeOK'
    BY <1>35 DEF SaveStub, controlVars, cycleVars, Move, TypeOK, ControlTypeOK,
       CycleTypeOK
  <2> QED
    BY <2>1, <2>2, <2>3, <2>4 DEF TypeOK
<1>36. ASSUME NEW a \in Actors, NEW r \in Rows, MarkProcessed(a, r)
      PROVE  TypeOK'
  <2>1. DbTypeOK'
    BY <1>36, BoundAssumption DEF MarkProcessed, controlVars, cycleVars, Move,
       Fault, NoFault, TypeOK, DbTypeOK, Outcomes, LogStatus
  <2>2. JobTypeOK'
    BY <1>36, BoundAssumption DEF MarkProcessed, controlVars, cycleVars, Move,
       Fault, NoFault, TypeOK, JobTypeOK, Phases, Plans, StorageStatus, Actors
  <2>3. HistoryTypeOK'
    BY <1>36, BoundAssumption DEF MarkProcessed, controlVars, cycleVars, Move,
       Fault, NoFault, TypeOK, HistoryTypeOK, Resolutions
  <2>4. ControlTypeOK' /\ CycleTypeOK'
    BY <1>36 DEF MarkProcessed, controlVars, cycleVars, Move, TypeOK,
       ControlTypeOK, CycleTypeOK
  <2> QED
    BY <2>1, <2>2, <2>3, <2>4 DEF TypeOK
<1>37. ASSUME NEW d \in Triggers, NEW r \in Rows, TriggerStart(d, r)
      PROVE  TypeOK'
  BY <1>37, RowAssumption, BoundAssumption DEF TriggerStart, dbVars, controlVars,
     cycleVars, historyVars, Move, TypeOK, DbTypeOK, ControlTypeOK, CycleTypeOK,
     JobTypeOK, HistoryTypeOK, Actors, ConsentStates, LogStatus, Outcomes, PCs,
     PendingWrites, Phases, Plans, Resolutions, StorageStatus
<1>38. ASSUME NEW d \in Triggers, NEW r \in Rows, TriggerEnd(d, r)
      PROVE  TypeOK'
  BY <1>38, RowAssumption, BoundAssumption DEF TriggerEnd, dbVars, controlVars,
     cycleVars, historyVars, Move, Release, TypeOK, DbTypeOK, ControlTypeOK,
     CycleTypeOK, JobTypeOK, HistoryTypeOK, Actors, ConsentStates, LogStatus,
     Outcomes, PCs, PendingWrites, Phases, Plans, Resolutions, StorageStatus
<1> QED
  BY <1>1, <1>2, <1>3, <1>4, <1>5, <1>6, <1>7, <1>8, <1>9, <1>10, <1>11, <1>12, <1>13, <1>14, <1>15, <1>16, <1>17, <1>18, <1>19, <1>20, <1>21, <1>22, <1>23, <1>24, <1>25, <1>26, <1>27, <1>28, <1>29, <1>30, <1>31, <1>32, <1>33, <1>34, <1>35, <1>36, <1>37, <1>38, <1>39 DEF
     Next, ControlPlane, ControlWrites, WorkerStep, RowStep, Pipeline, TriggerStep,
     Actors

-----------------------------------------------------------------------------
(* Where workers stand and which attempts they own is preserved: a claim   *)
(* appends an attempt nobody has, and every way out of a row drops it.     *)
LEMMA ClaimStep == ASSUME TypeOK, ClaimInv, [Next]_vars PROVE ClaimInv'
<1>1. CASE UNCHANGED vars
  BY <1>1 DEF vars, controlVars, cycleVars, dbVars, historyVars, jobVars, ClaimInv,
     PlaceInv, AttemptInv
<1>2. ASSUME NEW r \in Rows,
            \/ Arrive(r) \/ ArriveHistory(r)
      PROVE  ClaimInv'
  BY <1>2 DEF Arrive, controlVars, cycleVars, jobVars, historyVars, ArriveHistory,
     Resolve, ClaimInv, PlaceInv, AttemptInv
<1>3. ASSUME NEW c \in Conns, NEW gs \in SUBSET Groups,
            SelectGroups(c, gs)
      PROVE  ClaimInv'
  BY <1>3 DEF SelectGroups, dbVars, cycleVars, jobVars, Operate, SetConsent, ClaimInv,
     PlaceInv, AttemptInv
<1>4. ASSUME NEW c \in Conns, NEW g \in Groups,
            \/ OptOut(c, g) \/ OptIn(c, g)
      PROVE  ClaimInv'
  BY <1>4 DEF OptOut, dbVars, cycleVars, jobVars, Operate, SetConsent, OptIn, ClaimInv,
     PlaceInv, AttemptInv
<1>5. ASSUME NEW c \in Conns,
            \/ StartExtraction(c) \/ PauseExtraction(c)
      PROVE  ClaimInv'
  BY <1>5 DEF StartExtraction, dbVars, cycleVars, jobVars, Operate,
     PauseExtraction, ClaimInv, PlaceInv, AttemptInv
<1>6. ASSUME NEW p \in pending,
            \/ ConfirmSelection(p) \/ RewriteQueuedRows(p)
      PROVE  ClaimInv'
  BY <1>6 DEF ConfirmSelection, dbVars, cycleVars, jobVars, Fault, NoFault,
     RewriteQueuedRows, ClaimInv, PlaceInv, AttemptInv
<1>7. ASSUME NEW w \in Workers, BeginCycle(w)
      PROVE  ClaimInv'
  <2>1. PlaceInv'
    BY <1>7, ProcessAssumption DEF BeginCycle, dbVars, controlVars, jobVars, GoTo,
       Fault, NoFault, ClaimInv, PlaceInv, Actors, TypeOK, CycleTypeOK, JobTypeOK
  <2>2. AttemptInv'
    BY <1>7 DEF BeginCycle, dbVars, controlVars, jobVars, GoTo, Fault, NoFault,
       ClaimInv, AttemptInv
  <2> QED
    BY <2>1, <2>2 DEF ClaimInv
<1>8. ASSUME NEW w \in Workers, ReenableRead(w)
      PROVE  ClaimInv'
  <2>1. PlaceInv'
    BY <1>8, ProcessAssumption DEF ReenableRead, dbVars, controlVars, jobVars,
       GoTo, Fault, NoFault, ClaimInv, PlaceInv, Actors, TypeOK, CycleTypeOK, JobTypeOK
  <2>2. AttemptInv'
    BY <1>8 DEF ReenableRead, dbVars, controlVars, jobVars, GoTo, Fault, NoFault,
       ClaimInv, AttemptInv
  <2> QED
    BY <2>1, <2>2 DEF ClaimInv
<1>9. ASSUME NEW w \in Workers, ReenableWrite(w)
      PROVE  ClaimInv'
  <2>1. PlaceInv'
    BY <1>9, ProcessAssumption DEF ReenableWrite, controlVars, jobVars, GoTo,
       Fault, NoFault, ClaimInv, PlaceInv, Actors, TypeOK, CycleTypeOK, JobTypeOK
  <2>2. AttemptInv'
    BY <1>9 DEF ReenableWrite, controlVars, jobVars, GoTo, Fault, NoFault, ClaimInv,
       AttemptInv
  <2> QED
    BY <2>1, <2>2 DEF ClaimInv
<1>10. ASSUME NEW w \in Workers, Fetch(w)
      PROVE  ClaimInv'
  <2>1. PlaceInv'
    BY <1>10, ProcessAssumption DEF Fetch, dbVars, controlVars, GoTo, Fault,
       NoFault, ClaimInv, PlaceInv, Actors, TypeOK, CycleTypeOK, JobTypeOK
  <2>2. AttemptInv'
    BY <1>10, ProcessAssumption DEF Fetch, dbVars, controlVars, GoTo, Fault,
       NoFault, ClaimInv, AttemptInv, Actors, TypeOK, DbTypeOK, JobTypeOK, InFlight,
       PlaceInv, Filtered
  <2> QED
    BY <2>1, <2>2 DEF ClaimInv
<1>11. ASSUME NEW w \in Workers, Filter(w)
      PROVE  ClaimInv'
  <2>1. PlaceInv'
    BY <1>11, ProcessAssumption DEF Filter, dbVars, controlVars, GoTo, Fault,
       NoFault, ClaimInv, PlaceInv, Actors, TypeOK, CycleTypeOK, JobTypeOK
  <2>2. AttemptInv'
    BY <1>11, ProcessAssumption DEF Filter, dbVars, controlVars, GoTo, Fault,
       NoFault, ClaimInv, AttemptInv, Actors, TypeOK, DbTypeOK, JobTypeOK, InFlight,
       PlaceInv, Filtered
  <2> QED
    BY <2>1, <2>2 DEF ClaimInv
<1>12. ASSUME NEW w \in Workers, EndCycle(w)
      PROVE  ClaimInv'
  <2>1. PlaceInv'
    BY <1>12, ProcessAssumption DEF EndCycle, dbVars, controlVars, jobVars,
       historyVars, GoTo, ClaimInv, PlaceInv, Actors, TypeOK, CycleTypeOK, JobTypeOK
  <2>2. AttemptInv'
    BY <1>12 DEF EndCycle, dbVars, controlVars, jobVars, historyVars, GoTo, ClaimInv,
       AttemptInv
  <2> QED
    BY <2>1, <2>2 DEF ClaimInv
<1>13. ASSUME NEW w \in Workers, Crash(w)
      PROVE  ClaimInv'
  <2>1. PlaceInv'
    BY <1>13, ProcessAssumption DEF Crash, dbVars, controlVars, GoTo, ClaimInv,
       PlaceInv, Actors, TypeOK, CycleTypeOK, JobTypeOK
  <2>2. AttemptInv'
    BY <1>13, ProcessAssumption DEF Crash, dbVars, controlVars, GoTo, ClaimInv,
       AttemptInv, Actors, TypeOK, DbTypeOK, JobTypeOK, InFlight, PlaceInv, Filtered
  <2> QED
    BY <2>1, <2>2 DEF ClaimInv
<1>14. ASSUME NEW w \in Workers, NEW r \in Rows, Suppress(w, r)
      PROVE  ClaimInv'
  <2>1. PlaceInv'
    BY <1>14, ProcessAssumption DEF Suppress, controlVars, cycleVars, Move, Fault,
       NoFault, ClaimInv, PlaceInv, Actors, TypeOK, CycleTypeOK, JobTypeOK
  <2>2. AttemptInv'
    BY <1>14, ProcessAssumption DEF Suppress, controlVars, cycleVars, Move, Fault,
       NoFault, ClaimInv, AttemptInv, Actors, TypeOK, DbTypeOK, JobTypeOK, InFlight,
       PlaceInv, Filtered
  <2> QED
    BY <2>1, <2>2 DEF ClaimInv
<1>15. ASSUME NEW w \in Workers, NEW r \in Rows, DeadLetter(w, r)
      PROVE  ClaimInv'
  <2>1. PlaceInv'
    BY <1>15, ProcessAssumption DEF DeadLetter, controlVars, cycleVars, Move,
       Resolve, Fault, NoFault, ClaimInv, PlaceInv, Actors, TypeOK, CycleTypeOK,
       JobTypeOK
  <2>2. AttemptInv'
    BY <1>15, ProcessAssumption DEF DeadLetter, controlVars, cycleVars, Move,
       Resolve, Fault, NoFault, ClaimInv, AttemptInv, Actors, TypeOK, DbTypeOK,
       JobTypeOK, InFlight, PlaceInv, Filtered
  <2> QED
    BY <2>1, <2>2 DEF ClaimInv
<1>16. ASSUME NEW w \in Workers, NEW r \in Rows, Claim(w, r)
      PROVE  ClaimInv'
  <2>1. PlaceInv'
    BY <1>16, ProcessAssumption DEF Claim, controlVars, cycleVars, historyVars,
       Move, ClaimInv, PlaceInv, Actors, TypeOK, CycleTypeOK, JobTypeOK
  <2>2. AttemptInv'
    BY <1>16, ProcessAssumption DEF Claim, controlVars, cycleVars, historyVars,
       Move, ClaimInv, AttemptInv, Actors, TypeOK, DbTypeOK, JobTypeOK, InFlight,
       PlaceInv, Filtered
  <2> QED
    BY <2>1, <2>2 DEF ClaimInv
<1>17. ASSUME NEW w \in Workers, NEW r \in Rows, ClaimStale(w, r)
      PROVE  ClaimInv'
  <2>1. PlaceInv'
    BY <1>17, ProcessAssumption DEF ClaimStale, dbVars, controlVars, cycleVars,
       historyVars, Move, ClaimInv, PlaceInv, Actors, TypeOK, CycleTypeOK, JobTypeOK
  <2>2. AttemptInv'
    BY <1>17, ProcessAssumption DEF ClaimStale, dbVars, controlVars, cycleVars,
       historyVars, Move, ClaimInv, AttemptInv, Actors, TypeOK, DbTypeOK, JobTypeOK,
       InFlight, PlaceInv, Filtered
  <2> QED
    BY <2>1, <2>2 DEF ClaimInv
<1>18. ASSUME NEW w \in Workers, NEW r \in Rows, ClaimError(w, r)
      PROVE  ClaimInv'
  <2>1. PlaceInv'
    BY <1>18, ProcessAssumption DEF ClaimError, dbVars, controlVars, cycleVars,
       Move, Fault, ClaimInv, PlaceInv, Actors, TypeOK, CycleTypeOK, JobTypeOK
  <2>2. AttemptInv'
    BY <1>18, ProcessAssumption DEF ClaimError, dbVars, controlVars, cycleVars,
       Move, Fault, ClaimInv, AttemptInv, Actors, TypeOK, DbTypeOK, JobTypeOK,
       InFlight, PlaceInv, Filtered
  <2> QED
    BY <2>1, <2>2 DEF ClaimInv
<1>19. ASSUME NEW w \in Workers, NEW r \in Rows, Finish(w, r)
      PROVE  ClaimInv'
  <2>1. PlaceInv'
    <3>1. job'[w][r] \in {"none", "raised"} /\ job[w][r] = "returned"
      BY <1>19 DEF Finish, Release, Move, TypeOK, JobTypeOK, Actors
    <3>2. \A v \in Workers, q \in Rows : v # w \/ q # r => job'[v][q] = job[v][q]
      BY <1>19 DEF Finish, Release, Move, TypeOK, JobTypeOK, Actors
    <3> QED
      BY <1>19, <3>1, <3>2 DEF Finish, ClaimInv, PlaceInv, cycleVars
  <2>2. AttemptInv'
    <3>1. CASE /\ SetAttempt(r, att[w][r], FinishStatus(plan[w][r]))
               /\ retry' = [retry EXCEPT ![w][r] = 0]
               /\ Release(w, r)
      BY <1>19, <3>1, ProcessAssumption, BoundAssumption
      DEF SetAttempt, Release, Move, ClaimInv, TypeOK, DbTypeOK, JobTypeOK, AttemptInv,
          InFlight, Actors
    <3>2. CASE Move(w, r, "raised") /\ UNCHANGED <<log, retry, att>>
      BY <1>19, <3>2, ProcessAssumption
      DEF Finish, Move, ClaimInv, TypeOK, JobTypeOK, AttemptInv, InFlight, Actors
    <3> QED
      BY <1>19, <3>1, <3>2 DEF Finish
  <2> QED
    BY <2>1, <2>2 DEF ClaimInv
<1>20. ASSUME NEW w \in Workers, NEW r \in Rows, RaiseUnsaved(w, r)
      PROVE  ClaimInv'
  <2>1. PlaceInv'
    BY <1>20, ProcessAssumption DEF RaiseUnsaved, dbVars, controlVars, cycleVars,
       historyVars, Move, ClaimInv, PlaceInv, Actors, TypeOK, CycleTypeOK, JobTypeOK
  <2>2. AttemptInv'
    BY <1>20, ProcessAssumption DEF RaiseUnsaved, dbVars, controlVars, cycleVars,
       historyVars, Move, ClaimInv, AttemptInv, Actors, TypeOK, DbTypeOK, JobTypeOK,
       InFlight, PlaceInv, Filtered
  <2> QED
    BY <2>1, <2>2 DEF ClaimInv
<1>21. ASSUME NEW w \in Workers, NEW r \in Rows, FinishFailed(w, r)
      PROVE  ClaimInv'
  <2>1. PlaceInv'
    BY <1>21, ProcessAssumption DEF FinishFailed, controlVars, cycleVars, Move,
       Fault, NoFault, Release, SetAttempt, ClaimInv, PlaceInv, Actors, TypeOK,
       CycleTypeOK, JobTypeOK
  <2>2. AttemptInv'
    BY <1>21, ProcessAssumption DEF FinishFailed, controlVars, cycleVars, Move,
       Fault, NoFault, Release, SetAttempt, ClaimInv, AttemptInv, Actors, TypeOK,
       DbTypeOK, JobTypeOK, InFlight, PlaceInv, Filtered
  <2> QED
    BY <2>1, <2>2 DEF ClaimInv
<1>22. ASSUME NEW a \in Actors, NEW r \in Rows, SkipExcluded(a, r)
      PROVE  ClaimInv'
  <2>1. PlaceInv'
    BY <1>22, ProcessAssumption DEF SkipExcluded, controlVars, cycleVars, Move,
       Resolve, Return, ClaimInv, PlaceInv, Actors, TypeOK, CycleTypeOK, JobTypeOK
  <2>2. AttemptInv'
    BY <1>22, ProcessAssumption DEF SkipExcluded, controlVars, cycleVars, Move,
       Resolve, Return, ClaimInv, AttemptInv, Actors, TypeOK, DbTypeOK, JobTypeOK,
       InFlight, PlaceInv, Filtered
  <2> QED
    BY <2>1, <2>2 DEF ClaimInv
<1>23. ASSUME NEW a \in Actors, NEW r \in Rows, RecordRepeat(a, r)
      PROVE  ClaimInv'
  <2>1. PlaceInv'
    BY <1>23, ProcessAssumption DEF RecordRepeat, controlVars, cycleVars, Move,
       Resolve, Return, ClaimInv, PlaceInv, Actors, TypeOK, CycleTypeOK, JobTypeOK
  <2>2. AttemptInv'
    BY <1>23, ProcessAssumption DEF RecordRepeat, controlVars, cycleVars, Move,
       Resolve, Return, ClaimInv, AttemptInv, Actors, TypeOK, DbTypeOK, JobTypeOK,
       InFlight, PlaceInv, Filtered
  <2> QED
    BY <2>1, <2>2 DEF ClaimInv
<1>24. ASSUME NEW a \in Actors, NEW r \in Rows, PassGates(a, r)
      PROVE  ClaimInv'
  <2>1. PlaceInv'
    BY <1>24, ProcessAssumption DEF PassGates, controlVars, cycleVars,
       Move, Fault, NoFault, ClaimInv, PlaceInv, Actors, TypeOK, CycleTypeOK, JobTypeOK
  <2>2. AttemptInv'
    BY <1>24, ProcessAssumption DEF PassGates, controlVars, cycleVars,
       Move, Fault, NoFault, ClaimInv, AttemptInv, Actors, TypeOK, DbTypeOK, JobTypeOK,
       InFlight, PlaceInv, Filtered
  <2> QED
    BY <2>1, <2>2 DEF ClaimInv
<1>25. ASSUME NEW a \in Actors, NEW r \in Rows, Materialize(a, r)
      PROVE  ClaimInv'
  <2>1. PlaceInv'
    BY <1>25, ProcessAssumption DEF Materialize, controlVars, cycleVars, Move,
       Fault, NoFault, ClaimInv, PlaceInv, Actors, TypeOK, CycleTypeOK, JobTypeOK
  <2>2. AttemptInv'
    BY <1>25, ProcessAssumption DEF Materialize, controlVars, cycleVars, Move,
       Fault, NoFault, ClaimInv, AttemptInv, Actors, TypeOK, DbTypeOK, JobTypeOK,
       InFlight, PlaceInv, Filtered
  <2> QED
    BY <2>1, <2>2 DEF ClaimInv
<1>26. ASSUME NEW a \in Actors, NEW r \in Rows, MarkSplitParent(a, r)
      PROVE  ClaimInv'
  <2>1. PlaceInv'
    <3>1. /\ job[a][r] = "split" /\ UNCHANGED <<cycleVars, att>>
          /\ Move(a, r, "returned") \/ Move(a, r, "raised")
      BY <1>26 DEF MarkSplitParent, Return
    <3> QED
      BY <3>1, ProcessAssumption DEF cycleVars, Move, ClaimInv, PlaceInv, Actors,
         TypeOK, CycleTypeOK, JobTypeOK
  <2>2. AttemptInv'
    <3>1. job[a][r] = "split" /\ UNCHANGED <<log, att, retry>>
      BY <1>26 DEF MarkSplitParent
    <3>2. CASE Move(a, r, "returned")
      BY <3>1, <3>2, ProcessAssumption
      DEF Move, ClaimInv, TypeOK, JobTypeOK, AttemptInv, InFlight, Actors
    <3>3. CASE Move(a, r, "raised")
      BY <3>1, <3>3, ProcessAssumption
      DEF Move, ClaimInv, TypeOK, JobTypeOK, AttemptInv, InFlight, Actors
    <3> QED
      BY <1>26, <3>2, <3>3 DEF MarkSplitParent, Return
  <2> QED
    BY <2>1, <2>2 DEF ClaimInv
<1>27. ASSUME NEW a \in Actors, NEW r \in Rows, ProviderUnavailable(a, r)
      PROVE  ClaimInv'
  <2>1. PlaceInv'
    BY <1>27, ProcessAssumption DEF ProviderUnavailable, dbVars, controlVars,
       cycleVars, historyVars, Move, ClaimInv, PlaceInv, Actors, TypeOK, CycleTypeOK,
       JobTypeOK
  <2>2. AttemptInv'
    BY <1>27, ProcessAssumption DEF ProviderUnavailable, dbVars, controlVars,
       cycleVars, historyVars, Move, ClaimInv, AttemptInv, Actors, TypeOK, DbTypeOK,
       JobTypeOK, InFlight, PlaceInv, Filtered
  <2> QED
    BY <2>1, <2>2 DEF ClaimInv
<1>35. ASSUME NEW a \in Actors, NEW r \in Rows, ContextError(a, r)
      PROVE  ClaimInv'
  <2>1. PlaceInv'
    BY <1>35, ProcessAssumption DEF ContextError, dbVars, controlVars,
       cycleVars, Fault, Move, ClaimInv, PlaceInv, Actors, TypeOK, CycleTypeOK,
       JobTypeOK
  <2>2. AttemptInv'
    BY <1>35, ProcessAssumption DEF ContextError, dbVars, controlVars,
       cycleVars, Fault, Move, ClaimInv, AttemptInv, Actors, TypeOK, DbTypeOK,
       JobTypeOK, InFlight, PlaceInv, Filtered
  <2> QED
    BY <2>1, <2>2 DEF ClaimInv
<1>28. ASSUME NEW a \in Actors, NEW r \in Rows, CloneDuplicate(a, r)
      PROVE  ClaimInv'
  <2>1. PlaceInv'
    BY <1>28, ProcessAssumption DEF CloneDuplicate, controlVars, cycleVars, Move,
       Resolve, ClaimInv, PlaceInv, Actors, TypeOK, CycleTypeOK, JobTypeOK
  <2>2. AttemptInv'
    BY <1>28, ProcessAssumption DEF CloneDuplicate, controlVars, cycleVars, Move,
       Resolve, ClaimInv, AttemptInv, Actors, TypeOK, DbTypeOK, JobTypeOK, InFlight,
       PlaceInv, Filtered
  <2> QED
    BY <2>1, <2>2 DEF ClaimInv
<1>29. ASSUME NEW a \in Actors, NEW r \in Rows, ExtractListing(a, r)
      PROVE  ClaimInv'
  <2>1. PlaceInv'
    BY <1>29, ProcessAssumption DEF ExtractListing, controlVars, cycleVars, Move,
       Fault, NoFault, CleanOtherRoutes, ClaimInv, PlaceInv, Actors, TypeOK,
       CycleTypeOK, JobTypeOK
  <2>2. AttemptInv'
    BY <1>29, ProcessAssumption DEF ExtractListing, controlVars, cycleVars, Move,
       Fault, NoFault, CleanOtherRoutes, ClaimInv, AttemptInv, Actors, TypeOK,
       DbTypeOK, JobTypeOK, InFlight, PlaceInv, Filtered
  <2> QED
    BY <2>1, <2>2 DEF ClaimInv
<1>30. ASSUME NEW a \in Actors, NEW r \in Rows, SaveListing(a, r)
      PROVE  ClaimInv'
  <2>1. PlaceInv'
    BY <1>30, ProcessAssumption DEF SaveListing, controlVars, cycleVars, Move,
       Resolve, Fault, NoFault, Return, ClaimInv, PlaceInv, Actors, TypeOK,
       CycleTypeOK, JobTypeOK
  <2>2. AttemptInv'
    <3>1. job[a][r] = "routed" /\ UNCHANGED <<log, att, retry>>
      BY <1>30 DEF SaveListing
    <3>2. CASE Move(a, r, "returned")
      BY <3>1, <3>2, ProcessAssumption
      DEF Move, ClaimInv, TypeOK, JobTypeOK, AttemptInv, InFlight, Actors
    <3>3. CASE Move(a, r, "saved")
      BY <3>1, <3>3, ProcessAssumption
      DEF Move, ClaimInv, TypeOK, JobTypeOK, AttemptInv, InFlight, Actors
    <3> QED
      BY <1>30, <3>2, <3>3 DEF SaveListing, Return
  <2> QED
    BY <2>1, <2>2 DEF ClaimInv
<1>31. ASSUME NEW a \in Actors, NEW r \in Rows, SaveStub(a, r)
      PROVE  ClaimInv'
  <2>1. PlaceInv'
    BY <1>31, ProcessAssumption DEF SaveStub, controlVars, cycleVars, Move,
       Resolve, Fault, NoFault, ClaimInv, PlaceInv, Actors, TypeOK, CycleTypeOK,
       JobTypeOK
  <2>2. AttemptInv'
    BY <1>31, ProcessAssumption DEF SaveStub, controlVars, cycleVars, Move,
       Resolve, Fault, NoFault, ClaimInv, AttemptInv, Actors, TypeOK, DbTypeOK,
       JobTypeOK, InFlight, PlaceInv, Filtered
  <2> QED
    BY <2>1, <2>2 DEF ClaimInv
<1>32. ASSUME NEW a \in Actors, NEW r \in Rows, MarkProcessed(a, r)
      PROVE  ClaimInv'
  <2>1. PlaceInv'
    BY <1>32, ProcessAssumption DEF MarkProcessed, controlVars, cycleVars, Move,
       Fault, NoFault, ClaimInv, PlaceInv, Actors, TypeOK, CycleTypeOK, JobTypeOK
  <2>2. AttemptInv'
    BY <1>32, ProcessAssumption DEF MarkProcessed, controlVars, cycleVars, Move,
       Fault, NoFault, ClaimInv, AttemptInv, Actors, TypeOK, DbTypeOK, JobTypeOK,
       InFlight, PlaceInv, Filtered
  <2> QED
    BY <2>1, <2>2 DEF ClaimInv
<1>33. ASSUME NEW d \in Triggers, NEW r \in Rows, TriggerStart(d, r)
      PROVE  ClaimInv'
  <2>1. PlaceInv'
    BY <1>33, ProcessAssumption DEF TriggerStart, dbVars, controlVars, cycleVars,
       historyVars, Move, ClaimInv, PlaceInv, Actors, TypeOK, CycleTypeOK, JobTypeOK
  <2>2. AttemptInv'
    BY <1>33, ProcessAssumption DEF TriggerStart, dbVars, controlVars, cycleVars,
       historyVars, Move, ClaimInv, AttemptInv, Actors, TypeOK, DbTypeOK, JobTypeOK,
       InFlight, PlaceInv, Filtered
  <2> QED
    BY <2>1, <2>2 DEF ClaimInv
<1>34. ASSUME NEW d \in Triggers, NEW r \in Rows, TriggerEnd(d, r)
      PROVE  ClaimInv'
  <2>1. PlaceInv'
    BY <1>34, ProcessAssumption DEF TriggerEnd, dbVars, controlVars, cycleVars,
       historyVars, Move, Release, ClaimInv, PlaceInv, Actors, TypeOK, CycleTypeOK,
       JobTypeOK
  <2>2. AttemptInv'
    BY <1>34, ProcessAssumption DEF TriggerEnd, dbVars, controlVars, cycleVars,
       historyVars, Move, Release, ClaimInv, AttemptInv, Actors, TypeOK, DbTypeOK,
       JobTypeOK, InFlight, PlaceInv, Filtered
  <2> QED
    BY <2>1, <2>2 DEF ClaimInv
<1> QED
  BY <1>1, <1>2, <1>3, <1>4, <1>5, <1>6, <1>7, <1>8, <1>9, <1>10, <1>11, <1>12, <1>13, <1>14, <1>15, <1>16, <1>17, <1>18, <1>19, <1>20, <1>21, <1>22, <1>23, <1>24, <1>25, <1>26, <1>27, <1>28, <1>29, <1>30, <1>31, <1>32, <1>33, <1>34, <1>35 DEF
     Next, ControlPlane, ControlWrites, WorkerStep, RowStep, Pipeline, TriggerStep,
     Actors

-----------------------------------------------------------------------------
(* Evidence comes before consumption, in every interleaving: what one      *)
(* actor holds stays true whatever the others write to the same row.       *)
LEMMA EvidenceStep == ASSUME TypeOK, EvidenceInv, [Next]_vars PROVE EvidenceInv'
<1>1. CASE UNCHANGED vars
  BY <1>1 DEF vars, controlVars, cycleVars, dbVars, historyVars, jobVars, EvidenceInv,
     HandInv, ConsumedOnlyWhenResolved, SplitIsComplete, HistoryInv
<1>2. ASSUME NEW c \in Conns, NEW gs \in SUBSET Groups,
            SelectGroups(c, gs)
      PROVE  EvidenceInv'
  BY <1>2 DEF SelectGroups, dbVars, cycleVars, jobVars, Operate, SetConsent, EvidenceInv,
     HandInv, ConsumedOnlyWhenResolved, SplitIsComplete, HistoryInv
<1>3. ASSUME NEW c \in Conns, NEW g \in Groups,
            \/ OptOut(c, g) \/ OptIn(c, g)
      PROVE  EvidenceInv'
  BY <1>3 DEF OptOut, dbVars, cycleVars, jobVars, Operate, SetConsent, OptIn, EvidenceInv,
     HandInv, ConsumedOnlyWhenResolved, SplitIsComplete, HistoryInv
<1>4. ASSUME NEW c \in Conns,
            \/ StartExtraction(c) \/ PauseExtraction(c)
      PROVE  EvidenceInv'
  BY <1>4 DEF StartExtraction, dbVars, cycleVars, jobVars, Operate,
     PauseExtraction, EvidenceInv, HandInv, ConsumedOnlyWhenResolved, SplitIsComplete,
     HistoryInv
<1>5. ASSUME NEW p \in pending,
            \/ ConfirmSelection(p) \/ RewriteQueuedRows(p)
      PROVE  EvidenceInv'
  BY <1>5 DEF ConfirmSelection, dbVars, cycleVars, jobVars, Fault, NoFault,
     RewriteQueuedRows, EvidenceInv, HandInv, ConsumedOnlyWhenResolved, SplitIsComplete,
     HistoryInv
<1>6. ASSUME NEW w \in Workers,
            \/ BeginCycle(w) \/ ReenableRead(w) \/ ReenableWrite(w) \/ EndCycle(w)
      PROVE  EvidenceInv'
  BY <1>6 DEF BeginCycle, dbVars, controlVars, jobVars, GoTo, Fault, NoFault,
     ReenableRead, ReenableWrite, EndCycle, historyVars, EvidenceInv, HandInv,
     ConsumedOnlyWhenResolved, SplitIsComplete, HistoryInv
<1>7. ASSUME NEW r \in Rows, Arrive(r)
      PROVE  EvidenceInv'
  <2>1. HandInv'
    BY <1>7 DEF Arrive, controlVars, cycleVars, jobVars, historyVars, EvidenceInv,
       HandInv, TypeOK, DbTypeOK, JobTypeOK, HistoryTypeOK, Actors, HistoryInv
  <2>2. SplitIsComplete'
    BY <1>7, RowAssumption DEF Arrive, controlVars, cycleVars, jobVars,
       historyVars, EvidenceInv, SplitIsComplete, TypeOK, DbTypeOK, HistoryTypeOK
  <2>3. HistoryInv'
    BY <1>7 DEF Arrive, controlVars, cycleVars, jobVars, historyVars, EvidenceInv,
       HistoryInv, TypeOK, DbTypeOK, HistoryTypeOK, HandInv, Actors
  <2>4. ConsumedOnlyWhenResolved'
    BY <1>7 DEF Arrive, controlVars, cycleVars, jobVars, historyVars, EvidenceInv,
       ConsumedOnlyWhenResolved
  <2> QED
    BY <2>1, <2>2, <2>3, <2>4 DEF EvidenceInv
<1>8. ASSUME NEW r \in Rows, ArriveHistory(r)
      PROVE  EvidenceInv'
  <2>1. HandInv'
    BY <1>8 DEF ArriveHistory, controlVars, cycleVars, jobVars, Resolve, EvidenceInv,
       HandInv, TypeOK, DbTypeOK, JobTypeOK, HistoryTypeOK, Actors, HistoryInv
  <2>2. ConsumedOnlyWhenResolved'
    BY <1>8 DEF ArriveHistory, controlVars, cycleVars, jobVars, Resolve, EvidenceInv,
       ConsumedOnlyWhenResolved, TypeOK, DbTypeOK, HistoryTypeOK, HandInv, Actors
  <2>3. SplitIsComplete'
    BY <1>8, RowAssumption DEF ArriveHistory, controlVars, cycleVars, jobVars,
       Resolve, EvidenceInv, SplitIsComplete, TypeOK, DbTypeOK, HistoryTypeOK
  <2>4. HistoryInv'
    BY <1>8 DEF ArriveHistory, controlVars, cycleVars, jobVars, Resolve, EvidenceInv,
       HistoryInv, TypeOK, DbTypeOK, HistoryTypeOK, HandInv, Actors
  <2> QED
    BY <2>1, <2>2, <2>3, <2>4 DEF EvidenceInv
<1>9. ASSUME NEW w \in Workers, Fetch(w)
      PROVE  EvidenceInv'
  <2>1. HandInv'
    <3>1. PICK answered \in SUBSET Lanes :
            job' = [job EXCEPT ![w] = [q \in Rows |->
              IF q \in UNION {FirstK(Eligible(w, l), BatchSize) : l \in answered}
              THEN "fetched" ELSE "none"]]
      BY <1>9 DEF Fetch
    <3>2. \A q \in Rows : job'[w][q] # "none" =>
            job'[w][q] = "fetched" /\ exists[q] /\ ~processed[q]
      BY <3>1 DEF FirstK, Eligible, TypeOK, JobTypeOK, Actors
    <3>3. \A a \in Actors \ {w} : job'[a] = job[a]
      BY <3>1 DEF TypeOK, JobTypeOK
    <3> QED
      BY <1>9, <3>2, <3>3 DEF Fetch, dbVars, EvidenceInv, HandInv, HistoryInv
  <2>2. ConsumedOnlyWhenResolved' /\ SplitIsComplete' /\ HistoryInv'
    BY <1>9 DEF Fetch, dbVars, controlVars, GoTo, Fault, NoFault, EvidenceInv,
       ConsumedOnlyWhenResolved, SplitIsComplete, HistoryInv
  <2> QED
    BY <2>1, <2>2 DEF EvidenceInv
<1>10. ASSUME NEW w \in Workers, Filter(w)
      PROVE  EvidenceInv'
  <2>1. HandInv'
    BY <1>10 DEF Filter, dbVars, controlVars, GoTo, Fault, NoFault, EvidenceInv, HandInv,
       TypeOK, DbTypeOK, JobTypeOK, HistoryTypeOK, Actors, HistoryInv
  <2>2. ConsumedOnlyWhenResolved' /\ SplitIsComplete' /\ HistoryInv'
    BY <1>10 DEF Filter, dbVars, controlVars, GoTo, Fault, NoFault, EvidenceInv,
       ConsumedOnlyWhenResolved, SplitIsComplete, HistoryInv
  <2> QED
    BY <2>1, <2>2 DEF EvidenceInv
<1>11. ASSUME NEW w \in Workers, Crash(w)
      PROVE  EvidenceInv'
  <2>1. HandInv'
    BY <1>11 DEF Crash, dbVars, controlVars, GoTo, EvidenceInv, HandInv, TypeOK, DbTypeOK,
       JobTypeOK, HistoryTypeOK, Actors, HistoryInv
  <2>2. ConsumedOnlyWhenResolved' /\ SplitIsComplete' /\ HistoryInv'
    BY <1>11 DEF Crash, dbVars, controlVars, GoTo, EvidenceInv, ConsumedOnlyWhenResolved,
       SplitIsComplete, HistoryInv
  <2> QED
    BY <2>1, <2>2 DEF EvidenceInv
<1>12. ASSUME NEW w \in Workers, NEW r \in Rows, Suppress(w, r)
      PROVE  EvidenceInv'
  <2>1. HandInv'
    BY <1>12 DEF Suppress, controlVars, cycleVars, Move, Fault, NoFault, EvidenceInv,
       HandInv, TypeOK, DbTypeOK, JobTypeOK, HistoryTypeOK, Actors, HistoryInv
  <2>2. ConsumedOnlyWhenResolved' /\ SplitIsComplete' /\ HistoryInv'
    BY <1>12 DEF Suppress, controlVars, cycleVars, Move, Fault, NoFault, EvidenceInv,
       ConsumedOnlyWhenResolved, SplitIsComplete, HistoryInv
  <2> QED
    BY <2>1, <2>2 DEF EvidenceInv
<1>13. ASSUME NEW w \in Workers, NEW r \in Rows, DeadLetter(w, r)
      PROVE  EvidenceInv'
  <2>1. HandInv'
    BY <1>13 DEF DeadLetter, controlVars, cycleVars, Move, Resolve, Fault, NoFault,
       EvidenceInv, HandInv, TypeOK, DbTypeOK, JobTypeOK, HistoryTypeOK, Actors, HistoryInv
  <2>2. ConsumedOnlyWhenResolved'
    <3>1. CASE UNCHANGED <<processed, resolved>>
      BY <3>1 DEF EvidenceInv, ConsumedOnlyWhenResolved
    <3>2. CASE /\ processed' = [processed EXCEPT ![r] = TRUE]
               /\ Resolve(r, "dead_letter")
      BY <3>2 DEF Resolve, EvidenceInv, ConsumedOnlyWhenResolved, TypeOK, DbTypeOK, HistoryTypeOK
    <3> QED
      BY <1>13, <3>1, <3>2 DEF DeadLetter
  <2>3. SplitIsComplete'
    <3>1. resolved' = resolved \/ Resolve(r, "dead_letter")
      BY <1>13 DEF DeadLetter
    <3>2. \A q \in Rows : "children" \in resolved'[q] => "children" \in resolved[q]
      BY <3>1 DEF Resolve, TypeOK, HistoryTypeOK
    <3> QED
      BY <1>13, <3>2 DEF DeadLetter, EvidenceInv, SplitIsComplete
  <2>4. HistoryInv'
    BY <1>13 DEF DeadLetter, controlVars, cycleVars, Move, Resolve, Fault, NoFault,
       EvidenceInv, HistoryInv, TypeOK, DbTypeOK, HistoryTypeOK, HandInv, Actors
  <2> QED
    BY <2>1, <2>2, <2>3, <2>4 DEF EvidenceInv
<1>14. ASSUME NEW w \in Workers, NEW r \in Rows, Claim(w, r)
      PROVE  EvidenceInv'
  <2>1. HandInv'
    BY <1>14 DEF Claim, controlVars, cycleVars, historyVars, Move, EvidenceInv, HandInv,
       TypeOK, DbTypeOK, JobTypeOK, HistoryTypeOK, Actors, HistoryInv
  <2>2. HistoryInv'
    BY <1>14 DEF Claim, controlVars, cycleVars, historyVars, Move, EvidenceInv,
       HistoryInv, TypeOK, DbTypeOK, HistoryTypeOK, HandInv, Actors
  <2>3. ConsumedOnlyWhenResolved' /\ SplitIsComplete'
    BY <1>14 DEF Claim, controlVars, cycleVars, historyVars, Move, EvidenceInv,
       ConsumedOnlyWhenResolved, SplitIsComplete
  <2> QED
    BY <2>1, <2>2, <2>3 DEF EvidenceInv
<1>15. ASSUME NEW w \in Workers, NEW r \in Rows, ClaimStale(w, r)
      PROVE  EvidenceInv'
  <2>1. HandInv'
    BY <1>15 DEF ClaimStale, dbVars, controlVars, cycleVars, historyVars, Move,
       EvidenceInv, HandInv, TypeOK, DbTypeOK, JobTypeOK, HistoryTypeOK, Actors, HistoryInv
  <2>2. ConsumedOnlyWhenResolved' /\ SplitIsComplete' /\ HistoryInv'
    BY <1>15 DEF ClaimStale, dbVars, controlVars, cycleVars, historyVars, Move,
       EvidenceInv, ConsumedOnlyWhenResolved, SplitIsComplete, HistoryInv
  <2> QED
    BY <2>1, <2>2 DEF EvidenceInv
<1>16. ASSUME NEW w \in Workers, NEW r \in Rows, ClaimError(w, r)
      PROVE  EvidenceInv'
  <2>1. HandInv'
    BY <1>16 DEF ClaimError, dbVars, controlVars, cycleVars, Move, Fault, EvidenceInv,
       HandInv, TypeOK, DbTypeOK, JobTypeOK, HistoryTypeOK, Actors, HistoryInv
  <2>2. ConsumedOnlyWhenResolved' /\ SplitIsComplete' /\ HistoryInv'
    BY <1>16 DEF ClaimError, dbVars, controlVars, cycleVars, Move, Fault, EvidenceInv,
       ConsumedOnlyWhenResolved, SplitIsComplete, HistoryInv
  <2> QED
    BY <2>1, <2>2 DEF EvidenceInv
<1>17. ASSUME NEW w \in Workers, NEW r \in Rows, Finish(w, r)
      PROVE  EvidenceInv'
  <2>1. HandInv'
    <3>1. job[w][r] # "none" /\ job'[w][r] \in {"none", "raised"}
      BY <1>17 DEF Finish, Release, Move, TypeOK, JobTypeOK, Actors
    <3>2. \A a \in Actors, q \in Rows : a # w \/ q # r => job'[a][q] = job[a][q]
      BY <1>17 DEF Finish, Release, Move, TypeOK, JobTypeOK, Actors
    <3> QED
      BY <1>17, <3>1, <3>2 DEF Finish, EvidenceInv, HandInv, Actors
  <2>2. HistoryInv'
    BY <1>17 DEF Finish, controlVars, cycleVars, Move, Fault, NoFault, Release,
       SetAttempt, FinishStatus, EvidenceInv, HistoryInv, TypeOK, DbTypeOK, HistoryTypeOK,
       HandInv, Actors
  <2>3. ConsumedOnlyWhenResolved' /\ SplitIsComplete'
    BY <1>17 DEF Finish, controlVars, cycleVars, Move, Fault, NoFault, Release,
       SetAttempt, FinishStatus, EvidenceInv, ConsumedOnlyWhenResolved, SplitIsComplete
  <2> QED
    BY <2>1, <2>2, <2>3 DEF EvidenceInv
<1>18. ASSUME NEW w \in Workers, NEW r \in Rows, RaiseUnsaved(w, r)
      PROVE  EvidenceInv'
  <2>1. HandInv'
    BY <1>18 DEF RaiseUnsaved, dbVars, controlVars, cycleVars, historyVars, Move,
       EvidenceInv, HandInv, TypeOK, DbTypeOK, JobTypeOK, HistoryTypeOK, Actors, HistoryInv
  <2>2. ConsumedOnlyWhenResolved' /\ SplitIsComplete' /\ HistoryInv'
    BY <1>18 DEF RaiseUnsaved, dbVars, controlVars, cycleVars, historyVars, Move,
       EvidenceInv, ConsumedOnlyWhenResolved, SplitIsComplete, HistoryInv
  <2> QED
    BY <2>1, <2>2 DEF EvidenceInv
<1>19. ASSUME NEW w \in Workers, NEW r \in Rows, FinishFailed(w, r)
      PROVE  EvidenceInv'
  <2>1. HandInv'
    BY <1>19 DEF FinishFailed, controlVars, cycleVars, Move, Fault, NoFault,
       Release, SetAttempt, EvidenceInv, HandInv, TypeOK, DbTypeOK, JobTypeOK,
       HistoryTypeOK, Actors, HistoryInv
  <2>2. HistoryInv'
    BY <1>19 DEF FinishFailed, controlVars, cycleVars, Move, Fault, NoFault,
       Release, SetAttempt, EvidenceInv, HistoryInv, TypeOK, DbTypeOK, HistoryTypeOK,
       HandInv, Actors
  <2>3. ConsumedOnlyWhenResolved' /\ SplitIsComplete'
    BY <1>19 DEF FinishFailed, controlVars, cycleVars, Move, Fault, NoFault,
       Release, SetAttempt, EvidenceInv, ConsumedOnlyWhenResolved, SplitIsComplete
  <2> QED
    BY <2>1, <2>2, <2>3 DEF EvidenceInv
<1>20. ASSUME NEW a \in Actors, NEW r \in Rows, SkipExcluded(a, r)
      PROVE  EvidenceInv'
  <2>1. HandInv'
    BY <1>20 DEF SkipExcluded, controlVars, cycleVars, Move, Resolve, Return, EvidenceInv,
       HandInv, TypeOK, DbTypeOK, JobTypeOK, HistoryTypeOK, Actors, HistoryInv
  <2>2. ConsumedOnlyWhenResolved'
    BY <1>20 DEF SkipExcluded, controlVars, cycleVars, Move, Resolve, Return, EvidenceInv,
       ConsumedOnlyWhenResolved, TypeOK, DbTypeOK, HistoryTypeOK, HandInv, Actors
  <2>3. SplitIsComplete'
    BY <1>20, RowAssumption DEF SkipExcluded, controlVars, cycleVars, Move,
       Resolve, Return, EvidenceInv, SplitIsComplete, TypeOK, DbTypeOK, HistoryTypeOK
  <2>4. HistoryInv'
    BY <1>20 DEF SkipExcluded, controlVars, cycleVars, Move, Resolve, Return, EvidenceInv,
       HistoryInv, TypeOK, DbTypeOK, HistoryTypeOK, HandInv, Actors
  <2> QED
    BY <2>1, <2>2, <2>3, <2>4 DEF EvidenceInv
<1>21. ASSUME NEW a \in Actors, NEW r \in Rows, RecordRepeat(a, r)
      PROVE  EvidenceInv'
  <2>1. HandInv'
    BY <1>21 DEF RecordRepeat, controlVars, cycleVars, Move, Resolve, Return, EvidenceInv,
       HandInv, TypeOK, DbTypeOK, JobTypeOK, HistoryTypeOK, Actors, HistoryInv
  <2>2. ConsumedOnlyWhenResolved'
    BY <1>21 DEF RecordRepeat, controlVars, cycleVars, Move, Resolve, Return, EvidenceInv,
       ConsumedOnlyWhenResolved, TypeOK, DbTypeOK, HistoryTypeOK, HandInv, Actors
  <2>3. SplitIsComplete'
    BY <1>21, RowAssumption DEF RecordRepeat, controlVars, cycleVars, Move,
       Resolve, Return, EvidenceInv, SplitIsComplete, TypeOK, DbTypeOK, HistoryTypeOK
  <2>4. HistoryInv'
    BY <1>21 DEF RecordRepeat, controlVars, cycleVars, Move, Resolve, Return, EvidenceInv,
       HistoryInv, TypeOK, DbTypeOK, HistoryTypeOK, HandInv, Actors
  <2> QED
    BY <2>1, <2>2, <2>3, <2>4 DEF EvidenceInv
<1>22. ASSUME NEW a \in Actors, NEW r \in Rows, PassGates(a, r)
      PROVE  EvidenceInv'
  <2>1. HandInv'
    BY <1>22 DEF PassGates, Resolve, Move, EvidenceInv, HandInv, TypeOK, DbTypeOK,
       JobTypeOK, HistoryTypeOK, Actors
  <2>2. ConsumedOnlyWhenResolved'
    <3>1. CASE UNCHANGED <<processed, resolved>>
      BY <3>1 DEF EvidenceInv, ConsumedOnlyWhenResolved
    <3>2. CASE processed' = [processed EXCEPT ![r] = TRUE] /\ Resolve(r, "excluded")
      BY <3>2 DEF Resolve, EvidenceInv, ConsumedOnlyWhenResolved, TypeOK, DbTypeOK,
         HistoryTypeOK
    <3> QED
      BY <1>22, <3>1, <3>2 DEF PassGates
  <2>3. SplitIsComplete'
    <3>1. \A q \in Rows : "children" \in resolved'[q] => "children" \in resolved[q]
      BY <1>22 DEF PassGates, Resolve, TypeOK, HistoryTypeOK
    <3>2. UNCHANGED exists
      BY <1>22 DEF PassGates
    <3> QED
      BY <3>1, <3>2 DEF EvidenceInv, SplitIsComplete
  <2>4. HistoryInv'
    <3>1. exists[r] /\ UNCHANGED <<exists, log, typed>>
      BY <1>22 DEF PassGates, EvidenceInv, HandInv
    <3>2. CASE UNCHANGED <<processed, resolved>>
      BY <3>1, <3>2 DEF EvidenceInv, HistoryInv
    <3>3. CASE processed' = [processed EXCEPT ![r] = TRUE] /\ Resolve(r, "excluded")
      BY <3>1, <3>3 DEF Resolve, EvidenceInv, HistoryInv, TypeOK, DbTypeOK, HistoryTypeOK
    <3> QED
      BY <1>22, <3>2, <3>3 DEF PassGates
  <2> QED
    BY <2>1, <2>2, <2>3, <2>4 DEF EvidenceInv
<1>23. ASSUME NEW a \in Actors, NEW r \in Rows, Materialize(a, r)
      PROVE  EvidenceInv'
  <2>1. HandInv'
    <3>1. PICK missing \in SUBSET {c \in ChildrenOf[r] : ~exists[c]}, raced \in BOOLEAN :
            /\ exists' = [c \in Rows |-> exists[c] \/ c \in ChildrenOf[r] \ missing]
            /\ Move(a, r, IF missing = {} /\ ~raced THEN "split" ELSE "raised")
            /\ resolved' = [resolved EXCEPT ![r] =
                              IF missing = {} /\ ~raced THEN @ \cup {"children"} ELSE @]
      BY <1>23 DEF Materialize
    <3>2. job[a][r] # "none"
      BY <1>23 DEF Materialize
    <3>3. \A q \in Rows : exists[q] => exists'[q]
      BY <3>1
    <3>4. \A q \in Rows : /\ resolved[q] \subseteq resolved'[q]
                          /\ "history_sync" \in resolved'[q] => "history_sync" \in resolved[q]
      BY <3>1 DEF TypeOK, HistoryTypeOK
    <3>5. \A b \in Actors, q \in Rows : b # a \/ q # r => job'[b][q] = job[b][q]
      BY <3>1 DEF Move, TypeOK, JobTypeOK
    <3>6. job'[a][r] = "raised" \/ (job'[a][r] = "split" /\ "children" \in resolved'[r])
      BY <3>1 DEF Move, TypeOK, JobTypeOK, HistoryTypeOK
    <3> QED
      BY <3>2, <3>3, <3>4, <3>5, <3>6 DEF EvidenceInv, HandInv
  <2>2. ConsumedOnlyWhenResolved'
    BY <1>23 DEF Materialize, controlVars, cycleVars, Move, Fault, NoFault, EvidenceInv,
       ConsumedOnlyWhenResolved, TypeOK, DbTypeOK, HistoryTypeOK, HandInv, Actors
  <2>3. SplitIsComplete'
    <3>1. PICK missing \in SUBSET {c \in ChildrenOf[r] : ~exists[c]}, raced \in BOOLEAN :
            /\ exists' = [c \in Rows |-> exists[c] \/ c \in ChildrenOf[r] \ missing]
            /\ Move(a, r, IF missing = {} /\ ~raced THEN "split" ELSE "raised")
            /\ resolved' = [resolved EXCEPT ![r] =
                              IF missing = {} /\ ~raced THEN @ \cup {"children"} ELSE @]
      BY <1>23 DEF Materialize
    <3>2. \A q \in Rows : exists[q] => exists'[q]
      BY <3>1
    <3>3. CASE missing = {} /\ ~raced
      <4>1. \A c \in ChildrenOf[r] : exists'[c]
        BY <3>1, <3>3, RowAssumption
      <4>2. \A q \in Rows \ {r} : resolved'[q] = resolved[q]
        BY <3>1 DEF TypeOK, HistoryTypeOK
      <4> QED
        BY <3>2, <4>1, <4>2, RowAssumption DEF EvidenceInv, SplitIsComplete
    <3>4. CASE missing # {} \/ raced
      <4>1. \A q \in Rows : resolved'[q] = resolved[q]
        BY <3>1, <3>4 DEF TypeOK, HistoryTypeOK
      <4> QED
        BY <3>2, <4>1, RowAssumption DEF EvidenceInv, SplitIsComplete
    <3> QED
      BY <3>3, <3>4
  <2>4. HistoryInv'
    BY <1>23 DEF Materialize, controlVars, cycleVars, Move, Fault, NoFault, EvidenceInv,
       HistoryInv, TypeOK, DbTypeOK, HistoryTypeOK, HandInv, Actors
  <2> QED
    BY <2>1, <2>2, <2>3, <2>4 DEF EvidenceInv
<1>24. ASSUME NEW a \in Actors, NEW r \in Rows, MarkSplitParent(a, r)
      PROVE  EvidenceInv'
  <2>1. HandInv'
    <3>1. job[a][r] # "none" /\ job'[a][r] \in {"returned", "raised"}
      BY <1>24 DEF MarkSplitParent, Return, Move, TypeOK, JobTypeOK
    <3>2. \A b \in Actors, q \in Rows : b # a \/ q # r => job'[b][q] = job[b][q]
      BY <1>24 DEF MarkSplitParent, Return, Move, TypeOK, JobTypeOK
    <3> QED
      BY <1>24, <3>1, <3>2 DEF MarkSplitParent, EvidenceInv, HandInv
  <2>2. ConsumedOnlyWhenResolved'
    BY <1>24 DEF MarkSplitParent, controlVars, cycleVars, Move, Fault, NoFault,
       Return, EvidenceInv, ConsumedOnlyWhenResolved, TypeOK, DbTypeOK, HistoryTypeOK,
       HandInv, Actors
  <2>3. HistoryInv'
    BY <1>24 DEF MarkSplitParent, controlVars, cycleVars, Move, Fault, NoFault,
       Return, EvidenceInv, HistoryInv, TypeOK, DbTypeOK, HistoryTypeOK, HandInv, Actors
  <2>4. SplitIsComplete'
    BY <1>24 DEF MarkSplitParent, controlVars, cycleVars, Move, Fault, NoFault,
       Return, EvidenceInv, SplitIsComplete
  <2> QED
    BY <2>1, <2>2, <2>3, <2>4 DEF EvidenceInv
<1>25. ASSUME NEW a \in Actors, NEW r \in Rows, ProviderUnavailable(a, r)
      PROVE  EvidenceInv'
  <2>1. HandInv'
    BY <1>25 DEF ProviderUnavailable, dbVars, controlVars, cycleVars, historyVars,
       Move, EvidenceInv, HandInv, TypeOK, DbTypeOK, JobTypeOK, HistoryTypeOK, Actors,
       HistoryInv
  <2>2. ConsumedOnlyWhenResolved' /\ SplitIsComplete' /\ HistoryInv'
    BY <1>25 DEF ProviderUnavailable, dbVars, controlVars, cycleVars, historyVars,
       Move, EvidenceInv, ConsumedOnlyWhenResolved, SplitIsComplete, HistoryInv
  <2> QED
    BY <2>1, <2>2 DEF EvidenceInv
<1>33. ASSUME NEW a \in Actors, NEW r \in Rows, ContextError(a, r)
      PROVE  EvidenceInv'
  <2>1. HandInv'
    BY <1>33 DEF ContextError, dbVars, controlVars, cycleVars, Fault,
       Move, EvidenceInv, HandInv, TypeOK, DbTypeOK, JobTypeOK, HistoryTypeOK, Actors,
       HistoryInv
  <2>2. ConsumedOnlyWhenResolved' /\ SplitIsComplete' /\ HistoryInv'
    BY <1>33 DEF ContextError, dbVars, controlVars, cycleVars, Fault,
       Move, EvidenceInv, ConsumedOnlyWhenResolved, SplitIsComplete, HistoryInv
  <2> QED
    BY <2>1, <2>2 DEF EvidenceInv
<1>26. ASSUME NEW a \in Actors, NEW r \in Rows, CloneDuplicate(a, r)
      PROVE  EvidenceInv'
  <2>1. HandInv'
    BY <1>26 DEF CloneDuplicate, controlVars, cycleVars, Move, Resolve, EvidenceInv,
       HandInv, TypeOK, DbTypeOK, JobTypeOK, HistoryTypeOK, Actors, HistoryInv
  <2>2. ConsumedOnlyWhenResolved'
    BY <1>26 DEF CloneDuplicate, controlVars, cycleVars, Move, Resolve, EvidenceInv,
       ConsumedOnlyWhenResolved, TypeOK, DbTypeOK, HistoryTypeOK, HandInv, Actors
  <2>3. SplitIsComplete'
    BY <1>26, RowAssumption DEF CloneDuplicate, controlVars, cycleVars, Move,
       Resolve, EvidenceInv, SplitIsComplete, TypeOK, DbTypeOK, HistoryTypeOK
  <2>4. HistoryInv'
    BY <1>26 DEF CloneDuplicate, controlVars, cycleVars, Move, Resolve, EvidenceInv,
       HistoryInv, TypeOK, DbTypeOK, HistoryTypeOK, HandInv, Actors
  <2> QED
    BY <2>1, <2>2, <2>3, <2>4 DEF EvidenceInv
<1>27. ASSUME NEW a \in Actors, NEW r \in Rows, ExtractListing(a, r)
      PROVE  EvidenceInv'
  <2>1. HandInv'
    BY <1>27 DEF ExtractListing, controlVars, cycleVars, Move, Fault, NoFault,
       CleanOtherRoutes, EvidenceInv, HandInv, TypeOK, DbTypeOK, JobTypeOK, HistoryTypeOK,
       Actors, HistoryInv
  <2>2. HistoryInv'
    BY <1>27 DEF ExtractListing, controlVars, cycleVars, Move, Fault, NoFault,
       CleanOtherRoutes, EvidenceInv, HistoryInv, TypeOK, DbTypeOK, HistoryTypeOK,
       HandInv, Actors
  <2>3. ConsumedOnlyWhenResolved' /\ SplitIsComplete'
    BY <1>27 DEF ExtractListing, controlVars, cycleVars, Move, Fault, NoFault,
       CleanOtherRoutes, EvidenceInv, ConsumedOnlyWhenResolved, SplitIsComplete
  <2> QED
    BY <2>1, <2>2, <2>3 DEF EvidenceInv
<1>28. ASSUME NEW a \in Actors, NEW r \in Rows, SaveListing(a, r)
      PROVE  EvidenceInv'
  <2>1. HandInv'
    <3>1. CASE Move(a, r, "saved") /\ Resolve(r, "listing")
      BY <1>28, <3>1 DEF SaveListing, Move, Resolve, EvidenceInv, HandInv, TypeOK, JobTypeOK,
                        HistoryTypeOK
    <3>2. CASE Move(a, r, "returned") /\ UNCHANGED resolved
      BY <1>28, <3>2 DEF SaveListing, Move, EvidenceInv, HandInv, TypeOK, JobTypeOK
    <3> QED
      BY <1>28, <3>1, <3>2 DEF SaveListing, Return
  <2>2. ConsumedOnlyWhenResolved'
    <3>1. Resolve(r, "listing") \/ resolved' = resolved
      BY <1>28 DEF SaveListing
    <3>2. \A q \in Rows : resolved[q] \subseteq resolved'[q]
      BY <3>1 DEF Resolve, TypeOK, HistoryTypeOK
    <3> QED
      BY <1>28, <3>2 DEF SaveListing, EvidenceInv, ConsumedOnlyWhenResolved
  <2>3. SplitIsComplete'
    <3>1. Resolve(r, "listing") \/ resolved' = resolved
      BY <1>28 DEF SaveListing
    <3>2. \A q \in Rows : "children" \in resolved'[q] => "children" \in resolved[q]
      BY <3>1 DEF Resolve, TypeOK, HistoryTypeOK
    <3> QED
      BY <1>28, <3>2 DEF SaveListing, EvidenceInv, SplitIsComplete
  <2>4. HistoryInv'
    BY <1>28 DEF SaveListing, controlVars, cycleVars, Move, Resolve, Fault,
       NoFault, Return, EvidenceInv, HistoryInv, TypeOK, DbTypeOK, HistoryTypeOK, HandInv,
       Actors
  <2> QED
    BY <2>1, <2>2, <2>3, <2>4 DEF EvidenceInv
<1>29. ASSUME NEW a \in Actors, NEW r \in Rows, SaveStub(a, r)
      PROVE  EvidenceInv'
  <2>1. HandInv'
    BY <1>29 DEF SaveStub, controlVars, cycleVars, Move, Resolve, Fault, NoFault,
       EvidenceInv, HandInv, TypeOK, DbTypeOK, JobTypeOK, HistoryTypeOK, Actors, HistoryInv
  <2>2. ConsumedOnlyWhenResolved'
    BY <1>29 DEF SaveStub, controlVars, cycleVars, Move, Resolve, Fault, NoFault,
       EvidenceInv, ConsumedOnlyWhenResolved, TypeOK, DbTypeOK, HistoryTypeOK, HandInv,
       Actors
  <2>3. SplitIsComplete'
    BY <1>29, RowAssumption DEF SaveStub, controlVars, cycleVars, Move, Resolve,
       Fault, NoFault, EvidenceInv, SplitIsComplete, TypeOK, DbTypeOK, HistoryTypeOK
  <2>4. HistoryInv'
    BY <1>29 DEF SaveStub, controlVars, cycleVars, Move, Resolve, Fault, NoFault,
       EvidenceInv, HistoryInv, TypeOK, DbTypeOK, HistoryTypeOK, HandInv, Actors
  <2> QED
    BY <2>1, <2>2, <2>3, <2>4 DEF EvidenceInv
<1>30. ASSUME NEW a \in Actors, NEW r \in Rows, MarkProcessed(a, r)
      PROVE  EvidenceInv'
  <2>1. HandInv'
    BY <1>30 DEF MarkProcessed, controlVars, cycleVars, Move, Fault, NoFault, EvidenceInv,
       HandInv, TypeOK, DbTypeOK, JobTypeOK, HistoryTypeOK, Actors, HistoryInv
  <2>2. ConsumedOnlyWhenResolved'
    BY <1>30 DEF MarkProcessed, controlVars, cycleVars, Move, Fault, NoFault, EvidenceInv,
       ConsumedOnlyWhenResolved, TypeOK, DbTypeOK, HistoryTypeOK, HandInv, Actors
  <2>3. HistoryInv'
    BY <1>30 DEF MarkProcessed, controlVars, cycleVars, Move, Fault, NoFault, EvidenceInv,
       HistoryInv, TypeOK, DbTypeOK, HistoryTypeOK, HandInv, Actors
  <2>4. SplitIsComplete'
    BY <1>30 DEF MarkProcessed, controlVars, cycleVars, Move, Fault, NoFault, EvidenceInv,
       SplitIsComplete
  <2> QED
    BY <2>1, <2>2, <2>3, <2>4 DEF EvidenceInv
<1>31. ASSUME NEW d \in Triggers, NEW r \in Rows, TriggerStart(d, r)
      PROVE  EvidenceInv'
  <2>1. HandInv'
    BY <1>31 DEF TriggerStart, dbVars, controlVars, cycleVars, historyVars, Move,
       EvidenceInv, HandInv, TypeOK, DbTypeOK, JobTypeOK, HistoryTypeOK, Actors, HistoryInv
  <2>2. ConsumedOnlyWhenResolved' /\ SplitIsComplete' /\ HistoryInv'
    BY <1>31 DEF TriggerStart, dbVars, controlVars, cycleVars, historyVars, Move,
       EvidenceInv, ConsumedOnlyWhenResolved, SplitIsComplete, HistoryInv
  <2> QED
    BY <2>1, <2>2 DEF EvidenceInv
<1>32. ASSUME NEW d \in Triggers, NEW r \in Rows, TriggerEnd(d, r)
      PROVE  EvidenceInv'
  <2>1. HandInv'
    BY <1>32 DEF TriggerEnd, dbVars, controlVars, cycleVars, historyVars, Move,
       Release, EvidenceInv, HandInv, TypeOK, DbTypeOK, JobTypeOK, HistoryTypeOK, Actors,
       HistoryInv
  <2>2. ConsumedOnlyWhenResolved' /\ SplitIsComplete' /\ HistoryInv'
    BY <1>32 DEF TriggerEnd, dbVars, controlVars, cycleVars, historyVars, Move,
       Release, EvidenceInv, ConsumedOnlyWhenResolved, SplitIsComplete, HistoryInv
  <2> QED
    BY <2>1, <2>2 DEF EvidenceInv
<1> QED
  BY <1>1, <1>2, <1>3, <1>4, <1>5, <1>6, <1>7, <1>8, <1>9, <1>10, <1>11, <1>12, <1>13, <1>14, <1>15, <1>16, <1>17, <1>18, <1>19, <1>20, <1>21, <1>22, <1>23, <1>24, <1>25, <1>26, <1>27, <1>28, <1>29, <1>30, <1>31, <1>32, <1>33 DEF
     Next, ControlPlane, ControlWrites, WorkerStep, RowStep, Pipeline, TriggerStep,
     Actors

-----------------------------------------------------------------------------
(* A worker's batch keeps the consent of its snapshot, up to the rows that *)
(* lost it since and are remembered as withdrawn.                          *)
LEMMA ConsentStep == ASSUME TypeOK, PlaceInv, ConsentFence, [Next]_vars PROVE ConsentFence'
<1>1. CASE UNCHANGED vars
  BY <1>1 DEF vars, controlVars, cycleVars, dbVars, historyVars, jobVars,
     ConsentFence, ConsentFence, HasConsent
<1>2. ASSUME NEW r \in Rows,
            \/ Arrive(r) \/ ArriveHistory(r)
      PROVE  ConsentFence'
  BY <1>2 DEF Arrive, controlVars, cycleVars, jobVars, historyVars, ArriveHistory,
     Resolve, ConsentFence, HasConsent
<1>3. ASSUME NEW c \in Conns,
            \/ StartExtraction(c) \/ PauseExtraction(c)
      PROVE  ConsentFence'
  BY <1>3 DEF StartExtraction, dbVars, cycleVars, jobVars, Operate,
     PauseExtraction, ConsentFence, HasConsent
<1>4. ASSUME NEW p \in pending,
            RewriteQueuedRows(p)
      PROVE  ConsentFence'
  BY <1>4 DEF RewriteQueuedRows, cycleVars, jobVars, Fault, NoFault, ConsentFence,
     HasConsent
<1>5. ASSUME NEW w \in Workers,
            \/ BeginCycle(w) \/ ReenableRead(w) \/ ReenableWrite(w) \/ EndCycle(w)
      PROVE  ConsentFence'
  BY <1>5 DEF BeginCycle, dbVars, controlVars, jobVars, GoTo, Fault, NoFault,
     ReenableRead, ReenableWrite, EndCycle, historyVars, ConsentFence, HasConsent
<1>6. ASSUME NEW c \in Conns, NEW gs \in SUBSET Groups, SelectGroups(c, gs)
      PROVE  ConsentFence'
  <2> DEFINE new == [cg \in Conns \X Groups |->
       IF cg[1] = c /\ consent[cg] # "absent" THEN "opted_out" ELSE consent[cg]]
  <2>1. consent' = new /\ withdrawn' = [v \in Workers |-> withdrawn[v] \cup Losing(new)]
    BY <1>6 DEF SelectGroups, SetConsent
  <2>2. \A v \in Workers : withdrawn'[v] = withdrawn[v] \cup Losing(new)
    BY <2>1
  <2>3. UNCHANGED job
    BY <1>6 DEF SelectGroups, jobVars
  <2> HIDE DEF new
  <2>4. \A q \in Rows : HasConsent(q) => HasConsent(q)' \/ q \in Losing(new)
    BY <2>1 DEF HasConsent, Losing
  <2> QED
    BY <2>2, <2>3, <2>4 DEF ConsentFence
<1>7. ASSUME NEW c \in Conns, NEW g \in Groups, OptOut(c, g)
      PROVE  ConsentFence'
  <2> DEFINE new == [consent EXCEPT ![<<c, g>>] = "opted_out"]
  <2>1. consent' = new /\ withdrawn' = [v \in Workers |-> withdrawn[v] \cup Losing(new)]
    BY <1>7 DEF OptOut, SetConsent
  <2>2. \A v \in Workers : withdrawn'[v] = withdrawn[v] \cup Losing(new)
    BY <2>1
  <2>3. UNCHANGED job
    BY <1>7 DEF OptOut, jobVars
  <2> HIDE DEF new
  <2>4. \A q \in Rows : HasConsent(q) => HasConsent(q)' \/ q \in Losing(new)
    BY <2>1 DEF HasConsent, Losing
  <2> QED
    BY <2>2, <2>3, <2>4 DEF ConsentFence
<1>8. ASSUME NEW c \in Conns, NEW g \in Groups, OptIn(c, g)
      PROVE  ConsentFence'
  BY <1>8, ProcessAssumption DEF OptIn, dbVars, cycleVars, jobVars, Operate,
     ConsentFence, HasConsent, TypeOK, ControlTypeOK, JobTypeOK, HistoryTypeOK,
     HasConsent, InFlight, Actors
<1>9. ASSUME NEW p \in pending, ConfirmSelection(p)
      PROVE  ConsentFence'
  <2>1. \/ consent' = [cg \in Conns \X Groups |->
             IF cg[1] = p.conn /\ cg[2] \in p.groups THEN "selected" ELSE consent[cg]]
        \/ consent' = consent
    BY <1>9 DEF ConfirmSelection
  <2>2. \A q \in Rows : <<ConnOf[q], GroupOf[q]>> \in Conns \X Groups
    BY RowAssumption
  <2>3. \A q \in Rows : HasConsent(q) => HasConsent(q)'
    BY <2>1, <2>2 DEF HasConsent
  <2> QED
    BY <1>9, <2>3 DEF ConfirmSelection, jobVars, ConsentFence
<1>10. ASSUME NEW w \in Workers, Fetch(w)
      PROVE  ConsentFence'
  BY <1>10, ProcessAssumption DEF Fetch, dbVars, controlVars, GoTo, Fault, NoFault,
     ConsentFence, HasConsent, TypeOK, ControlTypeOK, JobTypeOK, HistoryTypeOK,
     HasConsent, InFlight, Actors
<1>11. ASSUME NEW w \in Workers, Filter(w)
      PROVE  ConsentFence'
  <2>1. PICK readable \in BOOLEAN :
          job' = [job EXCEPT ![w] = [q \in Rows |->
            IF job[w][q] # "fetched" THEN job[w][q]
            ELSE IF readable /\ HasConsent(q) THEN "queued" ELSE "unconsented"]]
    BY <1>11 DEF Filter
  <2>2. \A q \in Rows : job[w][q] \in {"none", "fetched"}
    BY <1>11 DEF Filter, PlaceInv
  <2>3. \A q \in Rows : job'[w][q] \in InFlight \cup {"queued"} => HasConsent(q)
    BY <2>1, <2>2 DEF TypeOK, JobTypeOK, InFlight, Actors
  <2>4. \A v \in Workers \ {w} : job'[v] = job[v] /\ withdrawn'[v] = withdrawn[v]
    BY <1>11, <2>1 DEF Filter, TypeOK, JobTypeOK, HistoryTypeOK, Actors
  <2> QED
    BY <1>11, <2>3, <2>4 DEF Filter, controlVars, ConsentFence, HasConsent
<1>12. ASSUME NEW w \in Workers, Crash(w)
      PROVE  ConsentFence'
  BY <1>12, ProcessAssumption DEF Crash, dbVars, controlVars, GoTo, ConsentFence,
     HasConsent, TypeOK, ControlTypeOK, JobTypeOK, HistoryTypeOK, HasConsent,
     InFlight, Actors
<1>13. ASSUME NEW w \in Workers, NEW r \in Rows, Suppress(w, r)
      PROVE  ConsentFence'
  BY <1>13, ProcessAssumption DEF Suppress, controlVars, cycleVars, Move, Fault,
     NoFault, ConsentFence, HasConsent, TypeOK, ControlTypeOK, JobTypeOK,
     HistoryTypeOK, HasConsent, InFlight, Actors
<1>14. ASSUME NEW w \in Workers, NEW r \in Rows, DeadLetter(w, r)
      PROVE  ConsentFence'
  BY <1>14, ProcessAssumption DEF DeadLetter, controlVars, cycleVars, Move,
     Resolve, Fault, NoFault, ConsentFence, HasConsent, TypeOK, ControlTypeOK,
     JobTypeOK, HistoryTypeOK, HasConsent, InFlight, Actors
<1>15. ASSUME NEW w \in Workers, NEW r \in Rows, Claim(w, r)
      PROVE  ConsentFence'
  BY <1>15, ProcessAssumption DEF Claim, controlVars, cycleVars, historyVars, Move,
     ConsentFence, HasConsent, TypeOK, ControlTypeOK, JobTypeOK, HistoryTypeOK,
     HasConsent, InFlight, Actors
<1>16. ASSUME NEW w \in Workers, NEW r \in Rows, ClaimStale(w, r)
      PROVE  ConsentFence'
  BY <1>16, ProcessAssumption DEF ClaimStale, dbVars, controlVars, cycleVars,
     historyVars, Move, ConsentFence, HasConsent, TypeOK, ControlTypeOK, JobTypeOK,
     HistoryTypeOK, HasConsent, InFlight, Actors
<1>17. ASSUME NEW w \in Workers, NEW r \in Rows, ClaimError(w, r)
      PROVE  ConsentFence'
  BY <1>17, ProcessAssumption DEF ClaimError, dbVars, controlVars, cycleVars, Move,
     Fault, ConsentFence, HasConsent, TypeOK, ControlTypeOK, JobTypeOK,
     HistoryTypeOK, HasConsent, InFlight, Actors
<1>18. ASSUME NEW w \in Workers, NEW r \in Rows, Finish(w, r)
      PROVE  ConsentFence'
  <2>1. job[w][r] = "returned" /\ job'[w][r] \in {"none", "raised"}
    BY <1>18 DEF Finish, Release, Move, TypeOK, JobTypeOK, Actors
  <2>2. \A b \in Actors, q \in Rows : b # w \/ q # r => job'[b][q] = job[b][q]
    BY <1>18 DEF Finish, Release, Move, TypeOK, JobTypeOK, Actors
  <2>3. UNCHANGED <<consent, withdrawn>>
    BY <1>18 DEF Finish, controlVars
  <2> QED
    BY <2>1, <2>2, <2>3 DEF ConsentFence, HasConsent, InFlight, Actors
<1>19. ASSUME NEW w \in Workers, NEW r \in Rows, RaiseUnsaved(w, r)
      PROVE  ConsentFence'
  BY <1>19, ProcessAssumption DEF RaiseUnsaved, dbVars, controlVars, cycleVars,
     historyVars, Move, ConsentFence, HasConsent, TypeOK, ControlTypeOK, JobTypeOK,
     HistoryTypeOK, HasConsent, InFlight, Actors
<1>20. ASSUME NEW w \in Workers, NEW r \in Rows, FinishFailed(w, r)
      PROVE  ConsentFence'
  BY <1>20, ProcessAssumption DEF FinishFailed, controlVars, cycleVars, Move,
     Fault, NoFault, Release, SetAttempt, ConsentFence, HasConsent, TypeOK,
     ControlTypeOK, JobTypeOK, HistoryTypeOK, HasConsent, InFlight, Actors
<1>21. ASSUME NEW a \in Actors, NEW r \in Rows, SkipExcluded(a, r)
      PROVE  ConsentFence'
  BY <1>21, ProcessAssumption DEF SkipExcluded, controlVars, cycleVars, Move,
     Resolve, Return, ConsentFence, HasConsent, TypeOK, ControlTypeOK, JobTypeOK,
     HistoryTypeOK, HasConsent, InFlight, Actors
<1>22. ASSUME NEW a \in Actors, NEW r \in Rows, RecordRepeat(a, r)
      PROVE  ConsentFence'
  BY <1>22, ProcessAssumption DEF RecordRepeat, controlVars, cycleVars, Move,
     Resolve, Return, ConsentFence, HasConsent, TypeOK, ControlTypeOK, JobTypeOK,
     HistoryTypeOK, HasConsent, InFlight, Actors
<1>23. ASSUME NEW a \in Actors, NEW r \in Rows, PassGates(a, r)
      PROVE  ConsentFence'
  BY <1>23, ProcessAssumption DEF PassGates, dbVars, controlVars, cycleVars, Move,
     Fault, NoFault, ConsentFence, HasConsent, TypeOK, ControlTypeOK, JobTypeOK,
     HistoryTypeOK, HasConsent, InFlight, Actors
<1>24. ASSUME NEW a \in Actors, NEW r \in Rows, Materialize(a, r)
      PROVE  ConsentFence'
  BY <1>24, ProcessAssumption DEF Materialize, controlVars, cycleVars, Move, Fault,
     NoFault, ConsentFence, HasConsent, TypeOK, ControlTypeOK, JobTypeOK,
     HistoryTypeOK, HasConsent, InFlight, Actors
<1>25. ASSUME NEW a \in Actors, NEW r \in Rows, MarkSplitParent(a, r)
      PROVE  ConsentFence'
  <2>1. job[a][r] = "split" /\ job'[a][r] \in {"returned", "raised"}
    BY <1>25 DEF MarkSplitParent, Return, Move, TypeOK, JobTypeOK, Actors
  <2>2. \A b \in Actors, q \in Rows : b # a \/ q # r => job'[b][q] = job[b][q]
    BY <1>25 DEF MarkSplitParent, Return, Move, TypeOK, JobTypeOK, Actors
  <2>3. UNCHANGED <<consent, withdrawn>>
    BY <1>25 DEF MarkSplitParent, controlVars
  <2> QED
    BY <2>1, <2>2, <2>3 DEF ConsentFence, HasConsent, InFlight, Actors
<1>26. ASSUME NEW a \in Actors, NEW r \in Rows, ProviderUnavailable(a, r)
      PROVE  ConsentFence'
  BY <1>26, ProcessAssumption DEF ProviderUnavailable, dbVars, controlVars,
     cycleVars, historyVars, Move, ConsentFence, HasConsent, TypeOK, ControlTypeOK,
     JobTypeOK, HistoryTypeOK, HasConsent, InFlight, Actors
<1>34. ASSUME NEW a \in Actors, NEW r \in Rows, ContextError(a, r)
      PROVE  ConsentFence'
  BY <1>34, ProcessAssumption DEF ContextError, dbVars, controlVars,
     cycleVars, Fault, Move, ConsentFence, HasConsent, TypeOK, ControlTypeOK,
     JobTypeOK, HistoryTypeOK, HasConsent, InFlight, Actors
<1>27. ASSUME NEW a \in Actors, NEW r \in Rows, CloneDuplicate(a, r)
      PROVE  ConsentFence'
  BY <1>27, ProcessAssumption DEF CloneDuplicate, controlVars, cycleVars, Move,
     Resolve, ConsentFence, HasConsent, TypeOK, ControlTypeOK, JobTypeOK,
     HistoryTypeOK, HasConsent, InFlight, Actors
<1>28. ASSUME NEW a \in Actors, NEW r \in Rows, ExtractListing(a, r)
      PROVE  ConsentFence'
  BY <1>28, ProcessAssumption DEF ExtractListing, controlVars, cycleVars, Move,
     Fault, NoFault, CleanOtherRoutes, ConsentFence, HasConsent, TypeOK,
     ControlTypeOK, JobTypeOK, HistoryTypeOK, HasConsent, InFlight, Actors
<1>29. ASSUME NEW a \in Actors, NEW r \in Rows, SaveListing(a, r)
      PROVE  ConsentFence'
  <2>1. job[a][r] = "routed" /\ job'[a][r] \in {"saved", "returned"}
    BY <1>29 DEF SaveListing, Return, Move, TypeOK, JobTypeOK, Actors
  <2>2. \A b \in Actors, q \in Rows : b # a \/ q # r => job'[b][q] = job[b][q]
    BY <1>29 DEF SaveListing, Return, Move, TypeOK, JobTypeOK, Actors
  <2>3. UNCHANGED <<consent, withdrawn>>
    BY <1>29 DEF SaveListing, controlVars
  <2> QED
    BY <2>1, <2>2, <2>3 DEF ConsentFence, HasConsent, InFlight, Actors
<1>30. ASSUME NEW a \in Actors, NEW r \in Rows, SaveStub(a, r)
      PROVE  ConsentFence'
  BY <1>30, ProcessAssumption DEF SaveStub, controlVars, cycleVars, Move, Resolve,
     Fault, NoFault, ConsentFence, HasConsent, TypeOK, ControlTypeOK, JobTypeOK,
     HistoryTypeOK, HasConsent, InFlight, Actors
<1>31. ASSUME NEW a \in Actors, NEW r \in Rows, MarkProcessed(a, r)
      PROVE  ConsentFence'
  BY <1>31, ProcessAssumption DEF MarkProcessed, controlVars, cycleVars, Move,
     Fault, NoFault, ConsentFence, HasConsent, TypeOK, ControlTypeOK, JobTypeOK,
     HistoryTypeOK, HasConsent, InFlight, Actors
<1>32. ASSUME NEW d \in Triggers, NEW r \in Rows, TriggerStart(d, r)
      PROVE  ConsentFence'
  BY <1>32, ProcessAssumption DEF TriggerStart, dbVars, controlVars, cycleVars,
     historyVars, Move, ConsentFence, HasConsent, TypeOK, ControlTypeOK, JobTypeOK,
     HistoryTypeOK, HasConsent, InFlight, Actors
<1>33. ASSUME NEW d \in Triggers, NEW r \in Rows, TriggerEnd(d, r)
      PROVE  ConsentFence'
  BY <1>33, ProcessAssumption DEF TriggerEnd, dbVars, controlVars, cycleVars,
     historyVars, Move, Release, ConsentFence, HasConsent, TypeOK, ControlTypeOK,
     JobTypeOK, HistoryTypeOK, HasConsent, InFlight, Actors
<1> QED
  BY <1>1, <1>2, <1>3, <1>4, <1>5, <1>6, <1>7, <1>8, <1>9, <1>10, <1>11, <1>12, <1>13, <1>14, <1>15, <1>16, <1>17, <1>18, <1>19, <1>20, <1>21, <1>22, <1>23, <1>24, <1>25, <1>26, <1>27, <1>28, <1>29, <1>30, <1>31, <1>32, <1>33, <1>34 DEF
     Next, ControlPlane, ControlWrites, WorkerStep, RowStep, Pipeline, TriggerStep,
     Actors

-----------------------------------------------------------------------------
(* The inductive invariant holds in every reachable state. *)
THEOREM Invariant == Spec => []QueueInv
<1>1. Init => QueueInv
  BY InitInv
<1>2. QueueInv /\ [Next]_vars => QueueInv'
  BY TypeStep, ClaimStep, EvidenceStep, ConsentStep DEF QueueInv, ClaimInv
<1> QED
  BY <1>1, <1>2, PTL DEF Spec

(* Every variable of the queue keeps its type; in particular no retry      *)
(* counter of a worker passes EXTRACTION_WORKER_MAX_RETRIES.               *)
THEOREM TypeCorrect == Spec => []TypeOK
<1>1. QueueInv => TypeOK
  BY DEF QueueInv
<1> QED
  BY <1>1, Invariant, PTL

(* No interleaving of workers, triggers, operators, crashes and failed     *)
(* calls consumes a row for which there is nothing to show.                *)
THEOREM Consumption == Spec => []ConsumedOnlyWhenResolved
<1>1. QueueInv => ConsumedOnlyWhenResolved
  BY DEF QueueInv, EvidenceInv
<1> QED
  BY <1>1, Invariant, PTL

(* A split parent has every slice in the queue, however many actors split  *)
(* it and however many of the inserts failed on the way.                   *)
THEOREM Splitting == Spec => []SplitIsComplete
<1>1. QueueInv => SplitIsComplete
  BY DEF QueueInv, EvidenceInv
<1> QED
  BY <1>1, Invariant, PTL

(* History-sync imports are never attempted and never listed. *)
THEOREM History == Spec => []HistoryStaysEvidence
<1>1. QueueInv => HistoryStaysEvidence
  BY DEF QueueInv, EvidenceInv, HistoryInv, HistoryStaysEvidence
<1> QED
  BY <1>1, Invariant, PTL

(* A worker closes the attempt it opened and no other. *)
THEOREM AttemptOwnership == Spec => []AttemptHasOneOwner
<1>1. QueueInv => AttemptHasOneOwner
  BY DEF QueueInv, TypeOK, JobTypeOK, ClaimInv, AttemptInv, AttemptHasOneOwner, Actors
<1> QED
  BY <1>1, Invariant, PTL

(* Extraction outruns a withdrawal of consent by at most the current batch. *)
THEOREM Consent == Spec => []ConsentFence
<1>1. QueueInv => ConsentFence
  BY DEF QueueInv
<1> QED
  BY <1>1, Invariant, PTL

-----------------------------------------------------------------------------
(* Work on a row, without new slices: a reason may be added, and the row   *)
(* may be consumed if it has one by now. The ledger settles the row.       *)
LEMMA SettleStep ==
  ASSUME TypeOK, EvidenceInv, NEW a \in Actors, NEW r \in Rows,
         job[a][r] # "none",
         UNCHANGED exists,
         \/ resolved' = resolved
         \/ \E how \in Resolutions \ {"history_sync", "children"} : Resolve(r, how),
         \/ processed' = processed
         \/ processed' = [processed EXCEPT ![r] = TRUE] /\ resolved'[r] # {}
  PROVE  [Ledger!Next]_(Ledger!vars)
<1>1. r \in {q \in Rows : exists[q]} /\ "history_sync" \notin resolved[r]
  BY DEF EvidenceInv, HandInv
<1>2. PICK how \in SUBSET (Resolutions \ {"history_sync", "children"}) :
        resolved' = [resolved EXCEPT ![r] = @ \cup how]
  <2>1. CASE resolved' = resolved
    <3>1. resolved' = [resolved EXCEPT ![r] = @ \cup {}]
      BY <2>1 DEF TypeOK, HistoryTypeOK
    <3> QED
      BY <3>1
  <2>2. ASSUME NEW how \in Resolutions \ {"history_sync", "children"}, Resolve(r, how)
        PROVE  \E some \in SUBSET (Resolutions \ {"history_sync", "children"}) :
                 resolved' = [resolved EXCEPT ![r] = @ \cup some]
    <3>1. {how} \in SUBSET (Resolutions \ {"history_sync", "children"})
      OBVIOUS
    <3> QED
      BY <2>2, <3>1 DEF Resolve
  <2> QED
    BY <2>1, <2>2
<1>3. "children" \in resolved'[r] => ChildrenOf[r] \subseteq {q \in Rows : exists'[q]}
  <2>1. "children" \in resolved'[r] => "children" \in resolved[r]
    BY <1>2 DEF TypeOK, HistoryTypeOK
  <2> QED
    BY <2>1, RowAssumption DEF EvidenceInv, SplitIsComplete
<1>4. {q \in Rows : exists'[q]} = {q \in Rows : exists[q]} \cup {}
  OBVIOUS
<1>5. \/ {q \in Rows : processed'[q]} = {q \in Rows : processed[q]}
      \/ /\ {q \in Rows : processed'[q]} = {q \in Rows : processed[q]} \cup {r}
         /\ resolved'[r] # {}
  BY DEF TypeOK, DbTypeOK
<1>6. Ledger!Settle(r)
  BY <1>1, <1>2, <1>3, <1>4, <1>5 DEF Ledger!Settle
<1> QED
  BY <1>6 DEF Ledger!Next

-----------------------------------------------------------------------------
(* Every step of the queue is a step of the ledger or leaves it alone. *)
LEMMA LedgerStep ==
  ASSUME TypeOK, EvidenceInv, [Next]_vars
  PROVE  [Ledger!Next]_(Ledger!vars)
<1> USE DEF Ledger!vars
<1>1. CASE UNCHANGED vars
  BY <1>1 DEF vars, dbVars, historyVars
<1>2. ASSUME NEW c \in Conns, NEW gs \in SUBSET Groups,
            SelectGroups(c, gs)
      PROVE  UNCHANGED Ledger!vars
  BY <1>2 DEF SelectGroups, dbVars, cycleVars, jobVars
<1>3. ASSUME NEW c \in Conns, NEW g \in Groups,
            \/ OptOut(c, g) \/ OptIn(c, g)
      PROVE  UNCHANGED Ledger!vars
  BY <1>3 DEF OptOut, dbVars, cycleVars, jobVars, OptIn
<1>4. ASSUME NEW c \in Conns,
            \/ StartExtraction(c) \/ PauseExtraction(c)
      PROVE  UNCHANGED Ledger!vars
  BY <1>4 DEF StartExtraction, dbVars, cycleVars, jobVars, PauseExtraction
<1>5. ASSUME NEW p \in pending,
            \/ ConfirmSelection(p) \/ RewriteQueuedRows(p)
      PROVE  UNCHANGED Ledger!vars
  BY <1>5 DEF ConfirmSelection, dbVars, cycleVars, jobVars, RewriteQueuedRows
<1>6. ASSUME NEW w \in Workers,
            \/ BeginCycle(w) \/ ReenableRead(w) \/ ReenableWrite(w) \/ Fetch(w)
            \/ Filter(w) \/ EndCycle(w) \/ Crash(w)
      PROVE  UNCHANGED Ledger!vars
  BY <1>6 DEF BeginCycle, dbVars, controlVars, jobVars, ReenableRead,
     ReenableWrite, Fetch, Filter, EndCycle, historyVars, Crash
<1>7. ASSUME NEW w \in Workers, NEW r \in Rows,
            \/ Suppress(w, r) \/ Claim(w, r) \/ ClaimStale(w, r) \/ ClaimError(w, r)
            \/ Finish(w, r) \/ RaiseUnsaved(w, r) \/ FinishFailed(w, r)
      PROVE  UNCHANGED Ledger!vars
  BY <1>7 DEF Suppress, controlVars, cycleVars, Claim, historyVars, ClaimStale,
     dbVars, ClaimError, Finish, RaiseUnsaved, FinishFailed
<1>8. ASSUME NEW a \in Actors, NEW r \in Rows,
            \/ ContextError(a, r) \/ ProviderUnavailable(a, r) \/ ExtractListing(a, r)
      PROVE  UNCHANGED Ledger!vars
  BY <1>8 DEF dbVars, controlVars, cycleVars, ContextError, ProviderUnavailable,
     historyVars, ExtractListing
<1>9. ASSUME NEW d \in Triggers, NEW r \in Rows,
            \/ TriggerStart(d, r) \/ TriggerEnd(d, r)
      PROVE  UNCHANGED Ledger!vars
  BY <1>9 DEF TriggerStart, dbVars, controlVars, cycleVars, historyVars, TriggerEnd
<1>10. ASSUME NEW r \in Rows, Arrive(r)
      PROVE  [Ledger!Next]_(Ledger!vars)
  <2>1. {q \in Rows : exists'[q]} = {q \in Rows : exists[q]} \cup {r}
    BY <1>10 DEF Arrive, TypeOK, DbTypeOK
  <2>2. Ledger!Store(r)
    BY <1>10, <2>1 DEF Arrive, historyVars, Ledger!Store
  <2> QED
    BY <2>2 DEF Ledger!Next
<1>11. ASSUME NEW r \in Rows, ArriveHistory(r)
      PROVE  [Ledger!Next]_(Ledger!vars)
  <2>1. /\ {q \in Rows : exists'[q]} = {q \in Rows : exists[q]} \cup {r}
        /\ {q \in Rows : processed'[q]} = {q \in Rows : processed[q]} \cup {r}
    BY <1>11 DEF ArriveHistory, TypeOK, DbTypeOK
  <2>2. Ledger!Import(r)
    BY <1>11, <2>1 DEF ArriveHistory, Resolve, Ledger!Import
  <2> QED
    BY <2>2 DEF Ledger!Next
<1>12. ASSUME NEW w \in Workers, NEW r \in Rows, DeadLetter(w, r)
      PROVE  [Ledger!Next]_(Ledger!vars)
  <2>1. UNCHANGED exists /\ job[w][r] # "none" /\ w \in Actors
    BY <1>12 DEF DeadLetter, Actors
  <2>2. \/ resolved' = resolved
        \/ \E how \in Resolutions \ {"history_sync", "children"} : Resolve(r, how)
    BY <1>12 DEF DeadLetter, Resolutions
  <2>3. \/ processed' = processed
        \/ processed' = [processed EXCEPT ![r] = TRUE] /\ resolved'[r] # {}
    BY <1>12 DEF DeadLetter, Resolve, TypeOK, HistoryTypeOK
  <2> QED
    BY <2>1, <2>2, <2>3, SettleStep
<1>13. ASSUME NEW a \in Actors, NEW r \in Rows, SkipExcluded(a, r)
      PROVE  [Ledger!Next]_(Ledger!vars)
  <2>1. UNCHANGED exists /\ job[a][r] # "none" /\ a \in Actors
    BY <1>13 DEF SkipExcluded, Actors
  <2>2. \/ resolved' = resolved
        \/ \E how \in Resolutions \ {"history_sync", "children"} : Resolve(r, how)
    BY <1>13 DEF SkipExcluded, Resolutions
  <2>3. \/ processed' = processed
        \/ processed' = [processed EXCEPT ![r] = TRUE] /\ resolved'[r] # {}
    BY <1>13 DEF SkipExcluded, Resolve, TypeOK, HistoryTypeOK
  <2> QED
    BY <2>1, <2>2, <2>3, SettleStep
<1>14. ASSUME NEW a \in Actors, NEW r \in Rows, RecordRepeat(a, r)
      PROVE  [Ledger!Next]_(Ledger!vars)
  <2>1. UNCHANGED exists /\ job[a][r] # "none" /\ a \in Actors
    BY <1>14 DEF RecordRepeat, Actors
  <2>2. \/ resolved' = resolved
        \/ \E how \in Resolutions \ {"history_sync", "children"} : Resolve(r, how)
    BY <1>14 DEF RecordRepeat, Resolutions
  <2>3. \/ processed' = processed
        \/ processed' = [processed EXCEPT ![r] = TRUE] /\ resolved'[r] # {}
    BY <1>14 DEF RecordRepeat, Resolve, TypeOK, HistoryTypeOK
  <2> QED
    BY <2>1, <2>2, <2>3, SettleStep
<1>15. ASSUME NEW a \in Actors, NEW r \in Rows, Materialize(a, r)
      PROVE  [Ledger!Next]_(Ledger!vars)
  <2>1. r \in {q \in Rows : exists[q]} /\ "history_sync" \notin resolved[r]
    BY <1>15 DEF Materialize, EvidenceInv, HandInv
  <2>2. PICK missing \in SUBSET {c \in ChildrenOf[r] : ~exists[c]}, raced \in BOOLEAN :
          /\ exists' = [c \in Rows |-> exists[c] \/ c \in ChildrenOf[r] \ missing]
          /\ resolved' = [resolved EXCEPT ![r] =
                            IF missing = {} /\ ~raced THEN @ \cup {"children"} ELSE @]
    BY <1>15 DEF Materialize
  <2>3. {q \in Rows : exists'[q]}
          = {q \in Rows : exists[q]} \cup (ChildrenOf[r] \ missing)
    BY <2>2, RowAssumption
  <2>4. \E how \in SUBSET (Resolutions \ {"history_sync"}) :
          resolved' = [resolved EXCEPT ![r] = @ \cup how]
    <3>1. {} \in SUBSET (Resolutions \ {"history_sync"})
      OBVIOUS
    <3>2. {"children"} \in SUBSET (Resolutions \ {"history_sync"})
      BY DEF Resolutions
    <3>3. CASE missing = {} /\ ~raced
      BY <2>2, <3>2, <3>3
    <3>4. CASE missing # {} \/ raced
      <4>1. resolved' = [resolved EXCEPT ![r] = @ \cup {}]
        BY <2>2, <3>4 DEF TypeOK, HistoryTypeOK
      <4> QED
        BY <3>1, <4>1
    <3> QED
      BY <3>3, <3>4
  <2>5. "children" \in resolved'[r] => ChildrenOf[r] \subseteq {q \in Rows : exists'[q]}
    <3>1. CASE missing = {} /\ ~raced
      BY <2>3, <3>1
    <3>2. CASE missing # {} \/ raced
      <4>1. resolved'[r] = resolved[r]
        BY <2>2, <3>2 DEF TypeOK, HistoryTypeOK
      <4> QED
        BY <2>3, <4>1, RowAssumption DEF EvidenceInv, SplitIsComplete
    <3> QED
      BY <3>1, <3>2
  <2>6. UNCHANGED processed
    BY <1>15 DEF Materialize
  <2>7. \E new \in SUBSET ChildrenOf[r] :
          {q \in Rows : exists'[q]} = {q \in Rows : exists[q]} \cup new
    BY <2>3
  <2>8. Ledger!Settle(r)
    BY <2>1, <2>4, <2>5, <2>6, <2>7 DEF Ledger!Settle
  <2> QED
    BY <2>8 DEF Ledger!Next
<1>16. ASSUME NEW a \in Actors, NEW r \in Rows, MarkSplitParent(a, r)
      PROVE  [Ledger!Next]_(Ledger!vars)
  <2>1. UNCHANGED exists /\ job[a][r] # "none" /\ a \in Actors
    BY <1>16 DEF MarkSplitParent, Actors
  <2>2. resolved' = resolved
    BY <1>16 DEF MarkSplitParent
  <2>3. \/ processed' = processed
        \/ processed' = [processed EXCEPT ![r] = TRUE] /\ resolved'[r] # {}
    BY <1>16 DEF MarkSplitParent, EvidenceInv, HandInv
  <2> QED
    BY <2>1, <2>2, <2>3, SettleStep
<1>17. ASSUME NEW a \in Actors, NEW r \in Rows, CloneDuplicate(a, r)
      PROVE  [Ledger!Next]_(Ledger!vars)
  <2>1. UNCHANGED exists /\ job[a][r] # "none" /\ a \in Actors
    BY <1>17 DEF CloneDuplicate, Actors
  <2>2. \/ resolved' = resolved
        \/ \E how \in Resolutions \ {"history_sync", "children"} : Resolve(r, how)
    BY <1>17 DEF CloneDuplicate, Resolutions
  <2>3. \/ processed' = processed
        \/ processed' = [processed EXCEPT ![r] = TRUE] /\ resolved'[r] # {}
    BY <1>17 DEF CloneDuplicate, Resolve, TypeOK, HistoryTypeOK
  <2> QED
    BY <2>1, <2>2, <2>3, SettleStep
<1>18. ASSUME NEW a \in Actors, NEW r \in Rows, SaveListing(a, r)
      PROVE  [Ledger!Next]_(Ledger!vars)
  <2>1. UNCHANGED exists /\ job[a][r] # "none" /\ a \in Actors
    BY <1>18 DEF SaveListing, Actors
  <2>2. \/ resolved' = resolved
        \/ \E how \in Resolutions \ {"history_sync", "children"} : Resolve(r, how)
    BY <1>18 DEF SaveListing, Resolutions
  <2>3. \/ processed' = processed
        \/ processed' = [processed EXCEPT ![r] = TRUE] /\ resolved'[r] # {}
    BY <1>18 DEF SaveListing, Resolve, TypeOK, HistoryTypeOK
  <2> QED
    BY <2>1, <2>2, <2>3, SettleStep
<1>19. ASSUME NEW a \in Actors, NEW r \in Rows, SaveStub(a, r)
      PROVE  [Ledger!Next]_(Ledger!vars)
  <2>1. UNCHANGED exists /\ job[a][r] # "none" /\ a \in Actors
    BY <1>19 DEF SaveStub, Actors
  <2>2. \/ resolved' = resolved
        \/ \E how \in Resolutions \ {"history_sync", "children"} : Resolve(r, how)
    BY <1>19 DEF SaveStub, Resolutions
  <2>3. \/ processed' = processed
        \/ processed' = [processed EXCEPT ![r] = TRUE] /\ resolved'[r] # {}
    BY <1>19 DEF SaveStub, Resolve, TypeOK, HistoryTypeOK
  <2> QED
    BY <2>1, <2>2, <2>3, SettleStep
<1>20. ASSUME NEW a \in Actors, NEW r \in Rows, MarkProcessed(a, r)
      PROVE  [Ledger!Next]_(Ledger!vars)
  <2>1. UNCHANGED exists /\ job[a][r] # "none" /\ a \in Actors
    BY <1>20 DEF MarkProcessed, Actors
  <2>2. resolved' = resolved
    BY <1>20 DEF MarkProcessed
  <2>3. \/ processed' = processed
        \/ processed' = [processed EXCEPT ![r] = TRUE] /\ resolved'[r] # {}
    BY <1>20 DEF MarkProcessed, EvidenceInv, HandInv
  <2> QED
    BY <2>1, <2>2, <2>3, SettleStep
<1>21. ASSUME NEW a \in Actors, NEW r \in Rows, PassGates(a, r)
      PROVE  [Ledger!Next]_(Ledger!vars)
  <2>1. UNCHANGED exists /\ job[a][r] # "none" /\ a \in Actors
    BY <1>21 DEF PassGates, Actors
  <2>2. \/ resolved' = resolved
        \/ \E how \in Resolutions \ {"history_sync", "children"} : Resolve(r, how)
    BY <1>21 DEF PassGates, Resolutions
  <2>3. \/ processed' = processed
        \/ processed' = [processed EXCEPT ![r] = TRUE] /\ resolved'[r] # {}
    BY <1>21 DEF PassGates, Resolve, TypeOK, HistoryTypeOK
  <2> QED
    BY <2>1, <2>2, <2>3, SettleStep
<1> QED
  BY <1>1, <1>2, <1>3, <1>4, <1>5, <1>6, <1>7, <1>8, <1>9, <1>10, <1>11, <1>12, <1>13, <1>14, <1>15, <1>16, <1>17, <1>18, <1>19, <1>20, <1>21 DEF
     Next, ControlPlane, ControlWrites, WorkerStep, RowStep, Pipeline, TriggerStep,
     Actors

(* The queue implements the ledger: rows stay, are consumed once and for   *)
(* good, only on evidence, and split parents have all their slices.        *)
THEOREM Refinement == Spec => ImplementsLedger
<1>1. Init => Ledger!Init
  BY DEF Init, Ledger!Init
<1>2. QueueInv /\ [Next]_vars => [Ledger!Next]_(Ledger!vars)
  BY LedgerStep DEF QueueInv
<1> QED
  BY <1>1, <1>2, Invariant, PTL DEF Spec, ImplementsLedger, Ledger!Spec
=============================================================================
