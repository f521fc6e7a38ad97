------------------------ MODULE BoundaryRepairProofs ------------------------
(***************************************************************************)
(* Proofs about BoundaryRepair, for every set of parents, slices and       *)
(* workers and every bound. The inductive invariant has three parts next   *)
(* to the types: a worker cuts one parent at a time, the slices it has not *)
(* missed are stored or still to come, and a job that a worker holds stays *)
(* out of the queue unless the admin endpoint put it back there.           *)
(***************************************************************************)
EXTENDS BoundaryRepair, FiniteSetTheorems, TLAPS

(* A worker cuts one parent at a time. *)
OneAtATime ==
  \A w \in Repairers, p, q \in Parents :
    phase[w][p] \notin {"none", "claimed"} /\ phase[w][q] \notin {"none", "claimed"} => p = q

(* Every slice of the parent being cut is stored, still to come or missed. *)
SlicesAccounted ==
  \A w \in Repairers, p \in Parents :
    phase[w][p] = "slicing" => short[w] \/ SlicesOf(p) \subseteq stored \cup left[w]

(* A held job is not in the queue, unless it was put back there. *)
HeldIsRunning ==
  \A w \in Repairers, p \in Parents :
    phase[w][p] # "none" /\ p \notin reopened => job[p] \in {"running", "completed"}

SlicingInv == OneAtATime /\ SlicesAccounted /\ SupersededOnlyWhenSliced
HoldingInv == HeldIsRunning /\ OneRepairer
RepairInv == TypeOK /\ SlicingInv /\ HoldingInv

(* Creation ranks are natural numbers. *)
LEMMA RankType == NewRank \in Nat
<1>1. IsFiniteSet({p \in Parents : job[p] # "absent"})
  BY FS_Subset, RepairAssumption
<1> QED
  BY <1>1, FS_CardinalityType DEF NewRank

(* Every reachable state starts from the invariant. *)
LEMMA InitInv == ASSUME Init PROVE RepairInv
<1>1. TypeOK
  BY RepairAssumption DEF Init, TypeOK, DbTypeOK, ProcTypeOK, BoundTypeOK, Statuses, Phases, Marks
<1>2. OneAtATime /\ SlicesAccounted /\ SupersededOnlyWhenSliced
  BY DEF Init, OneAtATime, SlicesAccounted, SupersededOnlyWhenSliced
<1>3. HeldIsRunning /\ OneRepairer
  BY DEF Init, HeldIsRunning, OneRepairer, Held
<1> QED
  BY <1>1, <1>2, <1>3 DEF RepairInv, SlicingInv, HoldingInv

(* Each step keeps the types. *)
LEMMA TypeStep == ASSUME TypeOK, [Next]_vars PROVE TypeOK'
<1>1. CASE UNCHANGED vars
  BY <1>1 DEF vars, dbVars, procVars, boundVars, TypeOK, DbTypeOK, ProcTypeOK, BoundTypeOK
<1>2. CASE Migrate
  BY <1>2, RankType DEF Migrate, procVars, boundVars, TypeOK, DbTypeOK, ProcTypeOK, BoundTypeOK,
     Statuses
<1>3. ASSUME NEW p \in Parents, PickCandidate(p)
      PROVE  TypeOK'
  <2>1. DbTypeOK'
    BY <1>3 DEF PickCandidate, dbVars, TypeOK, DbTypeOK, Statuses
  <2>2. ProcTypeOK'
    BY <1>3 DEF PickCandidate, dbVars, TypeOK, ProcTypeOK, Phases, Marks
  <2>3. BoundTypeOK'
    BY <1>3, RepairAssumption DEF PickCandidate, dbVars, TypeOK, BoundTypeOK
  <2> QED
    BY <2>1, <2>2, <2>3 DEF TypeOK
<1>4. ASSUME NEW p \in Parents, UpsertJob(p)
      PROVE  TypeOK'
  <2>1. DbTypeOK'
    BY <1>4, RankType DEF UpsertJob, Enqueue, SetJob, TypeOK, DbTypeOK, Statuses
  <2>2. ProcTypeOK'
    BY <1>4 DEF UpsertJob, Enqueue, SetJob, TypeOK, ProcTypeOK, Phases, Marks
  <2>3. BoundTypeOK'
    <3>1. reopened' \subseteq Parents
      BY <1>4 DEF UpsertJob, Enqueue, TypeOK, BoundTypeOK
    <3>2. faults' \in 0..MaxFaults
      <4>1. faults \in 0..MaxFaults /\ MaxFaults \in Nat
        BY RepairAssumption DEF TypeOK, BoundTypeOK
      <4>2. faults' = faults \/ (faults < MaxFaults /\ faults' = faults + 1)
        BY <1>4 DEF UpsertJob, Fault, NoFault
      <4> QED
        BY <4>1, <4>2
    <3> QED
      BY <1>4, <3>1, <3>2 DEF UpsertJob, TypeOK, BoundTypeOK
  <2> QED
    BY <2>1, <2>2, <2>3 DEF TypeOK
<1>5. ASSUME NEW p \in Parents, UpdateJob(p)
      PROVE  TypeOK'
  <2>1. DbTypeOK'
    BY <1>5 DEF UpdateJob, Enqueue, SetJob, TypeOK, DbTypeOK, Statuses
  <2>2. ProcTypeOK'
    BY <1>5 DEF UpdateJob, Enqueue, SetJob, TypeOK, ProcTypeOK, Phases, Marks
  <2>3. BoundTypeOK'
    <3>1. reopened' \subseteq Parents
      BY <1>5 DEF UpdateJob, Enqueue, TypeOK, BoundTypeOK
    <3>2. faults' \in 0..MaxFaults
      <4>1. faults \in 0..MaxFaults /\ MaxFaults \in Nat
        BY RepairAssumption DEF TypeOK, BoundTypeOK
      <4>2. faults' = faults \/ (faults < MaxFaults /\ faults' = faults + 1)
        BY <1>5 DEF UpdateJob, Fault, NoFault
      <4> QED
        BY <4>1, <4>2
    <3> QED
      BY <1>5, <3>1, <3>2 DEF UpdateJob, TypeOK, BoundTypeOK
  <2> QED
    BY <2>1, <2>2, <2>3 DEF TypeOK
<1>6. ASSUME NEW w \in Repairers, ClaimJobs(w)
      PROVE  TypeOK'
  <2>1. DbTypeOK'
    BY <1>6 DEF ClaimJobs, Queued, boundVars, TypeOK, DbTypeOK, Statuses
  <2>2. ProcTypeOK'
    BY <1>6 DEF ClaimJobs, Queued, boundVars, TypeOK, ProcTypeOK, Phases, Marks
  <2>3. BoundTypeOK'
    BY <1>6, RepairAssumption DEF ClaimJobs, Queued, boundVars, TypeOK, BoundTypeOK
  <2> QED
    BY <2>1, <2>2, <2>3 DEF TypeOK
<1>7. ASSUME NEW w \in Repairers, CrashRepairer(w)
      PROVE  TypeOK'
  <2>1. DbTypeOK'
    BY <1>7 DEF CrashRepairer, dbVars, Drop, TypeOK, DbTypeOK, Statuses
  <2>2. ProcTypeOK'
    BY <1>7 DEF CrashRepairer, dbVars, Drop, TypeOK, ProcTypeOK, Phases, Marks
  <2>3. BoundTypeOK'
    BY <1>7, RepairAssumption DEF CrashRepairer, dbVars, Drop, TypeOK, BoundTypeOK
  <2> QED
    BY <2>1, <2>2, <2>3 DEF TypeOK
<1>8. ASSUME NEW w \in Repairers, NEW p \in Parents, StartSlicing(w, p)
      PROVE  TypeOK'
  <2>1. DbTypeOK'
    BY <1>8 DEF StartSlicing, dbVars, SlicesOf, SetPhase, TypeOK, DbTypeOK, Statuses
  <2>2. ProcTypeOK'
    <3>1. PICK to \in Phases : SetPhase(w, p, to)
      BY <1>8 DEF StartSlicing, Phases
    <3>2. phase' \in [Repairers -> [Parents -> Phases]]
      BY <3>1 DEF SetPhase, TypeOK, ProcTypeOK
    <3> QED
      BY <1>8, <3>2 DEF StartSlicing, dbVars, SlicesOf, TypeOK, ProcTypeOK
  <2>3. BoundTypeOK'
    BY <1>8, RepairAssumption DEF StartSlicing, dbVars, SlicesOf, SetPhase, Fault, NoFault, TypeOK, BoundTypeOK
  <2> QED
    BY <2>1, <2>2, <2>3 DEF TypeOK
<1>9. ASSUME NEW w \in Repairers, NEW p \in Parents, NoSplit(w, p)
      PROVE  TypeOK'
  <2>1. DbTypeOK'
    BY <1>9 DEF NoSplit, SetJob, SetPhase, TypeOK, DbTypeOK, Statuses
  <2>2. ProcTypeOK'
    BY <1>9 DEF NoSplit, SetJob, SetPhase, TypeOK, ProcTypeOK, Phases, Marks
  <2>3. BoundTypeOK'
    BY <1>9, RepairAssumption DEF NoSplit, SetJob, SetPhase, Fault, NoFault, TypeOK, BoundTypeOK
  <2> QED
    BY <2>1, <2>2, <2>3 DEF TypeOK
<1>10. ASSUME NEW w \in Repairers, NEW p \in Parents, InsertSlice(w, p)
      PROVE  TypeOK'
  <2>1. DbTypeOK'
    <3>1. stored' \subseteq Slices
      BY <1>10 DEF InsertSlice, TypeOK, DbTypeOK, ProcTypeOK
    <3> QED
      BY <1>10, <3>1 DEF InsertSlice, TypeOK, DbTypeOK
  <2>2. ProcTypeOK'
    BY <1>10 DEF InsertSlice, TypeOK, ProcTypeOK, Phases, Marks
  <2>3. BoundTypeOK'
    BY <1>10, RepairAssumption DEF InsertSlice, Fault, NoFault, TypeOK, BoundTypeOK
  <2> QED
    BY <2>1, <2>2, <2>3 DEF TypeOK
<1>11. ASSUME NEW w \in Repairers, NEW p \in Parents, Supersede(w, p)
      PROVE  TypeOK'
  <2>1. DbTypeOK'
    BY <1>11 DEF Supersede, SetPhase, TypeOK, DbTypeOK, Statuses
  <2>2. ProcTypeOK'
    <3>1. PICK to \in Phases : SetPhase(w, p, to)
      BY <1>11 DEF Supersede, Phases
    <3>2. phase' \in [Repairers -> [Parents -> Phases]]
      BY <3>1 DEF SetPhase, TypeOK, ProcTypeOK
    <3> QED
      BY <1>11, <3>2 DEF Supersede, TypeOK, ProcTypeOK
  <2>3. BoundTypeOK'
    BY <1>11, RepairAssumption DEF Supersede, SetPhase, Fault, NoFault, TypeOK, BoundTypeOK
  <2> QED
    BY <2>1, <2>2, <2>3 DEF TypeOK
<1>12. ASSUME NEW w \in Repairers, NEW p \in Parents, Requeue(w, p)
      PROVE  TypeOK'
  <2>1. DbTypeOK'
    BY <1>12 DEF Requeue, SetJob, SetPhase, TypeOK, DbTypeOK, Statuses
  <2>2. ProcTypeOK'
    <3>1. PICK to \in Phases : SetPhase(w, p, to)
      BY <1>12 DEF Requeue, Phases
    <3>2. phase' \in [Repairers -> [Parents -> Phases]]
      BY <3>1 DEF SetPhase, TypeOK, ProcTypeOK
    <3> QED
      BY <1>12, <3>2 DEF Requeue, TypeOK, ProcTypeOK
  <2>3. BoundTypeOK'
    BY <1>12, RepairAssumption DEF Requeue, SetJob, SetPhase, Fault, NoFault, TypeOK, BoundTypeOK
  <2> QED
    BY <2>1, <2>2, <2>3 DEF TypeOK
<1>13. ASSUME NEW w \in Repairers, NEW p \in Parents, RecordFailure(w, p)
      PROVE  TypeOK'
  <2>1. DbTypeOK'
    BY <1>13 DEF RecordFailure, SetJob, SetPhase, Drop, TypeOK, DbTypeOK, Statuses
  <2>2. ProcTypeOK'
    <3>1. CASE SetPhase(w, p, "none") /\ UNCHANGED <<left, short>>
      BY <1>13, <3>1 DEF RecordFailure, SetPhase, TypeOK, ProcTypeOK, Phases
    <3>2. CASE Drop(w)
      BY <1>13, <3>2 DEF RecordFailure, Drop, TypeOK, ProcTypeOK, Phases
    <3> QED
      BY <1>13, <3>1, <3>2 DEF RecordFailure
  <2>3. BoundTypeOK'
    BY <1>13, RepairAssumption DEF RecordFailure, SetJob, SetPhase, Drop, Fault, NoFault, TypeOK, BoundTypeOK
  <2> QED
    BY <2>1, <2>2, <2>3 DEF TypeOK
<1>14. ASSUME NEW e \in Extractors, NEW c \in Slices, StartSlice(e, c)
      PROVE  TypeOK'
  <2>1. DbTypeOK'
    BY <1>14 DEF StartSlice, SetMark, dbVars, boundVars, TypeOK, DbTypeOK, Statuses
  <2>2. ProcTypeOK'
    BY <1>14 DEF StartSlice, SetMark, dbVars, boundVars, TypeOK, ProcTypeOK, Phases, Marks
  <2>3. BoundTypeOK'
    BY <1>14, RepairAssumption DEF StartSlice, SetMark, dbVars, boundVars, TypeOK, BoundTypeOK
  <2> QED
    BY <2>1, <2>2, <2>3 DEF TypeOK
<1>15. ASSUME NEW e \in Extractors, NEW c \in Slices, MarkSlice(e, c)
      PROVE  TypeOK'
  <2>1. DbTypeOK'
    BY <1>15 DEF MarkSlice, SetMark, TypeOK, DbTypeOK, Statuses
  <2>2. ProcTypeOK'
    <3>1. PICK to \in Marks : SetMark(e, c, to)
      BY <1>15 DEF MarkSlice, Marks
    <3>2. mark' \in [Extractors -> [Slices -> Marks]]
      BY <3>1 DEF SetMark, TypeOK, ProcTypeOK
    <3> QED
      BY <1>15, <3>2 DEF MarkSlice, TypeOK, ProcTypeOK
  <2>3. BoundTypeOK'
    BY <1>15, RepairAssumption DEF MarkSlice, SetMark, Fault, NoFault, TypeOK, BoundTypeOK
  <2> QED
    BY <2>1, <2>2, <2>3 DEF TypeOK
<1>16. ASSUME NEW e \in Extractors, NEW c \in Slices, CountSlices(e, c)
      PROVE  TypeOK'
  <2>1. DbTypeOK'
    BY <1>16 DEF CountSlices, SetMark, dbVars, TypeOK, DbTypeOK, Statuses
  <2>2. ProcTypeOK'
    BY <1>16 DEF CountSlices, SetMark, dbVars, TypeOK, ProcTypeOK, Phases, Marks
  <2>3. BoundTypeOK'
    BY <1>16, RepairAssumption DEF CountSlices, SetMark, dbVars, Fault, NoFault, TypeOK, BoundTypeOK
  <2> QED
    BY <2>1, <2>2, <2>3 DEF TypeOK
<1>17. ASSUME NEW e \in Extractors, NEW c \in Slices, CompleteJob(e, c)
      PROVE  TypeOK'
  <2>1. DbTypeOK'
    BY <1>17 DEF CompleteJob, SetMark, SetJob, TypeOK, DbTypeOK, Statuses
  <2>2. ProcTypeOK'
    BY <1>17 DEF CompleteJob, SetMark, SetJob, TypeOK, ProcTypeOK, Phases, Marks
  <2>3. BoundTypeOK'
    BY <1>17, RepairAssumption DEF CompleteJob, SetMark, SetJob, Fault, NoFault, TypeOK, BoundTypeOK
  <2> QED
    BY <2>1, <2>2, <2>3 DEF TypeOK
<1>18. ASSUME NEW c \in Slices, DeadLetterSlice(c)
      PROVE  TypeOK'
  <2>1. DbTypeOK'
    BY <1>18 DEF DeadLetterSlice, procVars, boundVars, TypeOK, DbTypeOK, Statuses
  <2>2. ProcTypeOK'
    BY <1>18 DEF DeadLetterSlice, procVars, boundVars, TypeOK, ProcTypeOK, Phases, Marks
  <2>3. BoundTypeOK'
    BY <1>18, RepairAssumption DEF DeadLetterSlice, procVars, boundVars, TypeOK, BoundTypeOK
  <2> QED
    BY <2>1, <2>2, <2>3 DEF TypeOK
<1> QED
  BY <1>1, <1>2, <1>3, <1>4, <1>5, <1>6, <1>7, <1>8, <1>9, <1>10, <1>11, <1>12, <1>13, <1>14, <1>15, <1>16, <1>17, <1>18
     DEF Next, AdminStep, RepairStep, SliceStep

-----------------------------------------------------------------------------
(* What a worker knows of the slices of the parent it is cutting: inserts  *)
(* only add slices, so neither other workers nor extraction can disturb it. *)
LEMMA SlicingStep == ASSUME TypeOK, SlicingInv, [Next]_vars PROVE SlicingInv'
<1> USE DEF SlicingInv
<1>1. CASE phase' = phase /\ left' = left /\ short' = short /\ stored' = stored
           /\ superseded' = superseded
  BY <1>1 DEF OneAtATime, SlicesAccounted, SupersededOnlyWhenSliced
<1>2. CASE Migrate \/ (\E p \in Parents : AdminStep(p))
           \/ (\E e \in Extractors, c \in Slices : SliceStep(e, c))
           \/ (\E c \in Slices : DeadLetterSlice(c)) \/ UNCHANGED vars
  <2>1. phase' = phase /\ left' = left /\ short' = short /\ stored' = stored
        /\ superseded' = superseded
    BY <1>2 DEF Migrate, AdminStep, PickCandidate, UpsertJob, UpdateJob, SliceStep, StartSlice,
       MarkSlice, CountSlices, CompleteJob, DeadLetterSlice, vars, dbVars, procVars, boundVars
  <2> QED
    BY <1>1, <2>1
<1>3. ASSUME NEW w \in Repairers, ClaimJobs(w) PROVE SlicingInv'
  <2>1. \A v \in Repairers, p \in Parents :
          phase'[v][p] = phase[v][p] \/ phase'[v][p] \in {"none", "claimed"}
    BY <1>3 DEF ClaimJobs, TypeOK, ProcTypeOK, DbTypeOK
  <2> QED
    BY <1>3, <2>1 DEF ClaimJobs, OneAtATime, SlicesAccounted, SupersededOnlyWhenSliced
<1>4. ASSUME NEW w \in Repairers, Drop(w), UNCHANGED <<stored, superseded>>
      PROVE  SlicingInv'
  <2>1. \A p \in Parents : phase'[w][p] = "none"
    BY <1>4 DEF Drop, TypeOK, ProcTypeOK, DbTypeOK
  <2>2. \A v \in Repairers \ {w} :
          phase'[v] = phase[v] /\ left'[v] = left[v] /\ short'[v] = short[v]
    BY <1>4 DEF Drop, TypeOK, ProcTypeOK, DbTypeOK
  <2> QED
    BY <1>4, <2>1, <2>2 DEF OneAtATime, SlicesAccounted, SupersededOnlyWhenSliced
<1>5. ASSUME NEW w \in Repairers, CrashRepairer(w) PROVE SlicingInv'
  BY <1>4, <1>5 DEF CrashRepairer, dbVars
<1>6. ASSUME NEW w \in Repairers, NEW p \in Parents, NEW to \in Phases, SetPhase(w, p, to)
      PROVE  /\ phase'[w][p] = to
             /\ \A v \in Repairers, q \in Parents :
                  v # w \/ q # p => phase'[v][q] = phase[v][q]
  BY <1>6 DEF SetPhase, TypeOK, ProcTypeOK, DbTypeOK
<1>7. ASSUME NEW w \in Repairers, NEW p \in Parents, StartSlicing(w, p) PROVE SlicingInv'
  <2>1. CASE SetPhase(w, p, "slicing") /\ left' = [left EXCEPT ![w] = SlicesOf(p)]
    <3>1. left'[w] = SlicesOf(p) /\ \A v \in Repairers \ {w} : left'[v] = left[v]
      BY <2>1 DEF TypeOK, ProcTypeOK, DbTypeOK
    <3>2. phase'[w][p] = "slicing"
          /\ \A v \in Repairers, q \in Parents : v # w \/ q # p => phase'[v][q] = phase[v][q]
      BY <1>6, <2>1 DEF Phases
    <3>3. OneAtATime'
      BY <1>7, <3>2 DEF StartSlicing, Idle, OneAtATime
    <3>4. SlicesAccounted'
      BY <1>7, <3>1, <3>2 DEF StartSlicing, Idle, SlicesAccounted, SlicesOf, dbVars
    <3> QED
      BY <1>7, <3>3, <3>4 DEF StartSlicing, SupersededOnlyWhenSliced, dbVars, SlicesOf
  <2>2. CASE SetPhase(w, p, "failing") /\ UNCHANGED left
    <3>1. phase'[w][p] = "failing"
          /\ \A v \in Repairers, q \in Parents : v # w \/ q # p => phase'[v][q] = phase[v][q]
      BY <1>6, <2>2 DEF Phases
    <3> QED
      BY <1>7, <2>2, <3>1 DEF StartSlicing, Idle, OneAtATime, SlicesAccounted,
         SupersededOnlyWhenSliced, dbVars, SlicesOf
  <2> QED
    BY <1>7, <2>1, <2>2 DEF StartSlicing
<1>8. ASSUME NEW w \in Repairers, NEW p \in Parents, NoSplit(w, p) PROVE SlicingInv'
  <2>1. PICK to \in {"none", "failing"} : SetPhase(w, p, to)
    BY <1>8 DEF NoSplit
  <2>2. phase'[w][p] = to
        /\ \A v \in Repairers, q \in Parents : v # w \/ q # p => phase'[v][q] = phase[v][q]
    BY <1>6, <2>1 DEF Phases
  <2> QED
    BY <1>8, <2>2 DEF NoSplit, Idle, OneAtATime, SlicesAccounted, SupersededOnlyWhenSliced,
       SlicesOf
<1>9. ASSUME NEW w \in Repairers, NEW p \in Parents, InsertSlice(w, p) PROVE SlicingInv'
  <2>1. PICK c \in left[w] :
          /\ left' = [left EXCEPT ![w] = @ \ {c}]
          /\ \/ stored' = stored \cup {c} /\ UNCHANGED short
             \/ short' = [short EXCEPT ![w] = TRUE] /\ UNCHANGED stored
    BY <1>9 DEF InsertSlice
  <2>2. stored \subseteq stored' /\ UNCHANGED <<phase, superseded>>
    BY <1>9, <2>1 DEF InsertSlice
  <2>3. \A v \in Repairers \ {w} : left'[v] = left[v] /\ short'[v] = short[v]
    BY <2>1 DEF TypeOK, ProcTypeOK, DbTypeOK
  <2>4. short'[w] \/ (stored \cup left[w] \subseteq stored' \cup left'[w] /\ short'[w] = short[w])
    BY <2>1 DEF TypeOK, ProcTypeOK, DbTypeOK
  <2>5. SlicesAccounted'
    BY <2>2, <2>3, <2>4 DEF SlicesAccounted, SlicesOf
  <2> QED
    BY <2>2, <2>5 DEF OneAtATime, SupersededOnlyWhenSliced, SlicesOf
<1>10. ASSUME NEW w \in Repairers, NEW p \in Parents, Supersede(w, p) PROVE SlicingInv'
  <2>1. PICK to \in {"requeueing", "failing"} : SetPhase(w, p, to)
    BY <1>10 DEF Supersede
  <2>2. phase'[w][p] = to
        /\ \A v \in Repairers, q \in Parents : v # w \/ q # p => phase'[v][q] = phase[v][q]
    BY <1>6, <2>1 DEF Phases
  <2>3. \A q \in Parents : phase[w][q] = "slicing" => q = p
    BY <1>10 DEF Supersede, OneAtATime
  <2>4. \A v \in Repairers \ {w} : short'[v] = short[v]
    BY <1>10 DEF Supersede, TypeOK, ProcTypeOK, DbTypeOK
  <2>5. OneAtATime'
    BY <1>10, <2>2 DEF Supersede, OneAtATime
  <2>6. SlicesAccounted'
    BY <1>10, <2>2, <2>3, <2>4 DEF Supersede, SlicesAccounted, SlicesOf
  <2>7. superseded' \subseteq superseded \cup {p}
        /\ (superseded' = superseded \/ SlicesOf(p) \subseteq stored)
    BY <1>10 DEF Supersede, SlicesAccounted
  <2>8. SupersededOnlyWhenSliced'
    BY <1>10, <2>7 DEF Supersede, SupersededOnlyWhenSliced, SlicesOf
  <2> QED
    BY <2>5, <2>6, <2>8
<1>11. ASSUME NEW w \in Repairers, NEW p \in Parents, Requeue(w, p) PROVE SlicingInv'
  <2>1. PICK to \in {"none", "failing"} : SetPhase(w, p, to)
    BY <1>11 DEF Requeue
  <2>2. phase'[w][p] = to
        /\ \A v \in Repairers, q \in Parents : v # w \/ q # p => phase'[v][q] = phase[v][q]
    BY <1>6, <2>1 DEF Phases
  <2> QED
    BY <1>11, <2>2 DEF Requeue, OneAtATime, SlicesAccounted, SupersededOnlyWhenSliced, SlicesOf
<1>12. ASSUME NEW w \in Repairers, NEW p \in Parents, RecordFailure(w, p) PROVE SlicingInv'
  <2>1. CASE SetPhase(w, p, "none") /\ UNCHANGED <<left, short>>
    <3>1. phase'[w][p] = "none"
          /\ \A v \in Repairers, q \in Parents : v # w \/ q # p => phase'[v][q] = phase[v][q]
      BY <1>6, <2>1 DEF Phases
    <3> QED
      BY <1>12, <2>1, <3>1 DEF RecordFailure, OneAtATime, SlicesAccounted,
         SupersededOnlyWhenSliced, SlicesOf
  <2>2. CASE Drop(w)
    BY <1>4, <1>12, <2>2 DEF RecordFailure
  <2> QED
    BY <1>12, <2>1, <2>2 DEF RecordFailure
<1> QED
  BY <1>2, <1>3, <1>5, <1>7, <1>8, <1>9, <1>10, <1>11, <1>12 DEF Next, RepairStep

-----------------------------------------------------------------------------
(* Who holds a job: a claim takes only queued jobs, and a job that is held *)
(* is queued only when the admin endpoint reopened it.                     *)
LEMMA HoldingStep == ASSUME TypeOK, HoldingInv, [Next]_vars PROVE HoldingInv'
<1> USE DEF HoldingInv
(* A step that gives no job to a worker and queues no held job. *)
<1>1. ASSUME \A w \in Repairers, p \in Parents : phase'[w][p] # "none" => phase[w][p] # "none",
             reopened \subseteq reopened',
             \A w \in Repairers, p \in Parents :
               phase'[w][p] # "none" /\ p \notin reopened' =>
                 job'[p] = job[p] \/ job'[p] \in {"running", "completed"}
      PROVE  HoldingInv'
  <2>1. HeldIsRunning'
    BY <1>1 DEF HeldIsRunning
  <2>2. \A w \in Repairers : Held(w)' \subseteq Held(w)
    BY <1>1 DEF Held
  <2>3. OneRepairer'
    BY <1>1, <2>2 DEF OneRepairer
  <2> QED
    BY <2>1, <2>3
<1>2. CASE UNCHANGED <<job, phase, reopened>>
  BY <1>1, <1>2
<1>3. CASE Migrate
  <2>1. UNCHANGED <<phase, reopened>>
    BY <1>3 DEF Migrate, procVars, boundVars
  <2>2. \A p \in Parents : job'[p] = job[p] \/ job[p] = "absent"
    BY <1>3 DEF Migrate
  <2>3. \A w \in Repairers, p \in Parents :
          phase[w][p] # "none" /\ p \notin reopened => job'[p] = job[p]
    BY <2>2 DEF HeldIsRunning
  <2> QED
    BY <1>1, <2>1, <2>3
<1>4. ASSUME NEW p \in Parents, Enqueue(p), UNCHANGED phase PROVE HoldingInv'
  <2>1. \A q \in Parents : q # p => job'[q] = job[q]
    BY <1>4 DEF Enqueue, SetJob, TypeOK, ProcTypeOK, DbTypeOK
  <2>2. reopened \subseteq reopened' /\ (HeldByAny(p) => p \in reopened')
    BY <1>4 DEF Enqueue
  <2>3. \A w \in Repairers, q \in Parents :
          phase[w][q] # "none" /\ q \notin reopened' => job'[q] = job[q]
    BY <2>1, <2>2 DEF HeldByAny, Held
  <2> QED
    BY <1>1, <1>4, <2>2, <2>3
<1>5. ASSUME NEW p \in Parents, AdminStep(p) PROVE HoldingInv'
  <2>1. UNCHANGED phase /\ (Enqueue(p) \/ UNCHANGED <<job, reopened>>)
    BY <1>5 DEF AdminStep, PickCandidate, UpsertJob, UpdateJob, dbVars
  <2> QED
    BY <1>2, <1>4, <2>1
<1>6. ASSUME NEW w \in Repairers, ClaimJobs(w) PROVE HoldingInv'
  <2>1. PICK batch \in SUBSET Queued :
          /\ job' = [p \in Parents |-> IF p \in batch THEN "running" ELSE job[p]]
          /\ phase' = [phase EXCEPT ![w] =
                         [p \in Parents |-> IF p \in batch THEN "claimed" ELSE "none"]]
    BY <1>6 DEF ClaimJobs
  <2>2. reopened' = reopened
    BY <1>6 DEF ClaimJobs, boundVars
  <2>3. \A p \in Parents : phase'[w][p] # "none" => p \in batch
    BY <2>1 DEF TypeOK, ProcTypeOK, DbTypeOK
  <2>4. \A v \in Repairers \ {w}, p \in Parents : phase'[v][p] = phase[v][p]
    BY <2>1 DEF TypeOK, ProcTypeOK, DbTypeOK
  <2>5. HeldIsRunning'
    BY <2>1, <2>2, <2>3, <2>4 DEF HeldIsRunning
  <2>6. \A v \in Repairers, p \in batch : phase[v][p] # "none" => p \in reopened
    BY DEF HeldIsRunning, Queued
  <2>7. OneRepairer'
    <3> SUFFICES ASSUME NEW u \in Repairers, NEW v \in Repairers, u # v, NEW p \in Parents,
                        phase'[u][p] # "none", phase'[v][p] # "none"
                 PROVE  p \in reopened
      BY <2>2 DEF OneRepairer, Held
    <3>1. CASE u = w
      BY <2>3, <2>4, <2>6, <3>1
    <3>2. CASE v = w
      BY <2>3, <2>4, <2>6, <3>2
    <3>3. CASE u # w /\ v # w
      BY <2>4, <3>3 DEF OneRepairer, Held
    <3> QED
      BY <3>1, <3>2, <3>3
  <2> QED
    BY <2>5, <2>7
<1>7. ASSUME NEW w \in Repairers, Drop(w), UNCHANGED <<job, reopened>> PROVE HoldingInv'
  <2>1. \A v \in Repairers, p \in Parents : phase'[v][p] # "none" => phase[v][p] # "none"
    BY <1>7 DEF Drop, TypeOK, ProcTypeOK, DbTypeOK
  <2> QED
    BY <1>1, <1>7, <2>1
<1>8. ASSUME NEW w \in Repairers, NEW p \in Parents, NEW to \in Phases, phase[w][p] # "none",
             SetPhase(w, p, to), UNCHANGED <<job, reopened>>
      PROVE  HoldingInv'
  <2>1. \A v \in Repairers, q \in Parents : phase'[v][q] # "none" => phase[v][q] # "none"
    BY <1>8 DEF SetPhase, TypeOK, ProcTypeOK, DbTypeOK
  <2> QED
    BY <1>1, <1>8, <2>1
(* A worker that closes a job lets go of it. *)
<1>9. ASSUME NEW w \in Repairers, NEW p \in Parents, NEW status \in Statuses,
             phase[w][p] # "none", SetPhase(w, p, "none"), SetJob(p, status),
             UNCHANGED reopened
      PROVE  HoldingInv'
  <2>1. phase'[w][p] = "none"
        /\ \A v \in Repairers, q \in Parents : v # w \/ q # p => phase'[v][q] = phase[v][q]
    BY <1>9 DEF SetPhase, Phases, TypeOK, ProcTypeOK, DbTypeOK
  <2>2. \A q \in Parents : q # p => job'[q] = job[q]
    BY <1>9 DEF SetJob, TypeOK, ProcTypeOK, DbTypeOK
  <2>3. \A v \in Repairers \ {w} : phase[v][p] # "none" => p \in reopened
    BY <1>9 DEF OneRepairer, Held
  <2>4. \A v \in Repairers, q \in Parents :
          phase'[v][q] # "none" /\ q \notin reopened => job'[q] = job[q]
    BY <2>1, <2>2, <2>3
  <2> QED
    BY <1>1, <1>9, <2>1, <2>4
<1>10. ASSUME NEW w \in Repairers, NEW p \in Parents,
              StartSlicing(w, p) \/ InsertSlice(w, p) \/ Supersede(w, p)
       PROVE  HoldingInv'
  <2>1. CASE StartSlicing(w, p)
    BY <1>8, <2>1 DEF StartSlicing, Phases, dbVars
  <2>2. CASE InsertSlice(w, p)
    BY <1>2, <2>2 DEF InsertSlice
  <2>3. CASE Supersede(w, p)
    BY <1>8, <2>3 DEF Supersede, Phases
  <2> QED
    BY <1>10, <2>1, <2>2, <2>3
<1>11. ASSUME NEW w \in Repairers, NEW p \in Parents,
              NoSplit(w, p) \/ Requeue(w, p) \/ RecordFailure(w, p)
       PROVE  HoldingInv'
  <2>1. CASE NoSplit(w, p)
    BY <1>8, <1>9, <2>1 DEF NoSplit, Phases, Statuses
  <2>2. CASE Requeue(w, p)
    BY <1>8, <1>9, <2>2 DEF Requeue, Phases, Statuses
  <2>3. CASE RecordFailure(w, p)
    BY <1>7, <1>9, <2>3 DEF RecordFailure, Statuses
  <2> QED
    BY <1>11, <2>1, <2>2, <2>3
<1>12. ASSUME NEW e \in Extractors, NEW c \in Slices, SliceStep(e, c) PROVE HoldingInv'
  <2>1. UNCHANGED <<phase, reopened>>
    BY <1>12 DEF SliceStep, StartSlice, MarkSlice, CountSlices, CompleteJob, boundVars
  <2>2. UNCHANGED job \/ SetJob(ParentOf[c], "completed")
    BY <1>12 DEF SliceStep, StartSlice, MarkSlice, CountSlices, CompleteJob, dbVars
  <2>3. \A q \in Parents : job'[q] = job[q] \/ job'[q] = "completed"
    BY <2>2, RepairAssumption DEF SetJob, TypeOK, ProcTypeOK, DbTypeOK
  <2> QED
    BY <1>1, <2>1, <2>3
<1>13. CASE UNCHANGED vars \/ (\E w \in Repairers : CrashRepairer(w))
            \/ (\E c \in Slices : DeadLetterSlice(c))
  BY <1>2, <1>7, <1>13 DEF vars, CrashRepairer, DeadLetterSlice, dbVars, procVars, boundVars
<1> QED
  BY <1>3, <1>5, <1>6, <1>10, <1>11, <1>12, <1>13 DEF Next, RepairStep

-----------------------------------------------------------------------------
(* The invariant holds in every reachable state. *)
THEOREM Invariant == Spec => []RepairInv
<1>1. RepairInv /\ [Next]_vars => RepairInv'
  BY TypeStep, SlicingStep, HoldingStep DEF RepairInv
<1> QED
  BY InitInv, <1>1, PTL DEF Spec

(* Every variable of the repair queue keeps its type. *)
THEOREM TypeCorrect == Spec => []TypeOK
<1>1. RepairInv => TypeOK
  BY DEF RepairInv
<1> QED
  BY <1>1, Invariant, PTL

(* A parent's own listings are hidden only once all its slices are queued. *)
THEOREM Slicing == Spec => []SupersededOnlyWhenSliced
<1>1. RepairInv => SupersededOnlyWhenSliced
  BY DEF RepairInv, SlicingInv
<1> QED
  BY <1>1, Invariant, PTL

(* Two workers meet on a parent only through the admin endpoint. *)
THEOREM Ownership == Spec => []OneRepairer
<1>1. RepairInv => OneRepairer
  BY DEF RepairInv, HoldingInv
<1> QED
  BY <1>1, Invariant, PTL

-----------------------------------------------------------------------------
(* Only stored slices are extracted, dead-lettered and marked. *)
ExtractInv ==
  /\ processed \subseteq stored
  /\ \A e \in Extractors, c \in Slices : mark[e][c] # "none" => c \in stored

LEMMA ExtractStep == ASSUME TypeOK, ExtractInv, [Next]_vars PROVE ExtractInv'
<1>1. stored \subseteq stored'
  BY DEF Next, vars, dbVars, procVars, boundVars, Migrate, AdminStep, PickCandidate, UpsertJob,
     UpdateJob, RepairStep, ClaimJobs, StartSlicing, NoSplit, InsertSlice, Supersede, Requeue,
     RecordFailure, CrashRepairer, SliceStep, StartSlice, MarkSlice, CountSlices, CompleteJob,
     DeadLetterSlice
<1>2. CASE UNCHANGED <<processed, mark>>
  BY <1>1, <1>2 DEF ExtractInv
<1>3. ASSUME NEW e \in Extractors, NEW c \in Slices, c \in stored, NEW to \in Marks,
             SetMark(e, c, to), processed' \in {processed, processed \cup {c}}
      PROVE  ExtractInv'
  <2>1. \A f \in Extractors, d \in Slices : f # e \/ d # c => mark'[f][d] = mark[f][d]
    BY <1>3 DEF SetMark, TypeOK, ProcTypeOK
  <2> QED
    BY <1>1, <1>3, <2>1 DEF ExtractInv
<1>4. ASSUME NEW e \in Extractors, NEW c \in Slices, SliceStep(e, c)
      PROVE  ExtractInv'
  <2>1. c \in stored
    BY <1>4 DEF SliceStep, StartSlice, MarkSlice, CountSlices, CompleteJob, ExtractInv
  <2>2. \E to \in Marks : SetMark(e, c, to)
    BY <1>4 DEF SliceStep, StartSlice, MarkSlice, CountSlices, CompleteJob, Marks
  <2>3. processed' \in {processed, processed \cup {c}}
    BY <1>4 DEF SliceStep, StartSlice, MarkSlice, CountSlices, CompleteJob, dbVars
  <2> QED
    BY <1>3, <2>1, <2>2, <2>3
<1>5. ASSUME NEW c \in Slices, DeadLetterSlice(c)
      PROVE  ExtractInv'
  BY <1>1, <1>5 DEF DeadLetterSlice, procVars, ExtractInv
<1>6. CASE Migrate \/ (\E p \in Parents : AdminStep(p)) \/ UNCHANGED vars
  BY <1>2, <1>6 DEF Migrate, AdminStep, PickCandidate, UpsertJob, UpdateJob, vars, dbVars, procVars
<1>7. ASSUME NEW w \in Repairers, RepairStep(w) \/ CrashRepairer(w)
      PROVE  UNCHANGED <<processed, mark>>
  BY <1>7 DEF RepairStep, ClaimJobs, StartSlicing, NoSplit, InsertSlice, Supersede, Requeue,
     RecordFailure, CrashRepairer, dbVars
<1> QED
  BY <1>2, <1>4, <1>5, <1>6, <1>7 DEF Next

(* The rows of raw_messages, and why each is consumed. *)
Rows == Parents \cup Slices

Reasons(r) ==
  (IF r \in Parents \cup processed THEN {"listing"} ELSE {})
  \cup (IF r \in superseded THEN {"children"} ELSE {})

Evidence == [r \in Rows |-> Reasons(r)]

(* A row is consumed: by its extractor, or as a dead letter. *)
LEMMA ConsumeRow ==
  ASSUME TypeOK, ExtractInv, NEW c \in Slices, c \in stored,
         UNCHANGED <<stored, superseded>>,
         processed' \in {processed, processed \cup {c}}
  PROVE  [Ledger!Next]_(Ledger!vars)
<1>1. CASE processed' = processed
  BY <1>1 DEF Ledger!vars
<1>2. CASE processed' = processed \cup {c}
  <2>1. c \notin Parents /\ c \notin superseded
    BY RepairAssumption DEF TypeOK, DbTypeOK
  <2>2. Evidence[c] \subseteq {"listing"} /\ Evidence'[c] = {"listing"}
    BY <1>2, <2>1 DEF Evidence, Reasons, Rows
  <2>3. Evidence' = [Evidence EXCEPT ![c] = @ \cup {"listing"}]
    <3>1. \A r \in Rows : r # c => Evidence'[r] = Evidence[r]
      BY <1>2 DEF Evidence, Reasons
    <3>2. Evidence'[c] = Evidence[c] \cup {"listing"}
      BY <2>2
    <3> QED
      BY <3>1, <3>2 DEF Evidence
  <2>4. Parents \cup stored' = (Parents \cup stored) \cup {}
    OBVIOUS
  <2>5. Parents \cup processed' = (Parents \cup processed) \cup {c}
    BY <1>2
  <2>6. {"listing"} \in SUBSET ({"listing", "children"} \ {"history_sync"})
    OBVIOUS
  <2>7. Ledger!Settle(c)
    BY <2>2, <2>3, <2>4, <2>5, <2>6 DEF Ledger!Settle, Evidence, Reasons, Rows
  <2> QED
    BY <2>7 DEF Ledger!Next, Rows
<1> QED
  BY <1>1, <1>2

(* Every step of the repair queue is a step of the ledger or leaves it alone. *)
LEMMA LedgerStep ==
  ASSUME TypeOK, SlicingInv, ExtractInv, [Next]_vars
  PROVE  [Ledger!Next]_(Ledger!vars)
<1>1. CASE UNCHANGED <<stored, processed, superseded>>
  BY <1>1 DEF Ledger!vars
<1>2. CASE Migrate \/ (\E p \in Parents : AdminStep(p)) \/ UNCHANGED vars
  BY <1>1, <1>2 DEF Migrate, AdminStep, PickCandidate, UpsertJob, UpdateJob, vars, dbVars
<1>3. ASSUME NEW w \in Repairers, CrashRepairer(w) \/ ClaimJobs(w)
      PROVE  UNCHANGED <<stored, processed, superseded>>
  BY <1>3 DEF CrashRepairer, ClaimJobs, dbVars
<1>4. ASSUME NEW w \in Repairers, NEW p \in Parents,
             StartSlicing(w, p) \/ NoSplit(w, p) \/ Requeue(w, p) \/ RecordFailure(w, p)
      PROVE  UNCHANGED <<stored, processed, superseded>>
  BY <1>4 DEF StartSlicing, NoSplit, Requeue, RecordFailure, dbVars
<1>5. ASSUME NEW w \in Repairers, NEW p \in Parents, InsertSlice(w, p)
      PROVE  [Ledger!Next]_(Ledger!vars)
  <2>1. UNCHANGED <<processed, superseded>>
    BY <1>5 DEF InsertSlice
  <2>2. PICK c \in Slices : stored' = stored \/ stored' = stored \cup {c}
    BY <1>5 DEF InsertSlice, TypeOK, ProcTypeOK
  <2>3. CASE stored' = stored
    BY <1>1, <2>1, <2>3
  <2>4. CASE stored' = stored \cup {c} /\ c \notin stored
    <3>1. c \notin Parents \cup stored
      BY <2>4, RepairAssumption
    <3>2. Parents \cup stored' = (Parents \cup stored) \cup {c}
      BY <2>4
    <3>3. Ledger!Store(c)
      BY <2>1, <3>1, <3>2 DEF Ledger!Store
    <3> QED
      BY <3>3 DEF Ledger!Next
  <2> QED
    BY <2>2, <2>3, <2>4
<1>6. ASSUME NEW w \in Repairers, NEW p \in Parents, Supersede(w, p)
      PROVE  [Ledger!Next]_(Ledger!vars)
  <2>1. UNCHANGED <<stored, processed>>
    BY <1>6 DEF Supersede
  <2>2. CASE UNCHANGED superseded
    BY <1>1, <2>1, <2>2
  <2>3. CASE superseded' = superseded \cup {p} /\ ~short[w]
    <3>1. SlicesOf(p) \subseteq stored
      BY <1>6, <2>3 DEF Supersede, SlicingInv, SlicesAccounted
    <3>2. Evidence' = [Evidence EXCEPT ![p] = @ \cup {"children"}]
      <4>1. \A r \in Rows : r # p => Evidence'[r] = Evidence[r]
        BY <2>1, <2>3 DEF Evidence, Reasons
      <4>2. Evidence'[p] = Evidence[p] \cup {"children"}
        BY <2>1, <2>3 DEF Evidence, Reasons, Rows
      <4> QED
        BY <4>1, <4>2 DEF Evidence
    <3>3. "history_sync" \notin Evidence[p]
      BY DEF Evidence, Reasons, Rows
    <3>4. Parents \cup stored' = (Parents \cup stored) \cup {}
      BY <2>1
    <3>5. {"children"} \in SUBSET ({"listing", "children"} \ {"history_sync"})
      OBVIOUS
    <3>6. Ledger!Settle(p)
      BY <2>1, <3>1, <3>2, <3>3, <3>4, <3>5 DEF Ledger!Settle, Evidence, Reasons, Rows
    <3> QED
      BY <3>6 DEF Ledger!Next
  <2> QED
    BY <1>6, <2>2, <2>3 DEF Supersede
<1>7. ASSUME NEW e \in Extractors, NEW c \in Slices, SliceStep(e, c)
      PROVE  [Ledger!Next]_(Ledger!vars)
  <2>1. c \in stored
    BY <1>7 DEF SliceStep, StartSlice, MarkSlice, CountSlices, CompleteJob, ExtractInv
  <2>2. /\ UNCHANGED <<stored, superseded>>
        /\ processed' \in {processed, processed \cup {c}}
    BY <1>7 DEF SliceStep, StartSlice, MarkSlice, CountSlices, CompleteJob, dbVars
  <2> QED
    BY <2>1, <2>2, ConsumeRow
<1>8. ASSUME NEW c \in Slices, DeadLetterSlice(c)
      PROVE  [Ledger!Next]_(Ledger!vars)
  BY <1>8, ConsumeRow DEF DeadLetterSlice
<1> QED
  BY <1>1, <1>2, <1>3, <1>4, <1>5, <1>6, <1>7, <1>8 DEF Next, RepairStep

(* The repair queue keeps the ledger of raw_messages that the extraction    *)
(* queue implements, for any number of workers, crashes and failed calls.  *)
THEOREM RepairKeepsLedger == Spec => KeepsLedger
<1>1. Init => ExtractInv
  BY DEF Init, ExtractInv
<1>2. RepairInv /\ ExtractInv /\ [Next]_vars => ExtractInv' /\ [Ledger!Next]_(Ledger!vars)
  BY ExtractStep, LedgerStep DEF RepairInv
<1> QED
  BY <1>1, <1>2, Invariant, PTL DEF Spec, KeepsLedger
=============================================================================
