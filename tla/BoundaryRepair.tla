--------------------------- MODULE BoundaryRepair ---------------------------
(***************************************************************************)
(* Repair of extraction boundaries: broadcasts that were once extracted as *)
(* one message are cut into slices by extraction_repair_worker.py, driven  *)
(* by the extraction_repair_jobs table. An administrator and a migration   *)
(* enqueue jobs, repair workers claim them in batches, and the extraction  *)
(* of a slice (storage.mark_raw_processed) completes the job of its parent.*)
(* One action is one database round trip, or one decision between two.     *)
(***************************************************************************)
EXTENDS Integers, FiniteSets

CONSTANTS
  Parents,      \* processed broadcasts (raw_messages ids), none of them a slice
  Slices,       \* raw_messages rows the broadcasts are cut into, in order
  ParentOf,     \* slice -> its parent_message_id
  Earlier,      \* slices that may have been inserted before any repair
  Splittable,   \* parents in which today's parse_message finds two slices or more
  Repairers,    \* repair worker processes
  Extractors,   \* actors that run process_raw_message on slices
  Batch,        \* EXTRACTION_REPAIR_WORKER_BATCH_SIZE
  MaxCrashes,   \* bound: process crashes in a behaviour
  MaxFaults,    \* bound: failed database calls in a behaviour
  MaxRequests   \* bound: jobs an administrator requests in a behaviour

ASSUME RepairAssumption ==
  /\ IsFiniteSet(Parents)
  /\ Parents \subseteq Nat /\ Slices \subseteq Nat /\ Parents \cap Slices = {}
  /\ Earlier \subseteq Slices
  /\ ParentOf \in [Slices -> Parents]
  /\ Splittable \subseteq Parents
  /\ Batch \in Nat \ {0}
  /\ MaxCrashes \in Nat /\ MaxFaults \in Nat /\ MaxRequests \in Nat

VARIABLES
  (* raw_messages *)
  stored,      \* slices inserted
  processed,   \* slices with processed = true
  superseded,  \* parents with extraction_superseded = true
  (* extraction_repair_jobs *)
  job,         \* status of the parent's job
  created,     \* rank of its created_at
  (* processes *)
  request,     \* where the admin endpoint is with a parent
  phase,       \* where a repair worker is with a parent
  left,        \* slices the worker has still to insert
  short,       \* the worker missed a slice of the parent at hand
  mark,        \* where an extractor is with a slice
  (* history and bounds *)
  reopened,    \* parents whose job was set to queued while a worker held it
  crashes, faults, requests

dbVars == <<stored, processed, superseded, job, created>>
procVars == <<request, phase, left, short, mark>>
boundVars == <<reopened, crashes, faults, requests>>
vars == <<dbVars, procVars, boundVars>>

Statuses == {"absent", "queued", "running", "completed", "no_split", "failed"}
Phases == {"none", "claimed", "slicing", "requeueing", "failing"}
Marks == {"none", "working", "marked", "all"}

SlicesOf(p) == {c \in Slices : ParentOf[c] = p}
Queued == {p \in Parents : job[p] = "queued"}
Held(w) == {p \in Parents : phase[w][p] # "none"}
HeldByAny(p) == \E w \in Repairers : p \in Held(w)

DbTypeOK ==
  /\ stored \subseteq Slices
  /\ processed \subseteq Slices
  /\ superseded \subseteq Parents
  /\ job \in [Parents -> Statuses]
  /\ created \in [Parents -> Nat]

ProcTypeOK ==
  /\ request \in [Parents -> {"none", "picked", "refreshed"}]
  /\ phase \in [Repairers -> [Parents -> Phases]]
  /\ left \in [Repairers -> SUBSET Slices]
  /\ short \in [Repairers -> BOOLEAN]
  /\ mark \in [Extractors -> [Slices -> Marks]]

BoundTypeOK ==
  /\ reopened \subseteq Parents
  /\ crashes \in 0..MaxCrashes
  /\ faults \in 0..MaxFaults
  /\ requests \in 0..MaxRequests

TypeOK == DbTypeOK /\ ProcTypeOK /\ BoundTypeOK

(* The table is created empty; some parents already have some slices, left *)
(* by a split that was interrupted or never registered as a repair.        *)
Init ==
  /\ stored \in SUBSET Earlier
  /\ processed \in SUBSET stored
  /\ superseded = {}
  /\ job = [p \in Parents |-> "absent"]
  /\ created = [p \in Parents |-> 0]
  /\ request = [p \in Parents |-> "none"]
  /\ phase = [w \in Repairers |-> [p \in Parents |-> "none"]]
  /\ left = [w \in Repairers |-> {}]
  /\ short = [w \in Repairers |-> FALSE]
  /\ mark = [e \in Extractors |-> [c \in Slices |-> "none"]]
  /\ reopened = {}
  /\ crashes = 0 /\ faults = 0 /\ requests = 0

Fault == faults < MaxFaults /\ faults' = faults + 1
NoFault == faults' = faults

SetJob(p, status) == job' = [job EXCEPT ![p] = status]
SetPhase(w, p, to) == phase' = [phase EXCEPT ![w][p] = to]
SetMark(e, c, to) == mark' = [mark EXCEPT ![e][c] = to]

-----------------------------------------------------------------------------
(* Enqueueing.                                                             *)
NewRank == Cardinality({p \in Parents : job[p] # "absent"}) + 1

(* The migration registers every parent that already has slices; a parent  *)
(* that has a job keeps it.                                                *)
Migrate ==
  LET new == {p \in Parents : /\ job[p] = "absent" /\ p \notin superseded
                              /\ SlicesOf(p) \cap stored # {}}
  IN  /\ new # {}
      /\ job' = [p \in Parents |-> IF p \in new THEN "queued" ELSE job[p]]
      /\ created' = [p \in Parents |-> IF p \in new THEN NewRank ELSE created[p]]
      /\ UNCHANGED <<stored, processed, superseded, procVars, boundVars>>

(* The endpoint lists its candidates once and works through them later.    *)
PickCandidate(p) ==
  /\ request[p] = "none" /\ p \notin superseded /\ p \in Splittable
  /\ requests < MaxRequests
  /\ requests' = requests + 1
  /\ request' = [request EXCEPT ![p] = "picked"]
  /\ UNCHANGED <<dbVars, phase, left, short, mark, reopened, crashes, faults>>

(* Both writes of the endpoint put the job into the queue, whatever its    *)
(* status: the upsert, and the update that adds the pattern.               *)
Enqueue(p) ==
  /\ SetJob(p, "queued")
  /\ reopened' = IF HeldByAny(p) THEN reopened \cup {p} ELSE reopened

UpsertJob(p) ==
  /\ request[p] = "picked"
  /\ \/ /\ NoFault
        /\ Enqueue(p)
        /\ created' = [created EXCEPT ![p] = IF job[p] = "absent" THEN NewRank ELSE @]
        /\ request' = [request EXCEPT ![p] = "refreshed"]
     \/ /\ Fault
        /\ request' = [request EXCEPT ![p] = "none"]
        /\ UNCHANGED <<job, created, reopened>>
  /\ UNCHANGED <<stored, processed, superseded, phase, left, short, mark,
                 crashes, requests>>

UpdateJob(p) ==
  /\ request[p] = "refreshed"
  /\ request' = [request EXCEPT ![p] = "none"]
  /\ \/ NoFault /\ Enqueue(p)
     \/ Fault /\ UNCHANGED <<job, reopened>>
  /\ UNCHANGED <<stored, processed, superseded, created, phase, left, short, mark,
                 crashes, requests>>

-----------------------------------------------------------------------------
(* run_once of a repair worker.                                            *)

(* Mutant of ClaimJobs: a running job is claimed again, as after a crash. *)
ClaimRunningJobs(w) ==
  /\ Held(w) = {}
  /\ \E batch \in SUBSET {p \in Parents : job[p] \in {"queued", "running"}} :
       /\ batch # {} /\ Cardinality(batch) <= Batch
       /\ job' = [p \in Parents |-> IF p \in batch THEN "running" ELSE job[p]]
       /\ phase' = [phase EXCEPT ![w] =
                      [p \in Parents |-> IF p \in batch THEN "claimed" ELSE "none"]]
  /\ UNCHANGED <<stored, processed, superseded, created, request, left, short, mark, boundVars>>

(* claim_extraction_repair_jobs: the oldest queued jobs become running in  *)
(* one statement.                                                          *)
ClaimJobs(w) ==
  /\ Held(w) = {}
  /\ \E batch \in SUBSET Queued :
       /\ batch # {}
       /\ Cardinality(batch) <= Batch
       /\ Cardinality(batch) < Batch => batch = Queued
       /\ \A p \in batch, q \in Queued \ batch : created[p] <= created[q]
       /\ job' = [p \in Parents |-> IF p \in batch THEN "running" ELSE job[p]]
       /\ phase' = [phase EXCEPT ![w] =
                      [p \in Parents |-> IF p \in batch THEN "claimed" ELSE "none"]]
  /\ UNCHANGED <<stored, processed, superseded, created, request, left, short, mark, boundVars>>

(* The batch is worked through one job at a time, in any order. *)
Idle(w) == \A p \in Parents : phase[w][p] \in {"none", "claimed"}

(* The parent is read again and parsed again. *)
StartSlicing(w, p) ==
  /\ phase[w][p] = "claimed" /\ Idle(w) /\ p \in Splittable
  /\ \/ /\ NoFault
        /\ SetPhase(w, p, "slicing")
        /\ left' = [left EXCEPT ![w] = SlicesOf(p)]
     \/ Fault /\ SetPhase(w, p, "failing") /\ UNCHANGED left
  /\ UNCHANGED <<dbVars, request, short, mark, reopened, crashes, requests>>

NoSplit(w, p) ==
  /\ phase[w][p] = "claimed" /\ Idle(w) /\ p \notin Splittable
  /\ \/ NoFault /\ SetJob(p, "no_split") /\ SetPhase(w, p, "none")
     \/ Fault /\ SetPhase(w, p, "failing") /\ UNCHANGED job
  /\ UNCHANGED <<stored, processed, superseded, created, request, left, short, mark,
                 reopened, crashes, requests>>

(* Mutant of InsertSlice: a slice that is there already is queued again. *)
InsertSliceRequeueing(w, p) ==
  /\ phase[w][p] = "slicing"
  /\ \E c \in left[w] :
       /\ left' = [left EXCEPT ![w] = @ \ {c}]
       /\ stored' = stored \cup {c}
       /\ processed' = processed \ {c}
  /\ UNCHANGED <<short, superseded, job, created, request, phase, mark, boundVars>>

(* One slice of _materialize_split_raw_messages: looked up by its uid and  *)
(* inserted when absent. An insert that fails, or loses a race against     *)
(* another worker's insert, leaves the slice out of the result.            *)
InsertSlice(w, p) ==
  /\ phase[w][p] = "slicing"
  /\ \E c \in left[w] :
       /\ \A d \in left[w] : c <= d
       /\ left' = [left EXCEPT ![w] = @ \ {c}]
       /\ \/ NoFault /\ stored' = stored \cup {c} /\ UNCHANGED short
          \/ /\ IF c \in stored /\ (\E v \in Repairers \ {w} : p \in Held(v))
                THEN NoFault ELSE Fault
             /\ short' = [short EXCEPT ![w] = TRUE]
             /\ UNCHANGED stored
  /\ UNCHANGED <<processed, superseded, job, created, request, phase, mark,
                 reopened, crashes, requests>>

(* Mutant of Supersede: slices that could not be inserted are skipped. *)
SupersedeUncounted(w, p) ==
  /\ phase[w][p] = "slicing" /\ left[w] = {}
  /\ superseded' = superseded \cup {p}
  /\ SetPhase(w, p, "requeueing")
  /\ UNCHANGED <<stored, processed, job, created, request, left, short, mark, boundVars>>

(* With every slice accounted for the parent is superseded and marked. *)
Supersede(w, p) ==
  /\ phase[w][p] = "slicing" /\ left[w] = {}
  /\ \/ /\ NoFault /\ ~short[w]
        /\ superseded' = superseded \cup {p}
        /\ SetPhase(w, p, "requeueing")
     \/ /\ IF short[w] THEN NoFault ELSE Fault
        /\ SetPhase(w, p, "failing")
        /\ UNCHANGED superseded
  /\ short' = [short EXCEPT ![w] = FALSE]
  /\ UNCHANGED <<stored, processed, job, created, request, left, mark,
                 reopened, crashes, requests>>

(* Mutant of Requeue: a status the table does not know. *)
RequeuePending(w, p) ==
  /\ phase[w][p] = "requeueing"
  /\ SetJob(p, "pending") /\ SetPhase(w, p, "none")
  /\ UNCHANGED <<stored, processed, superseded, created, request, left, short, mark, boundVars>>

(* The job goes back to the queue, to be completed by its slices. *)
Requeue(w, p) ==
  /\ phase[w][p] = "requeueing"
  /\ \/ NoFault /\ SetJob(p, "queued") /\ SetPhase(w, p, "none")
     \/ Fault /\ SetPhase(w, p, "failing") /\ UNCHANGED job
  /\ UNCHANGED <<stored, processed, superseded, created, request, left, short, mark,
                 reopened, crashes, requests>>

(* The worker lets go of everything it holds. *)
Drop(w) ==
  /\ phase' = [phase EXCEPT ![w] = [p \in Parents |-> "none"]]
  /\ left' = [left EXCEPT ![w] = {}]
  /\ short' = [short EXCEPT ![w] = FALSE]

(* The exception handler; when its own write fails, the exception ends     *)
(* run_once and the rest of the batch stays running.                       *)
RecordFailure(w, p) ==
  /\ phase[w][p] = "failing"
  /\ \/ NoFault /\ SetJob(p, "failed") /\ SetPhase(w, p, "none") /\ UNCHANGED <<left, short>>
     \/ Fault /\ Drop(w) /\ UNCHANGED job
  /\ UNCHANGED <<stored, processed, superseded, created, request, mark,
                 reopened, crashes, requests>>

CrashRepairer(w) ==
  /\ Held(w) # {} /\ crashes < MaxCrashes
  /\ crashes' = crashes + 1
  /\ Drop(w)
  /\ UNCHANGED <<dbVars, request, mark, reopened, faults, requests>>

-----------------------------------------------------------------------------
(* Extraction of the slices.                                               *)
StartSlice(e, c) ==
  /\ mark[e][c] = "none" /\ c \in stored \ processed
  /\ SetMark(e, c, "working")
  /\ UNCHANGED <<dbVars, request, phase, left, short, boundVars>>

(* mark_raw_processed, first write. *)
MarkSlice(e, c) ==
  /\ mark[e][c] = "working"
  /\ \/ NoFault /\ processed' = processed \cup {c} /\ SetMark(e, c, "marked")
     \/ Fault /\ SetMark(e, c, "none") /\ UNCHANGED processed
  /\ UNCHANGED <<stored, superseded, job, created, request, phase, left, short,
                 reopened, crashes, requests>>

(* Its two reads, the parent's job and then all slices the parent has. A   *)
(* job never goes away, so they decide what they would in one step.        *)
CountSlices(e, c) ==
  /\ mark[e][c] = "marked"
  /\ LET p == ParentOf[c]
         done == job[p] # "absent" /\ SlicesOf(p) \cap stored \subseteq processed
     IN  \/ NoFault /\ SetMark(e, c, IF done THEN "all" ELSE "none")
         \/ Fault /\ SetMark(e, c, "none")
  /\ UNCHANGED <<dbVars, request, phase, left, short, reopened, crashes, requests>>

CompleteJob(e, c) ==
  /\ mark[e][c] = "all"
  /\ SetMark(e, c, "none")
  /\ \/ NoFault /\ SetJob(ParentOf[c], "completed")
     \/ Fault /\ UNCHANGED job
  /\ UNCHANGED <<stored, processed, superseded, created, request, phase, left, short,
                 reopened, crashes, requests>>

(* dead_letter_extraction consumes a slice without mark_raw_processed. *)
DeadLetterSlice(c) ==
  /\ c \in stored \ processed
  /\ processed' = processed \cup {c}
  /\ UNCHANGED <<stored, superseded, job, created, procVars, boundVars>>

-----------------------------------------------------------------------------
RepairStep(w) ==
  \/ ClaimJobs(w)
  \/ \E p \in Parents : \/ StartSlicing(w, p) \/ NoSplit(w, p) \/ InsertSlice(w, p)
                        \/ Supersede(w, p) \/ Requeue(w, p) \/ RecordFailure(w, p)

AdminStep(p) == PickCandidate(p) \/ UpsertJob(p) \/ UpdateJob(p)

SliceStep(e, c) ==
  \/ StartSlice(e, c) \/ MarkSlice(e, c)
  \/ CountSlices(e, c) \/ CompleteJob(e, c)

Next ==
  \/ Migrate
  \/ \E p \in Parents : AdminStep(p)
  \/ \E w \in Repairers : RepairStep(w) \/ CrashRepairer(w)
  \/ \E e \in Extractors, c \in Slices : SliceStep(e, c)
  \/ \E c \in Slices : DeadLetterSlice(c)

Spec == Init /\ [][Next]_vars

(* Repair workers loop for ever; slices are extracted and their marking    *)
(* runs to its end.                                                        *)
FairSpec ==
  /\ Spec
  /\ \A w \in Repairers : WF_vars(RepairStep(w))
  /\ \A e \in Extractors, c \in Slices : WF_vars(SliceStep(e, c))

-----------------------------------------------------------------------------
(* A parent's own listings are hidden only once every slice of it is in    *)
(* the extraction queue: failed inserts, lost races, second workers and    *)
(* repeated repairs never leave a broadcast neither listed nor queued.     *)
SupersededOnlyWhenSliced == \A p \in superseded : SlicesOf(p) \subseteq stored

(* Two workers repair one parent at the same time only after the admin     *)
(* endpoint put its job back into the queue under the worker that held it. *)
OneRepairer ==
  \A v, w \in Repairers : v # w => Held(v) \cap Held(w) \subseteq reopened

(* Repair and extraction write the same raw_messages. The repair queue      *)
(* keeps the ledger that the extraction queue implements: whatever fails,  *)
(* slices stay, are consumed once and for good, and a parent is recorded   *)
(* as split only with all of its slices stored.                            *)
Ledger == INSTANCE MessageLedger WITH
  Rows <- Parents \cup Slices,
  Slices <- [r \in Parents \cup Slices |-> IF r \in Parents THEN SlicesOf(r) ELSE {}],
  Resolutions <- {"listing", "children"},
  stored <- Parents \cup stored,
  consumed <- Parents \cup processed,
  evidence <- [r \in Parents \cup Slices |->
                 (IF r \in Parents \cup processed THEN {"listing"} ELSE {})
                 \cup (IF r \in superseded THEN {"children"} ELSE {})]
KeepsLedger == [][Ledger!Next]_(Ledger!vars)

-----------------------------------------------------------------------------
(* What the repository says of the repair queue and the code does not keep. *)

(* "Durable worker for historical extraction-boundary repairs": a job that *)
(* was queued gets its outcome, or its parent is superseded.               *)
RepairHappens ==
  \A p \in Parents :
    job[p] = "queued" ~> p \in superseded \/ job[p] \in {"completed", "no_split", "failed"}
=============================================================================
