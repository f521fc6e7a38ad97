--------------------------- MODULE ExtractionQueue ---------------------------
(***************************************************************************)
(* The extraction queue: raw_messages rows waiting to be turned into typed *)
(* listings, the extraction workers that poll them (extraction_worker.py), *)
(* the opt-in /trigger-extraction endpoint that runs the same pipeline     *)
(* without a claim, the pipeline itself (extraction.process_raw_message),  *)
(* the claim / finish / dead-letter functions of the database, and the     *)
(* consent switches an operator moves while all of this is running.        *)
(*                                                                         *)
(* Every action is one database round trip or one in-memory decision, so   *)
(* that steps of two actors interleave exactly where the code lets them.   *)
(***************************************************************************)
EXTENDS Integers, Sequences, FiniteSets

CONSTANTS
  Rows,           \* raw_messages ids; numbers, because lanes are FIFO by id
  Workers,        \* extraction worker processes
  Triggers,       \* concurrent /trigger-extraction requests
  Conns,          \* org_whatsapp_connections
  Groups,         \* WhatsApp group JIDs
  Tenants,        \* organizations
  Lanes,          \* "fast" and "backlog", or one of them (live-only mode)
  Tables,         \* typed listing tables (requirement tables are never cleaned)
  StubTable,      \* where _typed_route sends a NO_ANCHOR stub
  ConnOf,         \* row -> connection that received it
  GroupOf,        \* row -> group it was posted in
  LaneOf,         \* row -> lane its timestamp puts it in
  TenantOf,       \* connection -> organization
  ChildrenOf,     \* row -> slices the deterministic splitter finds in it
  OwnPosts,       \* rows posted by the connected broker (fromMe)
  Excluded,       \* rows of groups in the excluded-groups list
  SameAuthorCopy, \* pairs of rows with one author/content fingerprint
  SameText,       \* pairs of rows with one message hash
  MaxRetries,     \* EXTRACTION_WORKER_MAX_RETRIES
  BatchSize,      \* EXTRACTION_WORKER_BATCH_SIZE
  ReenableLimit,  \* rows of one group re-enabled per cycle
  MaxCrashes,     \* bound: worker crashes in a behaviour
  MaxFaults,      \* bound: failed database calls in a behaviour
  MaxOps          \* bound: operator actions in a behaviour

Actors == Workers \cup Triggers
Children == UNION {ChildrenOf[r] : r \in Rows}
TenantOfRow(r) == TenantOf[ConnOf[r]]

ASSUME ProcessAssumption == Workers \cap Triggers = {}

ASSUME RowAssumption ==
  /\ Rows \subseteq Nat
  /\ ConnOf \in [Rows -> Conns]
  /\ GroupOf \in [Rows -> Groups]
  /\ LaneOf \in [Rows -> Lanes]
  /\ TenantOf \in [Conns -> Tenants]
  /\ ChildrenOf \in [Rows -> SUBSET Rows]
  /\ \A r \in Children : ChildrenOf[r] = {}
  /\ OwnPosts \subseteq Rows
  /\ Excluded \subseteq Rows
  /\ SameAuthorCopy \subseteq Rows \X Rows
  /\ SameText \subseteq Rows \X Rows
  /\ StubTable \in Tables

ASSUME BoundAssumption ==
  /\ MaxRetries \in Nat \ {0}
  /\ BatchSize \in Nat \ {0}
  /\ ReenableLimit \in Nat \ {0}
  /\ MaxCrashes \in Nat
  /\ MaxFaults \in Nat
  /\ MaxOps \in Nat

VARIABLES
  (* raw_messages, extraction_attempt_log and the typed tables *)
  exists,      \* row has been inserted
  processed,   \* raw_messages.processed
  suppressed,  \* raw_messages.extraction_suppressed
  outcome,     \* raw_messages.extraction_outcome
  repeatOf,    \* raw_messages.repeat_of_raw_message_id, as a set of 0 or 1 row
  log,         \* extraction_attempt_log of the row; the index is the attempt_id
  typed,       \* what each typed table holds for the row
  (* control plane *)
  consent,     \* organization_group_connections: <<connection, group>> -> state
  running,     \* connections with extraction_status = 'running'
  pending,     \* second writes of control-plane handlers that are under way
  (* processes *)
  pc,          \* where a worker is in run_cycle
  scope,       \* tenants the cycle may consume
  release,     \* suppressed rows the cycle read in order to re-enable them
  job,         \* what an actor is doing with a row
  att,         \* attempt_id the actor holds for the row, 0 for none
  plan,        \* table being written, or the storage_status to report
  retry,       \* retry_counts of a worker process
  (* history and bounds *)
  resolved,    \* ways in which the row was ever resolved
  withdrawn,   \* rows whose consent ended after the worker's policy snapshot
  crashes, faults, ops

dbVars == <<exists, processed, suppressed, outcome, repeatOf, log, typed>>
controlVars == <<consent, running, pending>>
cycleVars == <<pc, scope, release>>
jobVars == <<job, att, plan, retry>>
historyVars == <<resolved, withdrawn, crashes, faults, ops>>
vars == <<dbVars, controlVars, cycleVars, jobVars, historyVars>>

-----------------------------------------------------------------------------
Outcomes == {"none", "running", "succeeded", "skipped", "failed",
             "dead_lettered", "repeat_observation"}
LogStatus == {"running", "succeeded", "skipped", "failed", "dead_lettered"}
PCs == {"idle", "reenable", "release", "fetch", "filter", "lanes"}
Phases == {"none", "fetched", "unconsented", "queued", "claimed", "gated",
           "routed", "saved", "split", "returned", "raised"}
StorageStatus == {"stored", "skipped", "split_queued", "failed"}
Plans == Tables \cup StorageStatus \cup {"none"}
Resolutions == {"listing", "no_anchor", "children", "repeat", "excluded",
                "history_sync", "dead_letter", "clone"}

(* A plan names a table or a status to report, and the two are told apart. *)
ASSUME TableAssumption == Tables \cap (StorageStatus \cup {"none"}) = {}

(* "selected" is is_active and not opted_out; "inactive" is neither. *)
ConsentStates == {"absent", "selected", "opted_out", "inactive"}
PendingWrites ==
  [tenant : Tenants, group : Groups, suppress : BOOLEAN]
  \cup [conn : Conns, groups : SUBSET Groups]

DbTypeOK ==
  /\ exists \in [Rows -> BOOLEAN]
  /\ processed \in [Rows -> BOOLEAN]
  /\ suppressed \in [Rows -> BOOLEAN]
  /\ outcome \in [Rows -> Outcomes]
  /\ repeatOf \in [Rows -> SUBSET Rows]
  /\ log \in [Rows -> Seq(LogStatus)]
  /\ typed \in [Rows -> [Tables -> {"none", "listing", "stub"}]]

ControlTypeOK ==
  /\ consent \in [Conns \X Groups -> ConsentStates]
  /\ running \subseteq Conns
  /\ pending \subseteq PendingWrites

CycleTypeOK ==
  /\ pc \in [Workers -> PCs]
  /\ scope \in [Workers -> SUBSET Tenants]
  /\ release \in [Workers -> SUBSET Rows]

JobTypeOK ==
  /\ job \in [Actors -> [Rows -> Phases]]
  /\ att \in [Actors -> [Rows -> Nat]]
  /\ plan \in [Actors -> [Rows -> Plans]]
  /\ retry \in [Workers -> [Rows -> 0..MaxRetries]]

HistoryTypeOK ==
  /\ resolved \in [Rows -> SUBSET Resolutions]
  /\ withdrawn \in [Workers -> SUBSET Rows]
  /\ crashes \in 0..MaxCrashes
  /\ faults \in 0..MaxFaults
  /\ ops \in 0..MaxOps

TypeOK ==
  DbTypeOK /\ ControlTypeOK /\ CycleTypeOK /\ JobTypeOK /\ HistoryTypeOK

NoTyped == [t \in Tables |-> "none"]

(* Nothing is inserted yet, every connection is stopped and no group has   *)
(* been reviewed, as the extraction-controls migration leaves a new phone. *)
Init ==
  /\ exists = [r \in Rows |-> FALSE]
  /\ processed = [r \in Rows |-> FALSE]
  /\ suppressed = [r \in Rows |-> FALSE]
  /\ outcome = [r \in Rows |-> "none"]
  /\ repeatOf = [r \in Rows |-> {}]
  /\ log = [r \in Rows |-> <<>>]
  /\ typed = [r \in Rows |-> NoTyped]
  /\ consent = [cg \in Conns \X Groups |-> "absent"]
  /\ running = {}
  /\ pending = {}
  /\ pc = [w \in Workers |-> "idle"]
  /\ scope = [w \in Workers |-> {}]
  /\ release = [w \in Workers |-> {}]
  /\ job = [a \in Actors |-> [r \in Rows |-> "none"]]
  /\ att = [a \in Actors |-> [r \in Rows |-> 0]]
  /\ plan = [a \in Actors |-> [r \in Rows |-> "none"]]
  /\ retry = [w \in Workers |-> [r \in Rows |-> 0]]
  /\ resolved = [r \in Rows |-> {}]
  /\ withdrawn = [w \in Workers |-> {}]
  /\ crashes = 0
  /\ faults = 0
  /\ ops = 0

(* A database call that fails; the budget bounds how many do. *)
Fault == faults < MaxFaults /\ faults' = faults + 1
NoFault == faults' = faults

(* The worker's per-row consent rule. *)
HasConsent(r) ==
  r \in OwnPosts \/ consent[<<ConnOf[r], GroupOf[r]>>] = "selected"

RunningTenants == {TenantOf[c] : c \in running}

(* The lowest k ids of a set of rows: an ORDER BY id LIMIT k query. *)
FirstK(S, k) == {r \in S : Cardinality({q \in S : q < r}) < k}

Eligible(w, lane) ==
  {r \in Rows : /\ exists[r] /\ ~processed[r] /\ ~suppressed[r]
                /\ LaneOf[r] = lane
                /\ TenantOfRow(r) \in scope[w]}

Move(a, r, phase) == job' = [job EXCEPT ![a][r] = phase]
Resolve(r, how) == resolved' = [resolved EXCEPT ![r] = @ \cup {how}]

-----------------------------------------------------------------------------
(* Mutant of ArriveHistory: history rows are suppressed but left unprocessed. *)
ArriveHistoryUnprocessed(r) ==
  /\ ~exists[r] /\ r \notin Children
  /\ exists' = [exists EXCEPT ![r] = TRUE]
  /\ suppressed' = [suppressed EXCEPT ![r] = TRUE]
  /\ Resolve(r, "history_sync")
  /\ UNCHANGED <<processed, outcome, repeatOf, log, typed, controlVars, cycleVars, jobVars,
                 withdrawn, crashes, faults, ops>>

(* Ingestion: a live message joins the queue; a history-sync message is    *)
(* stored as evidence that extraction must never see.                      *)
Arrive(r) ==
  /\ ~exists[r] /\ r \notin Children
  /\ exists' = [exists EXCEPT ![r] = TRUE]
  /\ UNCHANGED <<processed, suppressed, outcome, repeatOf, log, typed,
                 controlVars, cycleVars, jobVars, historyVars>>

ArriveHistory(r) ==
  /\ ~exists[r] /\ r \notin Children
  /\ exists' = [exists EXCEPT ![r] = TRUE]
  /\ processed' = [processed EXCEPT ![r] = TRUE]
  /\ suppressed' = [suppressed EXCEPT ![r] = TRUE]
  /\ Resolve(r, "history_sync")
  /\ UNCHANGED <<outcome, repeatOf, log, typed, controlVars, cycleVars, jobVars,
                 withdrawn, crashes, faults, ops>>

-----------------------------------------------------------------------------
(* The operator's switches. Each handler that writes twice is two steps. *)
Operate == ops < MaxOps /\ ops' = ops + 1

(* Rows whose consent a control-plane write takes away. *)
Losing(newConsent) ==
  {r \in Rows : /\ r \notin OwnPosts
                /\ consent[<<ConnOf[r], GroupOf[r]>>] = "selected"
                /\ newConsent[<<ConnOf[r], GroupOf[r]>>] # "selected"}

SetConsent(newConsent) ==
  /\ consent' = newConsent
  /\ withdrawn' = [w \in Workers |-> withdrawn[w] \cup Losing(newConsent)]

(* select_groups, first write: every known group of the phone is switched off. *)
SelectGroups(c, gs) ==
  /\ Operate
  /\ SetConsent([cg \in Conns \X Groups |->
       IF cg[1] = c /\ consent[cg] # "absent" THEN "opted_out" ELSE consent[cg]])
  /\ pending' = pending \cup {[conn |-> c, groups |-> gs]}
  /\ UNCHANGED <<dbVars, running, cycleVars, jobVars, resolved, crashes, faults>>

(* select_groups, second write: the confirmed groups are switched on; when *)
(* the write fails the phone is left with no group selected.               *)
ConfirmSelection(p) ==
  /\ p \in pending /\ "conn" \in DOMAIN p
  /\ pending' = pending \ {p}
  /\ \/ /\ NoFault
        /\ consent' = [cg \in Conns \X Groups |->
             IF cg[1] = p.conn /\ cg[2] \in p.groups THEN "selected" ELSE consent[cg]]
     \/ Fault /\ UNCHANGED consent
  /\ UNCHANGED <<dbVars, running, cycleVars, jobVars, resolved, withdrawn, crashes, ops>>

(* opt_out_group and opt_in_group: the policy row first, then the queued rows. *)
OptOut(c, g) ==
  /\ Operate
  /\ SetConsent([consent EXCEPT ![<<c, g>>] = "opted_out"])
  /\ pending' = pending \cup {[tenant |-> TenantOf[c], group |-> g, suppress |-> TRUE]}
  /\ UNCHANGED <<dbVars, running, cycleVars, jobVars, resolved, crashes, faults>>

OptIn(c, g) ==
  /\ consent[<<c, g>>] = "opted_out"
  /\ Operate
  /\ consent' = [consent EXCEPT ![<<c, g>>] = "inactive"]
  /\ pending' = pending \cup {[tenant |-> TenantOf[c], group |-> g, suppress |-> FALSE]}
  /\ UNCHANGED <<dbVars, running, cycleVars, jobVars, resolved, withdrawn, crashes, faults>>

(* set_raw_group_extraction_suppressed; its failure is logged and dropped. *)
RewriteQueuedRows(p) ==
  /\ p \in pending /\ "suppress" \in DOMAIN p
  /\ pending' = pending \ {p}
  /\ \/ /\ NoFault
        /\ suppressed' = [r \in Rows |->
             IF /\ exists[r] /\ ~processed[r]
                /\ TenantOfRow(r) = p.tenant /\ GroupOf[r] = p.group
             THEN p.suppress ELSE suppressed[r]]
     \/ Fault /\ UNCHANGED suppressed
  /\ UNCHANGED <<exists, processed, outcome, repeatOf, log, typed, consent, running,
                 cycleVars, jobVars, resolved, withdrawn, crashes, ops>>

StartExtraction(c) ==
  /\ c \notin running
  /\ \E g \in Groups : consent[<<c, g>>] = "selected"
  /\ Operate
  /\ running' = running \cup {c}
  /\ UNCHANGED <<dbVars, consent, pending, cycleVars, jobVars,
                 resolved, withdrawn, crashes, faults>>

PauseExtraction(c) ==
  /\ c \in running
  /\ Operate
  /\ running' = running \ {c}
  /\ UNCHANGED <<dbVars, consent, pending, cycleVars, jobVars,
                 resolved, withdrawn, crashes, faults>>

ControlPlane ==
  \/ \E c \in Conns, gs \in SUBSET Groups : SelectGroups(c, gs)
  \/ \E c \in Conns, g \in Groups : OptOut(c, g) \/ OptIn(c, g)
  \/ \E c \in Conns : StartExtraction(c) \/ PauseExtraction(c)

ControlWrites == \E p \in pending : ConfirmSelection(p) \/ RewriteQueuedRows(p)

-----------------------------------------------------------------------------
(* run_cycle of one worker, up to the batch it will work on.               *)
GoTo(w, place) == pc' = [pc EXCEPT ![w] = place]

(* Control lookup: paused everywhere ends the cycle, a failed lookup fails open. *)
BeginCycle(w) ==
  /\ pc[w] = "idle"
  /\ \/ NoFault /\ RunningTenants # {} /\ scope' = [scope EXCEPT ![w] = RunningTenants]
     \/ Fault /\ scope' = [scope EXCEPT ![w] = Tenants]
  /\ GoTo(w, "reenable")
  /\ UNCHANGED <<dbVars, controlVars, release, jobVars, resolved, withdrawn, crashes, ops>>

(* Suppressed rows of a group selected on any connection of the tenant. *)
Suppressed(c, g) ==
  {r \in Rows : /\ exists[r] /\ ~processed[r] /\ suppressed[r]
                /\ TenantOfRow(r) = TenantOf[c] /\ GroupOf[r] = g}

(* Mutant of ReenableRead: the limit is off by one. *)
ReenableReadShort(w) ==
  /\ pc[w] = "reenable"
  /\ \/ /\ NoFault
        /\ release' = [release EXCEPT ![w] =
             UNION {FirstK(Suppressed(cg[1], cg[2]), ReenableLimit - 1) :
                    cg \in {x \in Conns \X Groups : consent[x] = "selected"}}]
     \/ Fault /\ UNCHANGED release
  /\ GoTo(w, "release")
  /\ UNCHANGED <<dbVars, controlVars, scope, jobVars, resolved, withdrawn, crashes, ops>>

ReenableRead(w) ==
  /\ pc[w] = "reenable"
  /\ \/ /\ NoFault
        /\ release' = [release EXCEPT ![w] =
             UNION {FirstK(Suppressed(cg[1], cg[2]), ReenableLimit) :
                    cg \in {x \in Conns \X Groups : consent[x] = "selected"}}]
     \/ Fault /\ UNCHANGED release
  /\ GoTo(w, "release")
  /\ UNCHANGED <<dbVars, controlVars, scope, jobVars, resolved, withdrawn, crashes, ops>>

ReenableWrite(w) ==
  /\ pc[w] = "release"
  /\ \/ /\ NoFault
        /\ suppressed' = [r \in Rows |->
             IF r \in release[w] /\ ~processed[r] THEN FALSE ELSE suppressed[r]]
     \/ Fault /\ release[w] # {} /\ UNCHANGED suppressed
  /\ release' = [release EXCEPT ![w] = {}]
  /\ GoTo(w, "fetch")
  /\ UNCHANGED <<exists, processed, outcome, repeatOf, log, typed, controlVars, scope,
                 jobVars, resolved, withdrawn, crashes, ops>>

(* Mutant of Fetch: the lane queries have no LIMIT. *)
FetchUnlimited(w) ==
  /\ pc[w] = "fetch"
  /\ LET batch == UNION {Eligible(w, l) : l \in Lanes}
     IN  /\ job' = [job EXCEPT ![w] = [r \in Rows |->
                      IF r \in batch THEN "fetched" ELSE "none"]]
         /\ GoTo(w, IF batch = {} THEN "idle" ELSE "filter")
  /\ scope' = [scope EXCEPT ![w] = {}]
  /\ NoFault
  /\ UNCHANGED <<dbVars, controlVars, release, att, plan, retry,
                 resolved, withdrawn, crashes, ops>>

(* Each lane is one bounded FIFO query; a lane whose query fails is skipped. *)
Fetch(w) ==
  /\ pc[w] = "fetch"
  /\ \E answered \in SUBSET Lanes :
       /\ IF answered = Lanes THEN NoFault ELSE Fault
       /\ LET batch == UNION {FirstK(Eligible(w, l), BatchSize) : l \in answered}
          IN  /\ job' = [job EXCEPT ![w] = [r \in Rows |->
                           IF r \in batch THEN "fetched" ELSE "none"]]
              /\ GoTo(w, IF batch = {} THEN "idle" ELSE "filter")
  /\ scope' = [scope EXCEPT ![w] = {}]
  /\ UNCHANGED <<dbVars, controlVars, release, att, plan, retry,
                 resolved, withdrawn, crashes, ops>>

(* Mutant of Filter: an unreadable policy lets the whole batch through. *)
FilterFailOpen(w) ==
  /\ pc[w] = "filter"
  /\ \E readable \in BOOLEAN :
       /\ IF readable THEN NoFault ELSE Fault
       /\ job' = [job EXCEPT ![w] = [r \in Rows |->
            IF job[w][r] # "fetched" THEN job[w][r]
            ELSE IF readable => HasConsent(r) THEN "queued" ELSE "unconsented"]]
  /\ withdrawn' = [withdrawn EXCEPT ![w] = {}]
  /\ GoTo(w, "lanes")
  /\ UNCHANGED <<dbVars, controlVars, scope, release, att, plan, retry,
                 resolved, crashes, ops>>

(* One snapshot of the consent policy decides for the whole batch; when it *)
(* cannot be read no row of the batch has consent.                         *)
Filter(w) ==
  /\ pc[w] = "filter"
  /\ \E readable \in BOOLEAN :
       /\ IF readable THEN NoFault ELSE Fault
       /\ job' = [job EXCEPT ![w] = [r \in Rows |->
            IF job[w][r] # "fetched" THEN job[w][r]
            ELSE IF readable /\ HasConsent(r) THEN "queued" ELSE "unconsented"]]
  /\ withdrawn' = [withdrawn EXCEPT ![w] = {}]
  /\ GoTo(w, "lanes")
  /\ UNCHANGED <<dbVars, controlVars, scope, release, att, plan, retry,
                 resolved, crashes, ops>>

(* set_raw_message_extraction_suppressed, per unconsented row; a failure   *)
(* only leaves the row visible to the next poll.                           *)
Suppress(w, r) ==
  /\ pc[w] = "lanes" /\ job[w][r] = "unconsented"
  /\ \/ NoFault /\ suppressed' = [suppressed EXCEPT ![r] = @ \/ ~processed[r]]
     \/ Fault /\ UNCHANGED suppressed
  /\ Move(w, r, "none")
  /\ UNCHANGED <<exists, processed, outcome, repeatOf, log, typed, controlVars, cycleVars,
                 att, plan, retry, resolved, withdrawn, crashes, ops>>

Filtered(w) == pc[w] = "lanes" /\ \A r \in Rows : job[w][r] # "unconsented"

EndCycle(w) ==
  /\ pc[w] = "lanes" /\ \A r \in Rows : job[w][r] = "none"
  /\ GoTo(w, "idle")
  /\ UNCHANGED <<dbVars, controlVars, scope, release, jobVars, historyVars>>

-----------------------------------------------------------------------------
(* _process_lane of one worker: dead-letter, claim, and the three ways the *)
(* attempt is closed.                                                      *)
SetAttempt(r, i, status) == log' = [log EXCEPT ![r][i] = status]

(* Mutants of DeadLetter: one failure too early; without consuming the row. *)
DeadLetterEarly(w, r) ==
  /\ Filtered(w) /\ job[w][r] = "queued" /\ retry[w][r] >= MaxRetries - 1
  /\ ~processed[r]
  /\ processed' = [processed EXCEPT ![r] = TRUE]
  /\ outcome' = [outcome EXCEPT ![r] = "dead_lettered"]
  /\ log' = [log EXCEPT ![r] = Append(@, "dead_lettered")]
  /\ Resolve(r, "dead_letter")
  /\ Move(w, r, "none")
  /\ UNCHANGED <<exists, suppressed, repeatOf, typed, controlVars, cycleVars,
                 att, plan, retry, withdrawn, crashes, faults, ops>>

DeadLetterUnconsumed(w, r) ==
  /\ Filtered(w) /\ job[w][r] = "queued" /\ retry[w][r] >= MaxRetries
  /\ ~processed[r]
  /\ outcome' = [outcome EXCEPT ![r] = "dead_lettered"]
  /\ log' = [log EXCEPT ![r] = Append(@, "dead_lettered")]
  /\ Resolve(r, "dead_letter")
  /\ Move(w, r, "none")
  /\ UNCHANGED <<exists, processed, suppressed, repeatOf, typed, controlVars, cycleVars,
                 att, plan, retry, withdrawn, crashes, faults, ops>>

(* dead_letter_extraction consumes the row only while it is unprocessed;   *)
(* a failing call is swallowed and the row comes back with the next poll.  *)
DeadLetter(w, r) ==
  /\ Filtered(w) /\ job[w][r] = "queued" /\ retry[w][r] >= MaxRetries
  /\ Move(w, r, "none")
  /\ \/ /\ NoFault /\ ~processed[r]
        /\ processed' = [processed EXCEPT ![r] = TRUE]
        /\ outcome' = [outcome EXCEPT ![r] = "dead_lettered"]
        /\ log' = [log EXCEPT ![r] = Append(@, "dead_lettered")]
        /\ Resolve(r, "dead_letter")
     \/ /\ IF processed[r] THEN NoFault ELSE Fault
        /\ UNCHANGED <<processed, outcome, log, resolved>>
  /\ UNCHANGED <<exists, suppressed, repeatOf, typed, controlVars, cycleVars,
                 att, plan, retry, withdrawn, crashes, ops>>

(* Mutants of Claim: one retry too many; joining the attempt under way. *)
ClaimOneMore(w, r) ==
  /\ Filtered(w) /\ job[w][r] = "queued" /\ retry[w][r] <= MaxRetries
  /\ ~processed[r]
  /\ outcome' = [outcome EXCEPT ![r] = "running"]
  /\ log' = [log EXCEPT ![r] = Append(@, "running")]
  /\ att' = [att EXCEPT ![w][r] = Len(log[r]) + 1]
  /\ Move(w, r, "claimed")
  /\ UNCHANGED <<exists, processed, suppressed, repeatOf, typed, controlVars, cycleVars,
                 plan, retry, historyVars>>

ClaimJoining(w, r) ==
  LET open == {i \in 1..Len(log[r]) : log[r][i] = "running"}
  IN
  /\ Filtered(w) /\ job[w][r] = "queued" /\ retry[w][r] < MaxRetries
  /\ ~processed[r]
  /\ outcome' = [outcome EXCEPT ![r] = "running"]
  /\ log' = [log EXCEPT ![r] = IF open = {} THEN Append(@, "running") ELSE @]
  /\ att' = [att EXCEPT ![w][r] = IF open = {} THEN Len(log[r]) + 1 ELSE CHOOSE i \in open : TRUE]
  /\ Move(w, r, "claimed")
  /\ UNCHANGED <<exists, processed, suppressed, repeatOf, typed, controlVars, cycleVars,
                 plan, retry, historyVars>>

(* begin_extraction_attempt: one atomic UPDATE ... WHERE processed = false. *)
(* A stale claim is skipped; any other error counts as a failed attempt    *)
(* although no attempt was recorded.                                       *)
Claim(w, r) ==
  /\ Filtered(w) /\ job[w][r] = "queued" /\ retry[w][r] < MaxRetries
  /\ ~processed[r]
  /\ outcome' = [outcome EXCEPT ![r] = "running"]
  /\ log' = [log EXCEPT ![r] = Append(@, "running")]
  /\ att' = [att EXCEPT ![w][r] = Len(log[r]) + 1]
  /\ Move(w, r, "claimed")
  /\ UNCHANGED <<exists, processed, suppressed, repeatOf, typed, controlVars, cycleVars,
                 plan, retry, historyVars>>

ClaimStale(w, r) ==
  /\ Filtered(w) /\ job[w][r] = "queued" /\ retry[w][r] < MaxRetries
  /\ processed[r]
  /\ retry' = [retry EXCEPT ![w][r] = 0]
  /\ Move(w, r, "none")
  /\ UNCHANGED <<dbVars, controlVars, cycleVars, att, plan, historyVars>>

ClaimError(w, r) ==
  /\ Filtered(w) /\ job[w][r] = "queued" /\ retry[w][r] < MaxRetries
  /\ Fault
  /\ retry' = [retry EXCEPT ![w][r] = @ + 1]
  /\ Move(w, r, "none")
  /\ UNCHANGED <<dbVars, controlVars, cycleVars, att, plan,
                 resolved, withdrawn, crashes, ops>>

(* An attempt ends: the actor lets go of the row. *)
Release(a, r) ==
  /\ Move(a, r, "none")
  /\ att' = [att EXCEPT ![a][r] = 0]
  /\ plan' = [plan EXCEPT ![a][r] = "none"]

(* Mutant of FinishStatus: every attempt that did not raise succeeded. *)
FinishStatusAlways(s) == "succeeded"

FinishStatus(s) == IF s = "stored" THEN "succeeded" ELSE "skipped"

(* finish_extraction_attempt after process_raw_message returned; if that    *)
(* call fails the exception handler treats the attempt as failed.          *)
Finish(w, r) ==
  /\ job[w][r] = "returned" /\ plan[w][r] # "failed"
  /\ \/ /\ NoFault
        /\ SetAttempt(r, att[w][r], FinishStatus(plan[w][r]))
        /\ outcome' = [outcome EXCEPT ![r] = FinishStatus(plan[w][r])]
        /\ retry' = [retry EXCEPT ![w][r] = 0]
        /\ Release(w, r)
     \/ /\ Fault
        /\ Move(w, r, "raised")
        /\ UNCHANGED <<log, outcome, retry, att, plan>>
  /\ UNCHANGED <<exists, processed, suppressed, repeatOf, typed, controlVars, cycleVars,
                 resolved, withdrawn, crashes, ops>>

(* storage_status "failed" is turned into an exception by the worker. *)
RaiseUnsaved(w, r) ==
  /\ job[w][r] = "returned" /\ plan[w][r] = "failed"
  /\ Move(w, r, "raised")
  /\ UNCHANGED <<dbVars, controlVars, cycleVars, att, plan, retry, historyVars>>

(* Mutant of FinishFailed: the row is requeued. *)
FinishFailedRequeueing(w, r) ==
  /\ job[w][r] = "raised"
  /\ SetAttempt(r, att[w][r], "failed")
  /\ outcome' = [outcome EXCEPT ![r] = "failed"]
  /\ processed' = [processed EXCEPT ![r] = FALSE]
  /\ retry' = [retry EXCEPT ![w][r] = @ + 1]
  /\ Release(w, r)
  /\ UNCHANGED <<exists, suppressed, repeatOf, typed, controlVars, cycleVars, historyVars>>

(* The exception handler. When its own database call fails, the exception  *)
(* leaves the thread before the retry is counted.                          *)
FinishFailed(w, r) ==
  /\ job[w][r] = "raised"
  /\ \/ /\ NoFault
        /\ SetAttempt(r, att[w][r], "failed")
        /\ outcome' = [outcome EXCEPT ![r] = "failed"]
        /\ retry' = [retry EXCEPT ![w][r] = @ + 1]
     \/ Fault /\ UNCHANGED <<log, outcome, retry>>
  /\ Release(w, r)
  /\ UNCHANGED <<exists, processed, suppressed, repeatOf, typed, controlVars, cycleVars,
                 resolved, withdrawn, crashes, ops>>

-----------------------------------------------------------------------------
(* /trigger-extraction and the message webhook: an unprocessed row that the *)
(* ingestor stored goes through the pipeline with no claim, and nothing is *)
(* reported to the attempt log.                                            *)
TriggerStart(d, r) ==
  /\ \A q \in Rows : job[d][q] = "none"
  /\ exists[r] /\ ~processed[r] /\ r \notin Children
  /\ Move(d, r, "claimed")
  /\ UNCHANGED <<dbVars, controlVars, cycleVars, att, plan, retry, historyVars>>

TriggerEnd(d, r) ==
  /\ job[d][r] \in {"returned", "raised"}
  /\ Release(d, r)
  /\ UNCHANGED <<dbVars, controlVars, cycleVars, retry, historyVars>>

-----------------------------------------------------------------------------
(* process_raw_message, run by a worker that holds a claim or by a trigger. *)
Return(a, r, status) ==
  /\ Move(a, r, "returned")
  /\ plan' = [plan EXCEPT ![a][r] = status]

HasTyped(r) == \E t \in Tables : typed[r][t] # "none"

(* Canonical rows of a processed message: its own, or those of its slices. *)
Canonical(q) ==
  /\ processed[q]
  /\ HasTyped(q) \/ \E c \in ChildrenOf[q] : processed[c] /\ HasTyped(c)

Repeats(r) ==
  IF r \in Children THEN {}
  ELSE {q \in Rows \ {r} : <<r, q>> \in SameAuthorCopy /\ Canonical(q)}

(* The organization lookup between the two gates fails and raises. *)
ContextError(a, r) ==
  /\ job[a][r] = "claimed" /\ r \notin Excluded
  /\ Fault
  /\ Move(a, r, "raised")
  /\ UNCHANGED <<dbVars, controlVars, cycleVars, att, plan, retry,
                 resolved, withdrawn, crashes, ops>>

SkipExcluded(a, r) ==
  /\ job[a][r] = "claimed" /\ r \in Excluded
  /\ processed' = [processed EXCEPT ![r] = TRUE]
  /\ Resolve(r, "excluded")
  /\ Return(a, r, "skipped")
  /\ UNCHANGED <<exists, suppressed, outcome, repeatOf, log, typed, controlVars, cycleVars,
                 att, retry, withdrawn, crashes, faults, ops>>

(* record_repeat_observation: the repost is consumed, its copy's rows live on. *)
RecordRepeat(a, r) ==
  /\ job[a][r] = "claimed"
  /\ IF r \in Excluded THEN Fault ELSE NoFault
  /\ \E q \in Repeats(r) : repeatOf' = [repeatOf EXCEPT ![r] = {q}]
  /\ processed' = [processed EXCEPT ![r] = TRUE]
  /\ outcome' = [outcome EXCEPT ![r] = "repeat_observation"]
  /\ Resolve(r, "repeat")
  /\ Return(a, r, "stored")
  /\ UNCHANGED <<exists, suppressed, log, typed, controlVars, cycleVars, att, retry,
                 withdrawn, crashes, ops>>

(* Both gates swallow their own errors, so a failing gate lets the row      *)
(* through: an excluded one even when it was marked processed and only the *)
(* read that follows in mark_raw_processed failed.                         *)
PassGates(a, r) ==
  /\ job[a][r] = "claimed"
  /\ IF r \in Excluded \/ Repeats(r) # {} THEN Fault ELSE NoFault
  /\ \/ UNCHANGED <<processed, resolved>>
     \/ /\ r \in Excluded
        /\ processed' = [processed EXCEPT ![r] = TRUE]
        /\ Resolve(r, "excluded")
  /\ Move(a, r, "gated")
  /\ UNCHANGED <<exists, suppressed, outcome, repeatOf, log, typed, controlVars, cycleVars,
                 att, plan, retry, withdrawn, crashes, ops>>

(* Mutant of Materialize: a slice that could not be inserted is skipped. *)
MaterializePartly(a, r) ==
  /\ job[a][r] = "gated" /\ ChildrenOf[r] # {}
  /\ \E missing \in SUBSET {c \in ChildrenOf[r] : ~exists[c]} :
       /\ IF missing = {} THEN NoFault ELSE Fault
       /\ exists' = [c \in Rows |-> exists[c] \/ c \in ChildrenOf[r] \ missing]
       /\ Move(a, r, "split")
       /\ Resolve(r, "children")
  /\ UNCHANGED <<processed, suppressed, outcome, repeatOf, log, typed, controlVars, cycleVars,
                 att, plan, retry, withdrawn, crashes, ops>>

(* A bulk broadcast becomes one child row per slice. Children are looked up *)
(* by uid and inserted when absent; any child missing from the result makes *)
(* the pipeline raise: its insert failed, or lost a race against the insert *)
(* of another actor that is splitting the same row.                        *)
Materialize(a, r) ==
  /\ job[a][r] = "gated" /\ ChildrenOf[r] # {}
  /\ \E missing \in SUBSET {c \in ChildrenOf[r] : ~exists[c]}, raced \in BOOLEAN :
       LET complete == missing = {} /\ ~raced
       IN  /\ raced => \E b \in Actors \ {a} : job[b][r] \in {"gated", "split"}
           /\ IF missing = {} THEN NoFault ELSE Fault
           /\ exists' = [c \in Rows |-> exists[c] \/ c \in ChildrenOf[r] \ missing]
           /\ Move(a, r, IF complete THEN "split" ELSE "raised")
           /\ resolved' = [resolved EXCEPT ![r] =
                             IF complete THEN @ \cup {"children"} ELSE @]
  /\ UNCHANGED <<processed, suppressed, outcome, repeatOf, log, typed, controlVars, cycleVars,
                 att, plan, retry, withdrawn, crashes, ops>>

(* mark_raw_processed raises when its write fails, and when the read that   *)
(* follows the write fails.                                                *)
MarkSplitParent(a, r) ==
  /\ job[a][r] = "split"
  /\ \/ /\ NoFault
        /\ processed' = [processed EXCEPT ![r] = TRUE]
        /\ Return(a, r, "split_queued")
     \/ /\ Fault
        /\ processed' \in {processed, [processed EXCEPT ![r] = TRUE]}
        /\ Move(a, r, "raised")
        /\ UNCHANGED plan
  /\ UNCHANGED <<exists, suppressed, outcome, repeatOf, log, typed, controlVars, cycleVars,
                 att, retry, resolved, withdrawn, crashes, ops>>

(* Mutant of ProviderUnavailable: silence is taken for a message without a listing. *)
ProviderSilenceSkips(a, r) ==
  /\ job[a][r] = "gated" /\ ChildrenOf[r] = {}
  /\ Move(a, r, "saved")
  /\ plan' = [plan EXCEPT ![a][r] = "skipped"]
  /\ UNCHANGED <<dbVars, controlVars, cycleVars, att, retry, historyVars>>

(* No provider answered: the pipeline raises and the row stays queued. *)
ProviderUnavailable(a, r) ==
  /\ job[a][r] = "gated" /\ ChildrenOf[r] = {}
  /\ Move(a, r, "raised")
  /\ UNCHANGED <<dbVars, controlVars, cycleVars, att, plan, retry, historyVars>>

(* Saving starts by deleting the row's projection in every other table;    *)
(* a failing delete is printed and ignored.                                *)
CleanOtherRoutes(r, t) ==
  \/ /\ NoFault
     /\ typed' = [typed EXCEPT ![r] =
          [u \in Tables |-> IF u = t THEN typed[r][u] ELSE "none"]]
  \/ Fault /\ (\E u \in Tables \ {t} : typed[r][u] # "none") /\ UNCHANGED typed

(* An identical processed message: its typed rows are copied one by one,   *)
(* each save clearing the other tables, so the last copied one remains.    *)
CloneDuplicate(a, r) ==
  /\ job[a][r] = "gated" /\ ChildrenOf[r] = {} /\ r \notin Children
  /\ \E q \in Rows \ {r}, t \in Tables :
       /\ <<r, q>> \in SameText /\ processed[q] /\ typed[q][t] # "none"
       /\ typed' = [typed EXCEPT ![r] =
            [u \in Tables |-> IF u = t THEN typed[q][t] ELSE "none"]]
  /\ Resolve(r, "clone")
  /\ Move(a, r, "saved")
  /\ plan' = [plan EXCEPT ![a][r] = "stored"]
  /\ UNCHANGED <<exists, processed, suppressed, outcome, repeatOf, log, controlVars, cycleVars,
                 att, retry, withdrawn, crashes, faults, ops>>

(* The provider yields a listing, routed to one of the typed tables. *)
ExtractListing(a, r) ==
  /\ job[a][r] = "gated" /\ ChildrenOf[r] = {}
  /\ \E t \in Tables :
       /\ CleanOtherRoutes(r, t)
       /\ plan' = [plan EXCEPT ![a][r] = t]
  /\ Move(a, r, "routed")
  /\ UNCHANGED <<exists, processed, suppressed, outcome, repeatOf, log, controlVars, cycleVars,
                 att, retry, resolved, withdrawn, crashes, ops>>

(* Mutant of SaveListing: a failed upsert is reported as stored. *)
SaveListingUnchecked(a, r) ==
  /\ job[a][r] = "routed"
  /\ \/ /\ NoFault
        /\ typed' = [typed EXCEPT ![r][plan[a][r]] = "listing"]
        /\ Resolve(r, "listing")
     \/ Fault /\ UNCHANGED <<typed, resolved>>
  /\ Move(a, r, "saved")
  /\ plan' = [plan EXCEPT ![a][r] = "stored"]
  /\ UNCHANGED <<exists, processed, suppressed, outcome, repeatOf, log, controlVars, cycleVars,
                 att, retry, withdrawn, crashes, ops>>

(* The upsert of the listing; when it fails nothing of the message is saved. *)
SaveListing(a, r) ==
  /\ job[a][r] = "routed"
  /\ \/ /\ NoFault
        /\ typed' = [typed EXCEPT ![r][plan[a][r]] = "listing"]
        /\ Resolve(r, "listing")
        /\ Move(a, r, "saved")
        /\ plan' = [plan EXCEPT ![a][r] = "stored"]
     \/ Fault /\ Return(a, r, "failed") /\ UNCHANGED <<typed, resolved>>
  /\ UNCHANGED <<exists, processed, suppressed, outcome, repeatOf, log, controlVars, cycleVars,
                 att, retry, withdrawn, crashes, ops>>

(* The provider finds no listing: a NO_ANCHOR stub is saved on best effort. *)
SaveStub(a, r) ==
  /\ job[a][r] = "gated" /\ ChildrenOf[r] = {}
  /\ \/ /\ NoFault
        /\ typed' = [typed EXCEPT ![r] =
             [t \in Tables |-> IF t = StubTable THEN "stub" ELSE "none"]]
     \/ Fault /\ UNCHANGED typed
  /\ Resolve(r, "no_anchor")
  /\ Move(a, r, "saved")
  /\ plan' = [plan EXCEPT ![a][r] = "skipped"]
  /\ UNCHANGED <<exists, processed, suppressed, outcome, repeatOf, log, controlVars, cycleVars,
                 att, retry, withdrawn, crashes, ops>>

(* mark_raw_processed after a save; its failure is swallowed, the attempt  *)
(* still reports its status and the row comes back with the next poll.     *)
MarkProcessed(a, r) ==
  /\ job[a][r] = "saved"
  /\ \/ NoFault /\ processed' = [processed EXCEPT ![r] = TRUE]
     \/ Fault /\ UNCHANGED processed
  /\ Move(a, r, "returned")
  /\ UNCHANGED <<exists, suppressed, outcome, repeatOf, log, typed, controlVars, cycleVars,
                 att, plan, retry, resolved, withdrawn, crashes, ops>>

Pipeline(a, r) ==
  \/ ContextError(a, r)
  \/ SkipExcluded(a, r) \/ RecordRepeat(a, r) \/ PassGates(a, r)
  \/ Materialize(a, r) \/ MarkSplitParent(a, r) \/ ProviderUnavailable(a, r)
  \/ CloneDuplicate(a, r) \/ ExtractListing(a, r) \/ SaveListing(a, r)
  \/ SaveStub(a, r) \/ MarkProcessed(a, r)

-----------------------------------------------------------------------------
(* A worker process dies and is restarted: retry_counts and everything in  *)
(* flight are lost, the database keeps what was written.                   *)
Crash(w) ==
  /\ crashes < MaxCrashes
  /\ crashes' = crashes + 1
  /\ GoTo(w, "idle")
  /\ scope' = [scope EXCEPT ![w] = {}]
  /\ release' = [release EXCEPT ![w] = {}]
  /\ job' = [job EXCEPT ![w] = [r \in Rows |-> "none"]]
  /\ att' = [att EXCEPT ![w] = [r \in Rows |-> 0]]
  /\ plan' = [plan EXCEPT ![w] = [r \in Rows |-> "none"]]
  /\ retry' = [retry EXCEPT ![w] = [r \in Rows |-> 0]]
  /\ UNCHANGED <<dbVars, controlVars, resolved, withdrawn, faults, ops>>

RowStep(w, r) ==
  \/ Suppress(w, r) \/ DeadLetter(w, r)
  \/ Claim(w, r) \/ ClaimStale(w, r) \/ ClaimError(w, r)
  \/ Pipeline(w, r)
  \/ Finish(w, r) \/ RaiseUnsaved(w, r) \/ FinishFailed(w, r)

WorkerStep(w) ==
  \/ BeginCycle(w) \/ ReenableRead(w) \/ ReenableWrite(w)
  \/ Fetch(w) \/ Filter(w) \/ EndCycle(w)
  \/ \E r \in Rows : RowStep(w, r)

TriggerStep(d) ==
  \E r \in Rows : TriggerStart(d, r) \/ Pipeline(d, r) \/ TriggerEnd(d, r)

Next ==
  \/ \E r \in Rows : Arrive(r) \/ ArriveHistory(r)
  \/ ControlPlane \/ ControlWrites
  \/ \E w \in Workers : WorkerStep(w) \/ Crash(w)
  \/ \E d \in Triggers : TriggerStep(d)

Spec == Init /\ [][Next]_vars

(* The worker process loops for ever and a request handler runs to its end. *)
FairSpec ==
  /\ Spec
  /\ \A w \in Workers : WF_vars(WorkerStep(w))
  /\ WF_vars(ControlWrites)

-----------------------------------------------------------------------------
InFlight == {"claimed", "gated", "routed", "saved", "split", "returned", "raised"}
Failures(r) == {i \in 1..Len(log[r]) : log[r][i] = "failed"}

(* A row leaves the queue only after something resolved it: a saved or     *)
(* cloned listing, a provider's verdict that it holds none, its slices,    *)
(* its earlier copy, an exclusion, a dead letter. In particular provider   *)
(* failures and half-finished attempts of other actors never consume it.   *)
ConsumedOnlyWhenResolved == \A r \in Rows : processed[r] => resolved[r] # {}

(* A broadcast that was split has all its slices in the queue, however many *)
(* attempts materialised them and whichever of them failed half-way.       *)
SplitIsComplete ==
  \A r \in Rows : "children" \in resolved[r] => \A c \in ChildrenOf[r] : exists[c]

(* An attempt logged as succeeded saved, copied or matched a listing.      *)
SuccessIsBacked ==
  \A r \in Rows : \A i \in 1..Len(log[r]) :
    log[r][i] = "succeeded" => resolved[r] \cap {"listing", "clone", "repeat"} # {}

(* A worker closes only its own attempt: while it holds an attempt_id the  *)
(* log entry is running and no other worker holds the same one.            *)
AttemptHasOneOwner ==
  \A w \in Workers, r \in Rows : job[w][r] \in InFlight =>
    /\ att[w][r] \in 1..Len(log[r])
    /\ log[r][att[w][r]] = "running"
    /\ \A v \in Workers \ {w} : att[v][r] # att[w][r]

(* A closed attempt is history: no late handler, second worker or restarted *)
(* one rewrites its status, and no entry of the log is ever lost.          *)
ClosedAttemptsStay ==
  [][\A r \in Rows : \A i \in 1..Len(log[r]) :
       /\ i \in 1..Len(log'[r])
       /\ log[r][i] # "running" => log'[r][i] = log[r][i]]_vars

(* Consent is decided per batch: a worker extracts another broker's post   *)
(* only if its group was selected at the snapshot of the current batch, so *)
(* a withdrawal is outrun by at most the batch already under way.          *)
ConsentFence ==
  \A w \in Workers, r \in Rows :
    job[w][r] \in InFlight \cup {"queued"} => HasConsent(r) \/ r \in withdrawn[w]

(* That batch is short: whatever arrives, is re-enabled, selected or        *)
(* withdrawn while a cycle is under way, at most BatchSize rows of a lane   *)
(* are left that a worker will still extract against the operator's choice. *)
OutrunIsBounded ==
  \A w \in Workers, l \in Lanes :
    Cardinality({r \in Rows : /\ LaneOf[r] = l
                              /\ job[w][r] \in InFlight \cup {"queued"}
                              /\ ~HasConsent(r)}) <= BatchSize

(* A message imported by history sync is never attempted and never listed. *)
HistoryStaysEvidence ==
  \A r \in Rows : "history_sync" \in resolved[r] => log[r] = <<>> /\ typed[r] = NoTyped

(* A row is dead-lettered only after MaxRetries failures: attempts logged  *)
(* as failed, plus claims that failed before an attempt could be logged.   *)
DeadLetterIsEarned ==
  \A r \in Rows : "dead_letter" \in resolved[r] =>
    Cardinality(Failures(r)) + faults >= MaxRetries

(* With one worker owning the queue, as its docstring asks, a row whose    *)
(* latest outcome is succeeded shows a typed row or points at the copy     *)
(* that has one: deletes in other tables, lost saves and retries of the    *)
(* same row never leave a success without a projection.                    *)
SucceededIsVisible ==
  \A r \in Rows : outcome[r] = "succeeded" => HasTyped(r) \/ repeatOf[r] # {}

(* With one worker, dead-lettering is the last word on a row: no late      *)
(* attempt rewrites the outcome an operator looks for.                     *)
DeadLetterIsFinal ==
  [][\A r \in Rows : outcome[r] = "dead_lettered" => outcome'[r] = "dead_lettered"]_vars

(* However many actors there are: a dead letter draws no new work on its    *)
(* row, and only work that is under way can still rewrite its outcome.     *)
DeadLetterFence ==
  [][\A r \in Rows : outcome[r] = "dead_lettered" =>
       /\ \A a \in Actors : job'[a][r] \in InFlight => job[a][r] \in InFlight
       /\ outcome'[r] # "dead_lettered" => \E a \in Actors : job[a][r] \in InFlight]_vars

(* Every row that stays eligible (its group selected on its connection,    *)
(* its organization running) is eventually consumed, by extraction or by   *)
(* its dead letter, however often providers fail.                          *)
StaysEligible(r) ==
  /\ exists[r]
  /\ consent[<<ConnOf[r], GroupOf[r]>>] = "selected"
  /\ TenantOfRow(r) \in RunningTenants
QueueDrains == \A r \in Rows : <>[]StaysEligible(r) => <>processed[r]

(* The queue implements the ledger: processed is the consumption, and each *)
(* database write of any actor, failed or not, is a ledger step or none.   *)
Ledger == INSTANCE MessageLedger WITH
  Slices <- ChildrenOf,
  stored <- {r \in Rows : exists[r]},
  consumed <- {r \in Rows : processed[r]},
  evidence <- resolved
ImplementsLedger == Ledger!Spec

(* The queue implements the contract of the attempt log: claims, reports,  *)
(* dead letters, crashes, failed calls, and the marks of pipelines that run *)
(* without an attempt are steps of it or invisible to it.                  *)
Attempts == INSTANCE AttemptLog WITH
  Callers <- Workers,
  row <- [r \in Rows |-> IF ~exists[r] THEN "absent"
                         ELSE IF processed[r] THEN "consumed" ELSE "available"],
  held <- [w \in Workers |-> att[w]]
ImplementsAttempts == Attempts!Spec
=============================================================================
