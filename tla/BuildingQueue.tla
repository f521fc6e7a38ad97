---------------------------- MODULE BuildingQueue ----------------------------
(***************************************************************************)
(* The building enrichment queue: the building_enrichment_jobs table       *)
(* behind storage/supabase.py, the API and discovery calls that put rows   *)
(* into it, and the BuildingEnrichmentWorker processes that recover,       *)
(* release, fetch and process them with a pool of threads. One action is   *)
(* one database round trip, or one decision between two. Time is the three *)
(* actions GrowOld, BackoffEnds and NewDay.                                *)
(***************************************************************************)
EXTENDS Integers, FiniteSets

CONSTANTS
  MaxRows,       \* bound: rows of building_enrichment_jobs
  Buildings,     \* buildings
  Providers,     \* names of the configured providers
  Preferred,     \* the worker's preferred_provider
  Web,           \* "crawl4ai", the provider with a daily budget
  Unassigned,    \* the provider of rows discovery inserts
  Workers,       \* worker processes
  Slots,         \* threads of their pools
  home,          \* slot -> its worker
  Unconfigured,  \* workers without any available provider
  BatchSize,     \* batch_size
  MaxAttempts,   \* min(max_attempts of the row, max_retries of the worker)
  MaxSearches,   \* max_web_searches_per_day (0 would switch the budget off)
  Askers,        \* API requests and discovery threads that create jobs
  MaxAsks,       \* bound: jobs asked for in a behaviour
  MaxFaults      \* bound: failed calls and process crashes in a behaviour

ASSUME BuildingAssumption ==
  /\ MaxRows \in Nat
  /\ Preferred \in Providers /\ Unassigned \notin Providers
  /\ IsFiniteSet(Slots) /\ Slots # {} /\ Slots \intersect Workers = {}
  /\ Buildings # {} /\ home \in [Slots -> Workers]
  /\ Unconfigured \subseteq Workers
  /\ BatchSize \in Nat \ {0} /\ MaxAttempts \in Nat \ {0} /\ MaxSearches \in Nat \ {0}
  /\ MaxAsks \in Nat /\ MaxFaults \in Nat

VARIABLES
  (* building_enrichment_jobs, by id *)
  building, provider, status, attempts,
  due,        \* scheduled_after: "now", "backoff", or "tomorrow" with the budget reason
  stale,      \* running rows whose started_at is older than ten minutes
  (* building_enrichment_history and the building's own row *)
  recorded,   \* rows whose enrichment stored fields, a suggestion or evidence
  searches,   \* web_search_attempt rows of today
  (* worker processes *)
  phase,      \* where _process_batch is
  todo,       \* the rows it has read and not yet dealt with
  current,    \* the stale row being recovered, 0 if none
  (* threads of the pools *)
  pc, held,   \* where _process_job is, and its job_id, 0 if none
  seen,       \* attempts as last read by a thread or by a recovering worker
  (* callers of create_building_enrichment_job and ensure_building_from_observation *)
  ask,        \* what they decided to write
  asked, faults

tableVars == <<building, provider, status, attempts, due, stale>>
workVars == <<recorded, searches>>
workerVars == <<phase, todo, current>>
slotVars == <<pc, held>>
vars == <<tableVars, workVars, workerVars, slotVars, seen, ask, asked, faults>>

Rows == 1..MaxRows
Names == Providers \union {Unassigned}
Active == {"pending", "running"}
Statuses == {"none", "completed", "failed"} \union Active
Phases == {"idle", "recover", "retry", "release", "fetch", "batch"}
Steps == {"idle", "claim", "update", "check", "work", "count", "search", "enrich",
          "apply", "finish", "reject", "defer", "unusable", "give_up", "fail", "retry"}
Asks == [op: {"none", "insert", "requeue"}, building: Buildings, provider: Names, row: Rows \union {0}]

(* The part of _process_job that runs inside its try block. It calls fail() too
   ("unusable", "give_up"), and an exception of that call leads to the fail()
   of the except clause ("fail", "retry"). *)
Guarded == {"count", "search", "enrich", "apply", "finish", "reject", "defer",
            "unusable", "give_up"}

(* Threads that believe they hold a row's claim. *)
Holding == {"work", "fail", "retry"} \union Guarded
Holders(j) == {s \in Slots : pc[s] \in Holding /\ held[s] = j}

SlotsOf(w) == {s \in Slots : home[s] = w}

(* idx_building_enrichment_one_active lets j be active for (b, p). *)
IndexFree(j, b, p) ==
  \A k \in Rows \ {j} : ~(status[k] \in Active /\ building[k] = b /\ provider[k] = p)

(* The provider _process_job picks for a row. *)
Assigned(j) == IF provider[j] \in Providers THEN provider[j] ELSE Preferred

NoAsk == [op |-> "none", building |-> CHOOSE b \in Buildings : TRUE,
          provider |-> Unassigned, row |-> 0]

Init ==
  /\ building = [j \in Rows |-> NoAsk.building]
  /\ provider = [j \in Rows |-> Unassigned]
  /\ status = [j \in Rows |-> "none"]
  /\ attempts = [j \in Rows |-> 0]
  /\ due = [j \in Rows |-> "now"]
  /\ stale = {} /\ recorded = {} /\ searches = 0
  /\ phase = [w \in Workers |-> "idle"]
  /\ todo = [w \in Workers |-> {}]
  /\ current = [w \in Workers |-> 0]
  /\ pc = [s \in Slots |-> "idle"]
  /\ held = [s \in Slots |-> 0]
  /\ seen = [x \in Slots \union Workers |-> 0]
  /\ ask = [a \in Askers |-> NoAsk]
  /\ asked = 0 /\ faults = 0

-----------------------------------------------------------------------------
(* Writes to a row that several callers share.                              *)

(* Attempts are compared with the limit only, so they are counted up to it. *)
Bump(n) == IF n < MaxAttempts THEN n + 1 ELSE n

MakePending(j, when) ==
  /\ status' = [status EXCEPT ![j] = "pending"]
  /\ due' = [due EXCEPT ![j] = when]
  /\ stale' = stale \ {j}

(* complete_building_job: unconditional. *)
Complete(j, outcome) ==
  /\ status' = [status EXCEPT ![j] = outcome]
  /\ stale' = stale \ {j}
  /\ UNCHANGED <<building, provider, attempts, due>>

(* retry_building_job, its write, after n attempts were read. *)
RetryWrite(j, n) ==
  IF n < MaxAttempts
  THEN /\ IndexFree(j, building[j], provider[j])
       /\ MakePending(j, "backoff")
       /\ UNCHANGED <<building, provider, attempts>>
  ELSE Complete(j, "failed")

(* The unique index refuses that write, and the call raises. *)
RetryRefused(j, n) ==
  n < MaxAttempts /\ ~IndexFree(j, building[j], provider[j])

-----------------------------------------------------------------------------
(* Callers that create jobs.                                                *)

RowsFor(b, p) == {j \in Rows : status[j] # "none" /\ building[j] = b /\ provider[j] = p}

Decide(a, decision) ==
  /\ ask[a].op = "none" /\ asked < MaxAsks
  /\ ask' = [ask EXCEPT ![a] = decision]
  /\ asked' = asked + 1
  /\ UNCHANGED <<tableVars, workVars, workerVars, slotVars, seen, faults>>

(* create_building_enrichment_job reads the latest row of (b, p). *)
Request(a, b, p) ==
  LET mine == RowsFor(b, p) IN
    \/ /\ mine = {}
       /\ Decide(a, [op |-> "insert", building |-> b, provider |-> p, row |-> 0])
    \/ \E j \in mine :
         /\ status[j] \notin Active /\ \A k \in mine : k <= j
         /\ Decide(a, [op |-> "requeue", building |-> b, provider |-> p, row |-> j])

(* ensure_building_from_observation finds no row of the building. *)
Observe(a, b) ==
  /\ \A j \in Rows : status[j] = "none" \/ building[j] # b
  /\ Decide(a, [op |-> "insert", building |-> b, provider |-> Unassigned, row |-> 0])

Answered(a) ==
  /\ ask' = [ask EXCEPT ![a] = NoAsk]
  /\ UNCHANGED <<workVars, workerVars, slotVars, seen, asked, faults>>

Insert(a) ==
  LET b == ask[a].building
      p == ask[a].provider
      free == {j \in Rows : status[j] = "none"} IN
    /\ ask[a].op = "insert"
    /\ \/ \E j \in free :
            /\ \A k \in free : j <= k
            /\ IndexFree(j, b, p)
            /\ building' = [building EXCEPT ![j] = b]
            /\ provider' = [provider EXCEPT ![j] = p]
            /\ status' = [status EXCEPT ![j] = "pending"]
            /\ UNCHANGED <<attempts, due, stale>>
       \/ ~IndexFree(0, b, p) /\ UNCHANGED tableVars
    /\ Answered(a)

Requeue(a) ==
  LET j == ask[a].row IN
    /\ ask[a].op = "requeue"
    /\ \/ /\ IndexFree(j, building[j], provider[j])
          /\ MakePending(j, "now")
          /\ attempts' = [attempts EXCEPT ![j] = 0]
          /\ UNCHANGED <<building, provider>>
       \/ ~IndexFree(j, building[j], provider[j]) /\ UNCHANGED tableVars
    /\ Answered(a)

-----------------------------------------------------------------------------
(* A worker process: _process_batch.                                        *)

Goto(w, to) == phase' = [phase EXCEPT ![w] = to]

(* Mutant of RecoverSelect: claims of crashed workers are not looked for. *)
RecoverNothing(w) ==
  /\ phase[w] = "idle" /\ Goto(w, "recover")
  /\ UNCHANGED <<tableVars, workVars, todo, current, slotVars, seen, ask, asked, faults>>

(* recover_stale_building_jobs selects, then retries each row it selected. *)
RecoverSelect(w) ==
  /\ phase[w] = "idle" /\ Goto(w, "recover")
  /\ todo' = [todo EXCEPT ![w] = stale]
  /\ UNCHANGED <<tableVars, workVars, current, slotVars, seen, ask, asked, faults>>

RecoverRead(w) ==
  \E j \in todo[w] :
    /\ phase[w] = "recover" /\ Goto(w, "retry")
    /\ current' = [current EXCEPT ![w] = j]
    /\ seen' = [seen EXCEPT ![w] = attempts[j]]
    /\ todo' = [todo EXCEPT ![w] = @ \ {j}]
    /\ UNCHANGED <<tableVars, workVars, slotVars, ask, asked, faults>>

RecoverWrite(w) ==
  /\ phase[w] = "retry" /\ Goto(w, "recover")
  /\ RetryWrite(current[w], seen[w])
  /\ current' = [current EXCEPT ![w] = 0]
  /\ seen' = [seen EXCEPT ![w] = 0]
  /\ UNCHANGED <<workVars, todo, slotVars, ask, asked, faults>>

(* The exception reaches _run_loop, which starts over after five seconds. *)
RecoverRefused(w) ==
  /\ phase[w] = "retry" /\ Goto(w, "idle")
  /\ RetryRefused(current[w], seen[w])
  /\ current' = [current EXCEPT ![w] = 0]
  /\ seen' = [seen EXCEPT ![w] = 0]
  /\ todo' = [todo EXCEPT ![w] = {}]
  /\ UNCHANGED <<tableVars, workVars, slotVars, ask, asked, faults>>

(* What a select with limit(batch_size) may return: any BatchSize rows stand for
   the first ones in its order. *)
Limited(R) ==
  {S \in SUBSET R : Cardinality(S) <= BatchSize /\ (S = R \/ Cardinality(S) = BatchSize)}

(* The rows that wait for tomorrow's budget, while today's has room. *)
Releasable == {j \in Rows : /\ Preferred = Web /\ searches < MaxSearches
                            /\ status[j] = "pending" /\ due[j] = "tomorrow"}

(* release_budget_deferred_building_jobs *)
ReleaseSelect(w) ==
  /\ phase[w] = "recover" /\ todo[w] = {} /\ Goto(w, "release")
  /\ \E S \in Limited(Releasable) : todo' = [todo EXCEPT ![w] = S]
  /\ UNCHANGED <<tableVars, workVars, current, slotVars, seen, ask, asked, faults>>

ReleaseWrite(w) ==
  /\ phase[w] = "release" /\ Goto(w, "fetch")
  /\ due' = [j \in Rows |->
       IF j \in todo[w] /\ status[j] = "pending" THEN "now" ELSE due[j]]
  /\ todo' = [todo EXCEPT ![w] = {}]
  /\ UNCHANGED <<building, provider, status, attempts, stale, workVars, current,
                 slotVars, seen, ask, asked, faults>>

Runnable == {j \in Rows : status[j] = "pending" /\ due[j] = "now"}

(* get_pending_building_jobs *)
Fetch(w) ==
  /\ phase[w] = "fetch" /\ Goto(w, "batch")
  /\ \E S \in Limited(Runnable) : todo' = [todo EXCEPT ![w] = S]
  /\ UNCHANGED <<tableVars, workVars, current, slotVars, seen, ask, asked, faults>>

(* Mutant of BatchEnd: the pool is shut down without waiting for its threads. *)
BatchEndEarly(w) ==
  /\ phase[w] = "batch" /\ todo[w] = {} /\ Goto(w, "idle")
  /\ UNCHANGED <<tableVars, workVars, todo, current, slotVars, seen, ask, asked, faults>>

(* The pool's with block has waited for every future. *)
BatchEnd(w) ==
  /\ phase[w] = "batch" /\ todo[w] = {}
  /\ \A s \in SlotsOf(w) : pc[s] = "idle"
  /\ Goto(w, "idle")
  /\ UNCHANGED <<tableVars, workVars, todo, current, slotVars, seen, ask, asked, faults>>

(* The process dies and starts again. *)
Crash(w) ==
  /\ faults < MaxFaults /\ faults' = faults + 1
  /\ Goto(w, "idle")
  /\ todo' = [todo EXCEPT ![w] = {}]
  /\ current' = [current EXCEPT ![w] = 0]
  /\ pc' = [s \in Slots |-> IF home[s] = w THEN "idle" ELSE pc[s]]
  /\ held' = [s \in Slots |-> IF home[s] = w THEN 0 ELSE held[s]]
  /\ seen' = [x \in Slots \union Workers |->
       IF x = w \/ x \in SlotsOf(w) THEN 0 ELSE seen[x]]
  /\ UNCHANGED <<tableVars, workVars, ask, asked>>

-----------------------------------------------------------------------------
(* A thread of the pool: _process_job.                                      *)

Step(s, from, to) == pc[s] = from /\ pc' = [pc EXCEPT ![s] = to]
KeepRow == UNCHANGED <<workerVars, seen, ask, asked, held, faults>>

(* The thread is done with the row, whatever became of it. *)
LetGo(s) ==
  /\ pc' = [pc EXCEPT ![s] = "idle"]
  /\ held' = [held EXCEPT ![s] = 0]
  /\ seen' = [seen EXCEPT ![s] = 0]

(* Mutant of Take: the thread starts before it is given its job. *)
TakeNothing(s) ==
  \E j \in todo[home[s]] :
    /\ phase[home[s]] = "batch"
    /\ Step(s, "idle", "claim")
    /\ todo' = [todo EXCEPT ![home[s]] = @ \ {j}]
    /\ UNCHANGED <<tableVars, workVars, phase, current, held, seen, ask, asked, faults>>

Take(s) ==
  \E j \in todo[home[s]] :
    /\ phase[home[s]] = "batch"
    /\ Step(s, "idle", "claim")
    /\ held' = [held EXCEPT ![s] = j]
    /\ todo' = [todo EXCEPT ![home[s]] = @ \ {j}]
    /\ UNCHANGED <<tableVars, workVars, phase, current, seen, ask, asked, faults>>

(* No provider is available: the row fails although nobody claimed it. *)
NoProvider(s) ==
  /\ pc[s] = "claim" /\ home[s] \in Unconfigured
  /\ Complete(held[s], "failed")
  /\ LetGo(s)
  /\ UNCHANGED <<workVars, workerVars, ask, asked, faults>>

(* claim_building_job, first read. *)
ClaimRead(s) ==
  /\ Step(s, "claim", "update")
  /\ home[s] \notin Unconfigured /\ status[held[s]] = "pending"
  /\ seen' = [seen EXCEPT ![s] = attempts[held[s]]]
  /\ UNCHANGED <<tableVars, workVars, workerVars, held, ask, asked, faults>>

(* claim_building_job, the update; a row that is not pending is not matched. *)
ClaimUpdate(s) ==
  LET j == held[s] IN
    /\ Step(s, "update", "check")
    /\ \/ status[j] # "pending" /\ UNCHANGED tableVars
       \/ /\ status[j] = "pending" /\ IndexFree(j, building[j], Assigned(j))
          /\ status' = [status EXCEPT ![j] = "running"]
          /\ attempts' = [attempts EXCEPT ![j] = Bump(seen[s])]
          /\ provider' = [provider EXCEPT ![j] = Assigned(j)]
          /\ UNCHANGED <<building, due, stale>>
    /\ UNCHANGED workVars /\ KeepRow

(* claim_building_job, the second read. *)
ClaimCheck(s) ==
  /\ Step(s, "check", "work")
  /\ status[held[s]] = "running"
  /\ UNCHANGED <<tableVars, workVars>> /\ KeepRow

(* The claim is lost: the row was not pending, the index refused the renamed
   provider, or the second read finds the row not running. *)
ClaimLost(s) ==
  LET j == held[s] IN
    /\ \/ pc[s] = "claim" /\ home[s] \notin Unconfigured /\ status[j] # "pending"
       \/ /\ pc[s] = "update" /\ status[j] = "pending"
          /\ ~IndexFree(j, building[j], Assigned(j))
       \/ pc[s] = "check" /\ status[j] # "running"
    /\ LetGo(s)
    /\ UNCHANGED <<tableVars, workVars, workerVars, ask, asked, faults>>

(* The building is missing, its name cannot be enriched, or it can. *)
Inspect(s) ==
  /\ pc[s] = "work"
  /\ \E to \in {"fail", "reject", IF Assigned(held[s]) = Web THEN "count" ELSE "enrich"} :
       Step(s, "work", to)
  /\ UNCHANGED <<tableVars, workVars>> /\ KeepRow

(* Mutant of CountSearches: the limit is left to the release of deferred rows. *)
CountNothing(s) ==
  /\ Step(s, "count", "search")
  /\ UNCHANGED <<tableVars, workVars>> /\ KeepRow

CountSearches(s) ==
  /\ Step(s, "count", IF searches < MaxSearches THEN "search" ELSE "defer")
  /\ UNCHANGED <<tableVars, workVars>> /\ KeepRow

RecordSearch(s) ==
  /\ Step(s, "search", "enrich")
  /\ searches' = searches + 1
  /\ UNCHANGED <<tableVars, recorded>> /\ KeepRow

(* Mutant of Enrich: an empty result is taken for a success. *)
EnrichEmpty(s) ==
  /\ \E to \in {"apply", "finish"} : Step(s, "enrich", to)
  /\ UNCHANGED <<tableVars, workVars>> /\ KeepRow

(* provider.enrich returns fields, or none, or a name that Places does not
   confirm; Crawl4AI may also return structured evidence, which is stored. *)
Enrich(s) ==
  /\ pc[s] = "enrich"
  /\ \E evidence \in {FALSE} \union {Assigned(held[s]) = Web} :
    /\ \E to \in {"apply", "unusable"} \union (IF evidence THEN {"finish"} ELSE {}) :
         Step(s, "enrich", to)
    /\ recorded' = recorded \union {j \in {held[s]} : evidence}
    /\ UNCHANGED <<tableVars, searches>> /\ KeepRow

(* Confident fields update the building, the others become a suggestion. *)
Apply(s) ==
  /\ Step(s, "apply", "finish")
  /\ recorded' = recorded \union {held[s]}
  /\ UNCHANGED <<tableVars, searches>> /\ KeepRow

(* The answer to the write reaches the thread, or it times out and is handled
   as an exception of the try block. *)
Replied(s) ==
  \/ LetGo(s) /\ UNCHANGED faults
  \/ /\ faults < MaxFaults /\ faults' = faults + 1
     /\ pc' = [pc EXCEPT ![s] = "fail"]
     /\ UNCHANGED <<held, seen>>

Finish(s) ==
  /\ pc[s] = "finish" /\ Complete(held[s], "completed") /\ Replied(s)
  /\ UNCHANGED <<workVars, workerVars, ask, asked>>

Reject(s) ==
  /\ pc[s] = "reject" /\ Complete(held[s], "failed") /\ Replied(s)
  /\ UNCHANGED <<workVars, workerVars, ask, asked>>

(* defer_building_job *)
Defer(s) ==
  LET j == held[s] IN
    /\ pc[s] = "defer"
    /\ IndexFree(j, building[j], provider[j])
    /\ MakePending(j, "tomorrow")
    /\ Replied(s)
    /\ UNCHANGED <<building, provider, attempts, workVars, workerVars, ask, asked>>

(* A call in the try block raises: a fault, or the index refuses a row that is
   made pending. *)
Raise(s) ==
  LET j == held[s]
      refused == \/ pc[s] = "defer" /\ ~IndexFree(j, building[j], provider[j])
                 \/ pc[s] = "give_up" /\ RetryRefused(j, seen[s]) IN
    /\ pc[s] \in Guarded
    /\ refused \/ faults < MaxFaults
    /\ faults' = IF refused THEN faults ELSE faults + 1
    /\ pc' = [pc EXCEPT ![s] = "fail"]
    /\ UNCHANGED <<tableVars, workVars, workerVars, held, seen, ask, asked>>

(* fail() calls retry_building_job: its read, and its write with the history. *)
Fail(s) ==
  /\ Step(s, "fail", "retry") \/ Step(s, "unusable", "give_up")
  /\ seen' = [seen EXCEPT ![s] = attempts[held[s]]]
  /\ UNCHANGED <<tableVars, workVars, workerVars, held, ask, asked, faults>>

Retry(s) ==
  /\ \/ pc[s] = "retry" /\ LetGo(s) /\ UNCHANGED faults
     \/ pc[s] = "give_up" /\ Replied(s)
  /\ RetryWrite(held[s], seen[s])
  /\ UNCHANGED <<workVars, workerVars, ask, asked>>

(* A call outside the try block raises: the future logs it, the row stays. *)
Escape(s) ==
  LET refused == pc[s] = "retry" /\ RetryRefused(held[s], seen[s]) IN
    /\ pc[s] \notin Guarded \union {"idle"}
    /\ refused \/ faults < MaxFaults
    /\ faults' = IF refused THEN faults ELSE faults + 1
    /\ LetGo(s)
    /\ UNCHANGED <<tableVars, workVars, workerVars, ask, asked>>

-----------------------------------------------------------------------------
(* Time.                                                                     *)

GrowOld(j) ==
  /\ status[j] = "running" /\ j \notin stale
  /\ stale' = stale \union {j}
  /\ UNCHANGED <<building, provider, status, attempts, due, workVars, workerVars,
                 slotVars, seen, ask, asked, faults>>

BackoffEnds(j) ==
  /\ due[j] = "backoff"
  /\ due' = [due EXCEPT ![j] = "now"]
  /\ UNCHANGED <<building, provider, status, attempts, stale, workVars, workerVars,
                 slotVars, seen, ask, asked, faults>>

(* Midnight UTC, and the five minutes until deferred rows are due. *)
NewDay ==
  /\ searches > 0 \/ \E j \in Rows : due[j] = "tomorrow"
  /\ searches' = 0
  /\ due' = [j \in Rows |-> IF due[j] = "tomorrow" THEN "now" ELSE due[j]]
  /\ UNCHANGED <<building, provider, status, attempts, stale, recorded, workerVars,
                 slotVars, seen, ask, asked, faults>>

-----------------------------------------------------------------------------
SlotStep(s) ==
  \/ Take(s) \/ NoProvider(s)
  \/ ClaimRead(s) \/ ClaimUpdate(s) \/ ClaimCheck(s) \/ ClaimLost(s)
  \/ Inspect(s) \/ CountSearches(s) \/ RecordSearch(s) \/ Enrich(s) \/ Apply(s)
  \/ Finish(s) \/ Reject(s) \/ Defer(s) \/ Raise(s)
  \/ Fail(s) \/ Retry(s) \/ Escape(s)

WorkerStep(w) ==
  \/ RecoverSelect(w) \/ RecoverRead(w) \/ RecoverWrite(w) \/ RecoverRefused(w)
  \/ ReleaseSelect(w) \/ ReleaseWrite(w) \/ Fetch(w) \/ BatchEnd(w)

Next ==
  \/ \E s \in Slots : SlotStep(s)
  \/ \E w \in Workers : WorkerStep(w) \/ Crash(w)
  \/ \E a \in Askers, b \in Buildings :
       Observe(a, b) \/ \E p \in Providers : Request(a, b, p)
  \/ \E a \in Askers : Insert(a) \/ Requeue(a)
  \/ \E j \in Rows : GrowOld(j) \/ BackoffEnds(j)
  \/ NewDay

Spec == Init /\ [][Next]_vars

(* Workers loop for ever, threads of a pool run, and time passes. *)
Fairness ==
  /\ \A w \in Workers : WF_vars(WorkerStep(w))
  /\ \A s \in Slots : WF_vars(SlotStep(s))
  /\ \A j \in Rows : WF_vars(GrowOld(j)) /\ WF_vars(BackoffEnds(j))
  /\ WF_vars(NewDay)

FairSpec == Spec /\ Fairness

-----------------------------------------------------------------------------
TableTypeOK ==
  /\ building \in [Rows -> Buildings] /\ provider \in [Rows -> Names]
  /\ status \in [Rows -> Statuses] /\ attempts \in [Rows -> 0..MaxAttempts]
  /\ due \in [Rows -> {"now", "backoff", "tomorrow"}]
  /\ stale \subseteq Rows /\ recorded \subseteq Rows /\ searches \in Nat

WorkerTypeOK ==
  /\ phase \in [Workers -> Phases]
  /\ todo \in [Workers -> SUBSET Rows]
  /\ current \in [Workers -> Rows \union {0}]
  /\ \A w \in Workers : phase[w] = "retry" => current[w] \in Rows

SlotTypeOK ==
  /\ pc \in [Slots -> Steps] /\ held \in [Slots -> Rows \union {0}]
  /\ seen \in [Slots \union Workers -> 0..MaxAttempts]
  /\ \A s \in Slots : pc[s] # "idle" => held[s] \in Rows

AskTypeOK ==
  /\ ask \in [Askers -> Asks]
  /\ asked \in 0..MaxAsks /\ faults \in 0..MaxFaults
  /\ \A a \in Askers : ask[a].op = "requeue" => ask[a].row \in Rows

(* Types, and the row that a step in progress is about. *)
TypeOK == TableTypeOK /\ WorkerTypeOK /\ SlotTypeOK /\ AskTypeOK

(* The pool of one worker never has two threads on the same row: rows are read
   once per batch, handed out once, and the next batch (with the recovery and
   release before it) waits for every thread of this one. The comment in
   _process_batch calls the bounded concurrency safe; this is the part of it
   that is the worker's own doing. *)
WorkerHoldsOnce ==
  \A s, t \in Slots :
    (s # t /\ home[s] = home[t] /\ pc[s] # "idle" /\ pc[t] # "idle") => held[s] # held[t]

(* count_recent_enrichment_actions is read before the attempt is recorded, so
   threads that counted together overshoot the daily limit, by no more than the
   other threads of all pools, whatever faults and midnights come between. *)
OvershootBounded == searches < MaxSearches + Cardinality(Slots)

(* A row is completed only after fields, a suggestion or evidence of its own
   enrichment were stored, also when a slow thread completes it after the row
   was recovered, failed and requeued under it. *)
CompletedIsRecorded == \A j \in Rows : status[j] = "completed" => j \in recorded

(* A job that was queued is completed or failed in the end: the claim of a
   thread that died or whose call failed is recovered, a deferred row gets its
   day, and rows refused by the active-job index get their turn. *)
EveryJobSettles ==
  \A j \in Rows : status[j] \in Active ~> status[j] \in {"completed", "failed"}

(* worker.py:111 "Jobs are claimed atomically by storage, so bounded concurrency
   is safe even if another worker polls the same queue." *)
SingleHolder == \A j \in Rows : \A s, t \in Holders(j) : s = t
=============================================================================
