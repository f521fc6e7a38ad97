------------------------------ MODULE AttemptLog ------------------------------
(***************************************************************************)
(* What begin_extraction_attempt, finish_extraction_attempt and            *)
(* dead_letter_extraction promise to their callers, whoever those are and  *)
(* however they fail: attempts are opened only on rows that are available, *)
(* each under an id of its own; only the caller that was given the id      *)
(* closes it, once; the outcome of a row is what the log was last told, or *)
(* the mark of a repeat; a row that was consumed is not available again.   *)
(***************************************************************************)
EXTENDS Naturals, Sequences

CONSTANTS
  Rows,     \* raw_messages ids
  Callers   \* processes that open attempts

VARIABLES
  row,      \* a row is absent, available, or consumed
  outcome,  \* what the row was last told
  log,      \* attempts of a row, in order; the index is the attempt_id
  held      \* attempt_id a caller holds for a row, 0 for none

vars == <<row, outcome, log, held>>

Init ==
  /\ row = [r \in Rows |-> "absent"]
  /\ outcome = [r \in Rows |-> "none"]
  /\ log = [r \in Rows |-> <<>>]
  /\ held = [c \in Callers |-> [r \in Rows |-> 0]]

(* New rows, to be extracted or to be kept as they are. *)
Arrive(rs, status) ==
  /\ \A r \in rs : row[r] = "absent"
  /\ row' = [r \in Rows |-> IF r \in rs THEN status ELSE row[r]]
  /\ UNCHANGED <<outcome, log, held>>

Begin(c, r) ==
  /\ row[r] = "available" /\ held[c][r] = 0
  /\ log' = [log EXCEPT ![r] = Append(@, "running")]
  /\ held' = [held EXCEPT ![c][r] = Len(log[r]) + 1]
  /\ outcome' = [outcome EXCEPT ![r] = "running"]
  /\ UNCHANGED row

Finish(c, r, status) ==
  /\ held[c][r] \in 1..Len(log[r]) /\ log[r][held[c][r]] = "running"
  /\ log' = [log EXCEPT ![r][held[c][r]] = status]
  /\ held' = [held EXCEPT ![c][r] = 0]
  /\ outcome' = [outcome EXCEPT ![r] = status]
  /\ UNCHANGED row

(* A caller that dies, or whose handler fails, leaves its attempts open. *)
Forget(c, rs) ==
  /\ held' = [held EXCEPT ![c] = [r \in Rows |-> IF r \in rs THEN 0 ELSE held[c][r]]]
  /\ UNCHANGED <<row, outcome, log>>

DeadLetter(r) ==
  /\ row[r] = "available"
  /\ row' = [row EXCEPT ![r] = "consumed"]
  /\ log' = [log EXCEPT ![r] = Append(@, "dead_lettered")]
  /\ outcome' = [outcome EXCEPT ![r] = "dead_lettered"]
  /\ UNCHANGED held

(* Rows are consumed by others, who may leave the mark of a repeat. *)
Consume(r) ==
  /\ row[r] # "absent"
  /\ row' = [row EXCEPT ![r] = "consumed"]
  /\ outcome' \in {outcome, [outcome EXCEPT ![r] = "repeat_observation"]}
  /\ UNCHANGED <<log, held>>

Next ==
  \/ \E rs \in SUBSET Rows, status \in {"available", "consumed"} : Arrive(rs, status)
  \/ \E c \in Callers, r \in Rows :
       \/ Begin(c, r)
       \/ \E status \in {"succeeded", "skipped", "failed"} : Finish(c, r, status)
  \/ \E c \in Callers, rs \in SUBSET Rows : Forget(c, rs)
  \/ \E r \in Rows : DeadLetter(r) \/ Consume(r)

Spec == Init /\ [][Next]_vars

-----------------------------------------------------------------------------
(* What a caller may rely on: the attempt it holds is running and its own. *)
OneHolder ==
  \A c \in Callers, r \in Rows : held[c][r] # 0 =>
    /\ held[c][r] \in 1..Len(log[r]) /\ log[r][held[c][r]] = "running"
    /\ \A d \in Callers \ {c} : held[d][r] # held[c][r]

(* What an operator may rely on: an outcome is on record in the log, unless *)
(* it is the mark of a repeat, and a dead-lettered row is out of the queue. *)
OutcomeIsLogged ==
  \A r \in Rows : outcome[r] \notin {"none", "repeat_observation"} =>
    /\ \E i \in 1..Len(log[r]) : log[r][i] = outcome[r]
    /\ outcome[r] = "dead_lettered" => row[r] = "consumed"

(* Closed attempts and consumed rows stay what they are. *)
RecordsStay ==
  [][\A r \in Rows :
       /\ row[r] = "consumed" => row'[r] = "consumed"
       /\ \A i \in 1..Len(log[r]) :
            /\ i \in 1..Len(log'[r])
            /\ log[r][i] # "running" => log'[r][i] = log[r][i]]_vars
=============================================================================
