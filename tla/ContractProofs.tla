---------------------------- MODULE ContractProofs ----------------------------
(***************************************************************************)
(* What the two abstract specifications guarantee by themselves, and so to *)
(* everybody who only knows that a component implements them: MessageLedger *)
(* of raw_messages, AttemptLog of extraction_attempt_log.                  *)
(***************************************************************************)
EXTENDS Naturals, Sequences, SequenceTheorems, TLAPS

CONSTANTS Rows, Slices, Resolutions, Callers
VARIABLES stored, consumed, evidence, row, outcome, log, held

L == INSTANCE MessageLedger
A == INSTANCE AttemptLog

-----------------------------------------------------------------------------
(* The ledger. A row has no evidence before it is stored, so what the import *)
(* of history leaves is the only evidence of the row.                      *)
LedgerInv ==
  /\ evidence \in [Rows -> SUBSET (Resolutions \cup {"history_sync"})]
  /\ consumed \subseteq Rows
  /\ \A r \in Rows : r \notin stored => evidence[r] = {}
  /\ L!Consistent

LEMMA LedgerStep ==
  ASSUME LedgerInv, [L!Next]_(L!vars)
  PROVE  /\ LedgerInv'
         /\ stored \subseteq stored' /\ consumed \subseteq consumed'
         /\ \A r \in Rows : evidence[r] \subseteq evidence'[r]
<1> USE DEF LedgerInv, L!Consistent
<1>1. CASE UNCHANGED L!vars
  BY <1>1 DEF L!vars
<1>2. ASSUME NEW r \in Rows, L!Store(r)
      PROVE  /\ LedgerInv'
             /\ stored \subseteq stored' /\ consumed \subseteq consumed'
             /\ \A q \in Rows : evidence[q] \subseteq evidence'[q]
  BY <1>2 DEF L!Store
<1>3. ASSUME NEW r \in Rows, L!Import(r)
      PROVE  /\ LedgerInv'
             /\ stored \subseteq stored' /\ consumed \subseteq consumed'
             /\ \A q \in Rows : evidence[q] \subseteq evidence'[q]
  <2>1. /\ r \notin stored /\ stored' = stored \cup {r} /\ consumed' = consumed \cup {r}
        /\ evidence' = [evidence EXCEPT ![r] = @ \cup {"history_sync"}]
    BY <1>3 DEF L!Import
  <2>2. evidence'[r] = {"history_sync"} /\ \A q \in Rows \ {r} : evidence'[q] = evidence[q]
    BY <2>1
  <2>3. evidence' \in [Rows -> SUBSET (Resolutions \cup {"history_sync"})]
    BY <2>1
  <2>4. "children" # "history_sync"
    OBVIOUS
  <2> QED
    BY <2>1, <2>2, <2>3, <2>4
<1>4. ASSUME NEW r \in Rows, L!Settle(r)
      PROVE  /\ LedgerInv'
             /\ stored \subseteq stored' /\ consumed \subseteq consumed'
             /\ \A q \in Rows : evidence[q] \subseteq evidence'[q]
  <2>1. PICK how \in SUBSET (Resolutions \ {"history_sync"}) :
          evidence' = [evidence EXCEPT ![r] = @ \cup how]
    BY <1>4 DEF L!Settle
  <2>2. /\ r \in stored /\ stored \subseteq stored'
        /\ "history_sync" \notin evidence[r]
        /\ "children" \in evidence'[r] => Slices[r] \subseteq stored'
        /\ \/ consumed' = consumed
           \/ consumed' = consumed \cup {r} /\ evidence'[r] # {}
    BY <1>4 DEF L!Settle
  <2>3. /\ evidence'[r] = evidence[r] \cup how
        /\ \A q \in Rows \ {r} : evidence'[q] = evidence[q]
    BY <2>1
  <2>4. evidence' \in [Rows -> SUBSET (Resolutions \cup {"history_sync"})]
    BY <2>1
  <2>5. consumed \subseteq consumed' /\ consumed' \subseteq stored'
    BY <2>2
  <2>6. \A q \in consumed' : evidence'[q] # {}
    <3>1. ASSUME NEW q \in consumed', q # r PROVE evidence'[q] # {}
      BY <2>2, <2>3, <3>1
    <3>2. r \in consumed' => evidence'[r] # {}
      BY <2>2, <2>3
    <3> QED
      BY <3>1, <3>2
  <2>7. \A q \in Rows : "history_sync" \in evidence'[q] =>
          q \in consumed' /\ evidence'[q] = {"history_sync"}
    BY <2>2, <2>3, <2>5
  <2> QED
    BY <2>2, <2>3, <2>4, <2>5, <2>6, <2>7
<1> QED
  BY <1>1, <1>2, <1>3, <1>4 DEF L!Next

(* Only stored rows are consumed, each for a reason; a split is complete;   *)
(* history is nothing but evidence; and none of it is ever taken back.     *)
THEOREM LedgerPromise == L!Spec => []L!Consistent /\ L!NothingIsLost
<1> DEFINE Keeps == /\ stored \subseteq stored' /\ consumed \subseteq consumed'
                    /\ \A r \in Rows : evidence[r] \subseteq evidence'[r]
<1>1. L!Init => LedgerInv
  BY DEF L!Init, LedgerInv, L!Consistent
<1>2. LedgerInv /\ [L!Next]_(L!vars) => LedgerInv' /\ [Keeps]_(L!vars)
  BY LedgerStep
<1>3. LedgerInv => L!Consistent
  BY DEF LedgerInv
<1> QED
  BY <1>1, <1>2, <1>3, PTL DEF L!Spec, L!NothingIsLost

-----------------------------------------------------------------------------
(* The attempt log. *)
Statuses == {"running", "succeeded", "skipped", "failed", "dead_lettered"}

LogTypes ==
  /\ row \in [Rows -> {"absent", "available", "consumed"}]
  /\ outcome \in [Rows -> Statuses \cup {"none", "repeat_observation"}]
  /\ log \in [Rows -> Seq(Statuses)]
  /\ held \in [Callers -> [Rows -> Nat]]

LogInv == LogTypes /\ A!OneHolder /\ A!OutcomeIsLogged

Kept(r) ==
  /\ row[r] = "consumed" => row'[r] = "consumed"
  /\ \A i \in 1..Len(log[r]) :
       /\ i \in 1..Len(log'[r])
       /\ log[r][i] # "running" => log'[r][i] = log[r][i]

Keeping == \A r \in Rows : Kept(r)

(* Rows arrive and are consumed: the log and its holders stay. *)
LEMMA RowStep ==
  ASSUME LogInv, UNCHANGED <<log, held>>,
         row' \in [Rows -> {"absent", "available", "consumed"}],
         \A r \in Rows : row[r] = "consumed" => row'[r] = "consumed",
         outcome' \in [Rows -> Statuses \cup {"none", "repeat_observation"}],
         \A r \in Rows : outcome'[r] \in {outcome[r], "repeat_observation"}
  PROVE  LogInv' /\ Keeping
<1>1. LogTypes'
  BY DEF LogInv, LogTypes
<1>2. A!OneHolder'
  BY DEF LogInv, A!OneHolder
<1>3. ASSUME NEW r \in Rows, outcome'[r] \notin {"none", "repeat_observation"}
      PROVE  /\ \E i \in 1..Len(log'[r]) : log'[r][i] = outcome'[r]
             /\ outcome'[r] = "dead_lettered" => row'[r] = "consumed"
  <2>1. outcome'[r] = outcome[r]
    BY <1>3
  <2> QED
    BY <1>3, <2>1 DEF LogInv, A!OutcomeIsLogged
<1>4. A!OutcomeIsLogged'
  BY <1>3 DEF A!OutcomeIsLogged
<1>5. Keeping
  BY DEF Keeping, Kept
<1> QED
  BY <1>1, <1>2, <1>4, <1>5 DEF LogInv

LEMMA BeginStep ==
  ASSUME LogInv, NEW c \in Callers, NEW r \in Rows, A!Begin(c, r)
  PROVE  LogInv' /\ Keeping
<1> USE DEF LogInv, LogTypes
<1> DEFINE n == Len(log[r])
<1>1. n \in Nat /\ log[r] \in Seq(Statuses)
  OBVIOUS
<1>2. /\ UNCHANGED row /\ row[r] = "available"
      /\ log' = [log EXCEPT ![r] = Append(log[r], "running")]
      /\ held' = [held EXCEPT ![c][r] = n + 1]
      /\ outcome' = [outcome EXCEPT ![r] = "running"]
  BY DEF A!Begin
<1>3. /\ log'[r] \in Seq(Statuses) /\ Len(log'[r]) = n + 1
      /\ log'[r][n + 1] = "running"
      /\ \A i \in 1..n : log'[r][i] = log[r][i]
  BY <1>1, <1>2 DEF Statuses
<1>4. \A q \in Rows \ {r} : log'[q] = log[q] /\ outcome'[q] = outcome[q]
  BY <1>2
<1>5. LogTypes'
  BY <1>1, <1>2, <1>3 DEF Statuses
<1>6. held'[c][r] = n + 1
      /\ \A d \in Callers, q \in Rows : d # c \/ q # r => held'[d][q] = held[d][q]
  BY <1>2
<1> HIDE DEF n
<1>7. A!OneHolder'
  <2>1. ASSUME NEW d \in Callers, NEW q \in Rows, d # c \/ q # r, held[d][q] # 0
        PROVE  /\ held[d][q] \in 1..Len(log'[q]) /\ log'[q][held[d][q]] = "running"
               /\ q = r => held[d][q] \in 1..n
    <3>1. held[d][q] \in 1..Len(log[q]) /\ log[q][held[d][q]] = "running"
      BY <2>1 DEF A!OneHolder
    <3>2. CASE q = r
      BY <1>1, <1>3, <3>1, <3>2 DEF n
    <3>3. CASE q # r
      BY <1>4, <3>1, <3>3
    <3> QED
      BY <3>2, <3>3
  <2>2. ASSUME NEW d \in Callers, NEW q \in Rows, held'[d][q] # 0
        PROVE  held'[d][q] \in 1..Len(log'[q]) /\ log'[q][held'[d][q]] = "running"
    <3>1. CASE d = c /\ q = r
      BY <1>1, <1>3, <1>6, <3>1 DEF n
    <3>2. CASE d # c \/ q # r
      BY <1>6, <2>1, <2>2, <3>2
    <3> QED
      BY <3>1, <3>2
  <2>3. ASSUME NEW d \in Callers, NEW e \in Callers \ {d}, NEW q \in Rows, held'[d][q] # 0
        PROVE  held'[e][q] # held'[d][q]
    <3>1. CASE q # r
      BY <1>6, <2>3, <3>1 DEF A!OneHolder
    <3>2. CASE q = r /\ d = c
      BY <1>1, <1>6, <2>1, <3>2 DEF n
    <3>3. CASE q = r /\ e = c
      BY <1>1, <1>6, <2>1, <2>3, <3>3 DEF n
    <3>4. CASE q = r /\ d # c /\ e # c
      BY <1>6, <2>3, <3>4 DEF A!OneHolder
    <3> QED
      BY <3>1, <3>2, <3>3, <3>4
  <2> QED
    BY <2>2, <2>3 DEF A!OneHolder
<1>8. A!OutcomeIsLogged'
  <2>1. outcome'[r] = "running" /\ n + 1 \in 1..Len(log'[r])
    BY <1>1, <1>2, <1>3
  <2>2. ASSUME NEW q \in Rows, outcome'[q] \notin {"none", "repeat_observation"}
        PROVE  /\ \E i \in 1..Len(log'[q]) : log'[q][i] = outcome'[q]
               /\ outcome'[q] = "dead_lettered" => row'[q] = "consumed"
    BY <1>2, <1>3, <1>4, <2>1, <2>2 DEF A!OutcomeIsLogged
  <2> QED
    BY <2>2 DEF A!OutcomeIsLogged
<1>9. Keeping
  BY <1>1, <1>2, <1>3, <1>4 DEF Keeping, Kept, n
<1> QED
  BY <1>5, <1>7, <1>8, <1>9

LEMMA FinishStep ==
  ASSUME LogInv, NEW c \in Callers, NEW r \in Rows,
         NEW status \in {"succeeded", "skipped", "failed"}, A!Finish(c, r, status)
  PROVE  LogInv' /\ Keeping
<1> USE DEF LogInv, LogTypes
<1> DEFINE k == held[c][r]
<1>1. /\ UNCHANGED row /\ k \in 1..Len(log[r]) /\ log[r][k] = "running"
      /\ log' = [log EXCEPT ![r][k] = status]
      /\ held' = [held EXCEPT ![c][r] = 0]
      /\ outcome' = [outcome EXCEPT ![r] = status]
  BY DEF A!Finish
<1>2. log[r] \in Seq(Statuses) /\ status \in Statuses
  BY DEF Statuses
<1>3. /\ log'[r] \in Seq(Statuses) /\ Len(log'[r]) = Len(log[r]) /\ log'[r][k] = status
      /\ \A i \in 1..Len(log[r]) : i # k => log'[r][i] = log[r][i]
  BY <1>1, <1>2
<1>4. \A q \in Rows \ {r} : log'[q] = log[q] /\ outcome'[q] = outcome[q]
  BY <1>1
<1>5. LogTypes'
  BY <1>1, <1>2, <1>3
<1>6. held'[c][r] = 0
      /\ \A d \in Callers, q \in Rows : d # c \/ q # r => held'[d][q] = held[d][q]
  BY <1>1
<1>7. A!OneHolder'
  <2>1. \A d \in Callers \ {c} : held[d][r] # 0 => held[d][r] # k
    BY <1>1 DEF A!OneHolder
  <2>2. ASSUME NEW d \in Callers, NEW q \in Rows, held'[d][q] # 0
        PROVE  /\ held'[d][q] = held[d][q]
               /\ held'[d][q] \in 1..Len(log'[q]) /\ log'[q][held'[d][q]] = "running"
    <3>1. (d # c \/ q # r) /\ held'[d][q] = held[d][q]
      BY <1>6, <2>2
    <3>2. held[d][q] \in 1..Len(log[q]) /\ log[q][held[d][q]] = "running"
      BY <2>2, <3>1 DEF A!OneHolder
    <3>3. CASE q = r
      BY <1>3, <2>1, <2>2, <3>1, <3>2, <3>3
    <3>4. CASE q # r
      BY <1>4, <3>1, <3>2, <3>4
    <3> QED
      BY <3>1, <3>3, <3>4
  <2>3. ASSUME NEW d \in Callers, NEW e \in Callers \ {d}, NEW q \in Rows, held'[d][q] # 0
        PROVE  held'[e][q] # held'[d][q]
    BY <2>2, <2>3 DEF A!OneHolder
  <2> QED
    BY <2>2, <2>3 DEF A!OneHolder
<1>8. A!OutcomeIsLogged'
  <2>1. outcome'[r] = status /\ k \in 1..Len(log'[r])
    BY <1>1, <1>3
  <2>2. ASSUME NEW q \in Rows, outcome'[q] \notin {"none", "repeat_observation"}
        PROVE  /\ \E i \in 1..Len(log'[q]) : log'[q][i] = outcome'[q]
               /\ outcome'[q] = "dead_lettered" => row'[q] = "consumed"
    BY <1>1, <1>3, <1>4, <2>1, <2>2 DEF A!OutcomeIsLogged
  <2> QED
    BY <2>2 DEF A!OutcomeIsLogged
<1>9. Keeping
  BY <1>1, <1>3, <1>4 DEF Keeping, Kept
<1> QED
  BY <1>5, <1>7, <1>8, <1>9

LEMMA DeadLetterStep ==
  ASSUME LogInv, NEW r \in Rows, A!DeadLetter(r)
  PROVE  LogInv' /\ Keeping
<1> USE DEF LogInv, LogTypes
<1> DEFINE n == Len(log[r])
<1>1. /\ UNCHANGED held /\ row' = [row EXCEPT ![r] = "consumed"]
      /\ log' = [log EXCEPT ![r] = Append(log[r], "dead_lettered")]
      /\ outcome' = [outcome EXCEPT ![r] = "dead_lettered"]
  BY DEF A!DeadLetter
<1>2. n \in Nat /\ log[r] \in Seq(Statuses)
  OBVIOUS
<1>3. /\ log'[r] \in Seq(Statuses) /\ Len(log'[r]) = n + 1
      /\ log'[r][n + 1] = "dead_lettered"
      /\ \A i \in 1..n : log'[r][i] = log[r][i]
  BY <1>1, <1>2 DEF Statuses
<1>4. \A q \in Rows \ {r} :
        log'[q] = log[q] /\ outcome'[q] = outcome[q] /\ row'[q] = row[q]
  BY <1>1
<1>5. LogTypes'
  BY <1>1, <1>2, <1>3 DEF Statuses
<1>6. A!OneHolder'
  BY <1>1, <1>2, <1>3, <1>4 DEF A!OneHolder
<1>7. A!OutcomeIsLogged'
  <2>1. row'[r] = "consumed" /\ outcome'[r] = "dead_lettered" /\ n + 1 \in 1..Len(log'[r])
    BY <1>1, <1>2, <1>3
  <2>2. ASSUME NEW q \in Rows, outcome'[q] \notin {"none", "repeat_observation"}
        PROVE  /\ \E i \in 1..Len(log'[q]) : log'[q][i] = outcome'[q]
               /\ outcome'[q] = "dead_lettered" => row'[q] = "consumed"
    <3>1. CASE q = r
      BY <1>3, <2>1, <3>1
    <3>2. CASE q # r
      BY <1>4, <2>2, <3>2 DEF A!OutcomeIsLogged
    <3> QED
      BY <3>1, <3>2
  <2> QED
    BY <2>2 DEF A!OutcomeIsLogged
<1>8. Keeping
  BY <1>1, <1>2, <1>3, <1>4 DEF Keeping, Kept
<1> QED
  BY <1>5, <1>6, <1>7, <1>8

LEMMA AttemptStep == ASSUME LogInv, [A!Next]_(A!vars) PROVE LogInv' /\ Keeping
<1>1. CASE UNCHANGED A!vars
  BY <1>1 DEF A!vars, LogInv, LogTypes, A!OneHolder, A!OutcomeIsLogged, Keeping, Kept
<1>2. ASSUME NEW rs \in SUBSET Rows, NEW status \in {"available", "consumed"},
             A!Arrive(rs, status)
      PROVE  LogInv' /\ Keeping
  <2>1. row' \in [Rows -> {"absent", "available", "consumed"}]
    BY <1>2 DEF A!Arrive, LogInv, LogTypes
  <2>2. \A r \in Rows : row[r] = "consumed" => row'[r] = "consumed"
    BY <1>2 DEF A!Arrive
  <2> QED
    BY <1>2, <2>1, <2>2, RowStep DEF A!Arrive, LogInv, LogTypes
<1>3. ASSUME NEW r \in Rows, A!Consume(r)
      PROVE  LogInv' /\ Keeping
  <2>1. row' \in [Rows -> {"absent", "available", "consumed"}]
        /\ \A q \in Rows : row[q] = "consumed" => row'[q] = "consumed"
    BY <1>3 DEF A!Consume, LogInv, LogTypes
  <2>2. outcome' \in [Rows -> Statuses \cup {"none", "repeat_observation"}]
        /\ \A q \in Rows : outcome'[q] \in {outcome[q], "repeat_observation"}
    BY <1>3 DEF A!Consume, LogInv, LogTypes
  <2> QED
    BY <1>3, <2>1, <2>2, RowStep DEF A!Consume
<1>4. ASSUME NEW c \in Callers, NEW rs \in SUBSET Rows, A!Forget(c, rs)
      PROVE  LogInv' /\ Keeping
  <2>1. \A d \in Callers, r \in Rows : held'[d][r] \in {held[d][r], 0}
    BY <1>4 DEF A!Forget, LogInv, LogTypes
  <2>2. held' \in [Callers -> [Rows -> Nat]]
    BY <1>4 DEF A!Forget, LogInv, LogTypes
  <2> QED
    BY <1>4, <2>1, <2>2 DEF A!Forget, LogInv, LogTypes, A!OneHolder, A!OutcomeIsLogged,
       Keeping, Kept
<1> QED
  BY <1>1, <1>2, <1>3, <1>4, BeginStep, FinishStep, DeadLetterStep DEF A!Next

(* Held attempts are running and have one holder, an outcome is on record,  *)
(* and neither a closed attempt nor a consumed row changes again.          *)
THEOREM AttemptPromise ==
  A!Spec => []A!OneHolder /\ []A!OutcomeIsLogged /\ A!RecordsStay
<1>1. A!Init => LogInv
  BY DEF A!Init, LogInv, LogTypes, A!OneHolder, A!OutcomeIsLogged, Statuses
<1>2. LogInv /\ [A!Next]_(A!vars) => LogInv' /\ [Keeping]_(A!vars)
  BY AttemptStep
<1>3. LogInv => A!OneHolder /\ A!OutcomeIsLogged
  BY DEF LogInv
<1> QED
  BY <1>1, <1>2, <1>3, PTL DEF A!Spec, A!RecordsStay, Keeping, Kept
=============================================================================
