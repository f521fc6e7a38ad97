------------------------ MODULE BrokerSessionProofs ------------------------
(***************************************************************************)
(* Proofs about BrokerSession, for every number of processes, requests and *)
(* sessions and every bound. Next to the types the inductive invariant     *)
(* says what a reference to a session is worth: a request and the map of a *)
(* process name sessions of that process which exist, and the one session  *)
(* that is being started holds the lock and is known to one request only.  *)
(***************************************************************************)
EXTENDS BrokerSession, TLAPS

(* Requests that have a lock and no installed session yet. *)
Starting(h) == req[h].pc \in {"look", "install"}

ThreadOK(h) ==
  /\ req[h].pc \notin {"idle", "drop", "get", "lock", "cold", "erase", "forget"} =>
       req[h].session # 0
  /\ h \in Procs => req[h].proc = h
  /\ req[h].pc # "idle" => boot[req[h].proc] = "up"
  /\ req[h].session # 0 => proc[req[h].session] = req[h].proc
  /\ Starting(h) => run[req[h].session] = "starting" /\ lock = req[h].session
  /\ req[h].session # 0 /\ ~Starting(h) => run[req[h].session] \notin {"none", "starting"}
MapOK(p) ==
  sessions[p] # 0 => proc[sessions[p]] = p /\ run[sessions[p]] \notin {"none", "starting"}
OneStarter == \A g, h \in Threads : Starting(g) /\ Starting(h) => g = h
RefInv == (\A h \in Threads : ThreadOK(h)) /\ (\A p \in Procs : MapOK(p)) /\ OneStarter

SessionInv == TypeOK /\ RefInv /\ LockNeverLeaks /\ InstalledHoldsLock /\ ResetStaysOffline

-----------------------------------------------------------------------------
(* The process an idle handler is written down with is one. *)
LEMMA SomeProcType == SomeProc \in Procs
BY SessionAssumption DEF SomeProc

(* A thread at rest is one, and names no session. *)
LEMMA RestType ==
  ASSUME NEW h \in Threads
  PROVE  /\ Rest(h) \in Requests
         /\ Rest(h).pc = "idle" /\ Rest(h).session = 0 /\ Rest(h).proc \in Procs
BY SomeProcType DEF Rest, Requests, Calls, Threads

(* A restore goroutine stays with its process. *)
LEMMA RestProc == ASSUME NEW h \in Procs PROVE Rest(h).proc = h
BY DEF Rest

(* A request past the map lookup names a session. *)
LEMMA Named ==
  ASSUME NEW h \in Threads, TypeOK, RefInv
  PROVE  /\ req[h].session \in Sessions \union {0} /\ req[h].proc \in Procs
         /\ req[h].pc \in Calls /\ req[h].dev \in Devices \union {0}
         /\ req[h].pc \notin {"idle", "drop", "get", "lock", "cold", "erase", "forget"} =>
              req[h].session \in Sessions
BY DEF TypeOK, RefInv, ThreadOK, Requests

(* Each step keeps the types. *)
LEMMA TypeStep ==
  ASSUME TypeOK, RefInv, [Next]_vars
  PROVE  TypeOK'
<1>1. CASE UNCHANGED vars
  BY <1>1 DEF vars, dbVars, procVars, objVars, runVars, countVars, KeepSessions,
     KeepOthers, TypeOK, DbTypeOK, ProcTypeOK, ObjTypeOK, RunTypeOK, CountTypeOK
<1>2. ASSUME NEW p \in Procs, Start(p)
      PROVE  TypeOK'
  <2>1. DbTypeOK'
    BY <1>2, SessionAssumption DEF Start, dbVars, objVars, runVars, KeepSessions, TypeOK,
       DbTypeOK, ProcTypeOK, ObjTypeOK, RunTypeOK, CountTypeOK, Events, Sessions, Devices
  <2>2. ProcTypeOK'
    BY <1>2 DEF Start, dbVars, objVars, runVars, KeepSessions, TypeOK, ProcTypeOK, Boots,
       DbTypeOK, Devices
  <2>3. ObjTypeOK'
    BY <1>2 DEF Start, dbVars, objVars, runVars, KeepSessions, TypeOK, ObjTypeOK,
       DbTypeOK, ProcTypeOK, RunTypeOK, States, Devices, CountTypeOK
  <2>4. RunTypeOK'
    BY <1>2 DEF Start, dbVars, objVars, runVars, KeepSessions, TypeOK, RunTypeOK, Runs,
       Live, Running, Waiting, States, Events, NoEvent, ObjTypeOK, ProcTypeOK,
       CountTypeOK, Devices
  <2>5. CountTypeOK'
    BY <1>2, SessionAssumption DEF Start, dbVars, objVars, runVars, KeepSessions, TypeOK,
       CountTypeOK, Devices
  <2>6. (req \in [Threads -> Requests])'
    BY <1>2 DEF Start, dbVars, objVars, runVars, KeepSessions, TypeOK, DbTypeOK,
       ProcTypeOK, Sessions, Devices, Threads, Calls, Requests
  <2> QED
    BY <2>1, <2>2, <2>3, <2>4, <2>5, <2>6 DEF TypeOK
<1>3. ASSUME NEW p \in Procs, BootRead(p)
      PROVE  TypeOK'
  <2>1. DbTypeOK'
    BY <1>3, SessionAssumption DEF BootRead, Mapped, dbVars, objVars, runVars, countVars,
       KeepSessions, TypeOK, DbTypeOK, ProcTypeOK, ObjTypeOK, RunTypeOK, CountTypeOK,
       Events, Sessions, Devices
  <2>2. ProcTypeOK'
    BY <1>3 DEF BootRead, Mapped, dbVars, objVars, runVars, countVars, KeepSessions,
       TypeOK, ProcTypeOK, Boots, DbTypeOK, Devices
  <2>3. ObjTypeOK'
    BY <1>3 DEF BootRead, Mapped, dbVars, objVars, runVars, countVars, KeepSessions,
       TypeOK, ObjTypeOK, DbTypeOK, ProcTypeOK, RunTypeOK, States, Devices, CountTypeOK
  <2>4. RunTypeOK'
    BY <1>3 DEF BootRead, Mapped, dbVars, objVars, runVars, countVars, KeepSessions,
       TypeOK, RunTypeOK, Runs, Live, Running, Waiting, States, Events, NoEvent,
       ObjTypeOK, ProcTypeOK, CountTypeOK, Devices
  <2>5. CountTypeOK'
    BY <1>3, SessionAssumption DEF BootRead, Mapped, dbVars, objVars, runVars, countVars,
       KeepSessions, TypeOK, CountTypeOK, Devices
  <2>6. (req \in [Threads -> Requests])'
    BY <1>3 DEF BootRead, Mapped, dbVars, objVars, runVars, countVars, KeepSessions,
       TypeOK, DbTypeOK, ProcTypeOK, Sessions, Devices, Threads, Calls, Requests
  <2> QED
    BY <2>1, <2>2, <2>3, <2>4, <2>5, <2>6 DEF TypeOK
<1>4. ASSUME NEW p \in Procs, BootUnmap(p)
      PROVE  TypeOK'
  <2>1. DbTypeOK'
    BY <1>4, SessionAssumption DEF BootUnmap, objVars, runVars, countVars, KeepSessions,
       TypeOK, DbTypeOK, ProcTypeOK, ObjTypeOK, RunTypeOK, CountTypeOK, Events, Sessions,
       Devices
  <2>2. ProcTypeOK'
    BY <1>4 DEF BootUnmap, objVars, runVars, countVars, KeepSessions, TypeOK, ProcTypeOK,
       Boots, DbTypeOK, Devices
  <2>3. ObjTypeOK'
    BY <1>4 DEF BootUnmap, objVars, runVars, countVars, KeepSessions, TypeOK, ObjTypeOK,
       DbTypeOK, ProcTypeOK, RunTypeOK, States, Devices, CountTypeOK
  <2>4. RunTypeOK'
    BY <1>4 DEF BootUnmap, objVars, runVars, countVars, KeepSessions, TypeOK, RunTypeOK,
       Runs, Live, Running, Waiting, States, Events, NoEvent, ObjTypeOK, ProcTypeOK,
       CountTypeOK, Devices
  <2>5. CountTypeOK'
    BY <1>4, SessionAssumption DEF BootUnmap, objVars, runVars, countVars, KeepSessions,
       TypeOK, CountTypeOK, Devices
  <2>6. (req \in [Threads -> Requests])'
    BY <1>4 DEF BootUnmap, objVars, runVars, countVars, KeepSessions, TypeOK, DbTypeOK,
       ProcTypeOK, Sessions, Devices, Threads, Calls, Requests
  <2> QED
    BY <2>1, <2>2, <2>3, <2>4, <2>5, <2>6 DEF TypeOK
<1>5. ASSUME NEW p \in Procs, BootLock(p)
      PROVE  TypeOK'
  <2>1. found[p] \in Devices \union {0}
    BY DEF TypeOK, ProcTypeOK
  <2>2. ASSUME NEW s \in Sessions, Create(s, p, found[p], "loop")
        PROVE  DbTypeOK' /\ ObjTypeOK' /\ RunTypeOK'
    <3>1. DbTypeOK'
      BY <2>2 DEF Create, TypeOK, DbTypeOK
    <3>2. ObjTypeOK'
      BY <2>1, <2>2 DEF Create, TypeOK, ObjTypeOK, States
    <3>3. RunTypeOK'
      BY <2>2 DEF Create, Goto, TypeOK, RunTypeOK, Runs, Live, Running
    <3> QED
      BY <3>1, <3>2, <3>3
  <2>3. DbTypeOK' /\ ObjTypeOK' /\ RunTypeOK'
    BY <1>5, <2>2 DEF BootLock, TypeOK, DbTypeOK, ObjTypeOK, RunTypeOK, dbVars,
       KeepSessions, objVars, runVars
  <2>4. ProcTypeOK'
    <3>1. /\ boot' \in [Procs -> Boots] /\ found' \in [Procs -> Devices \union {0}]
          /\ restoring' \subseteq Procs
      BY <1>5 DEF BootLock, TypeOK, ProcTypeOK, Boots
    <3>2. sessions' = sessions \/ \E s \in Sessions : sessions' = [sessions EXCEPT ![p] = s]
      BY <1>5 DEF BootLock
    <3> QED
      BY <3>1, <3>2 DEF TypeOK, ProcTypeOK
  <2>5. CountTypeOK'
    BY <1>5 DEF BootLock, countVars, TypeOK, CountTypeOK
  <2>6. (req \in [Threads -> Requests])'
    BY <1>5 DEF BootLock, TypeOK
  <2> QED
    BY <2>3, <2>4, <2>5, <2>6 DEF TypeOK
<1>6. ASSUME NEW p \in Procs, Restore(p)
      PROVE  TypeOK'
  <2>1. DbTypeOK'
    BY <1>6, SessionAssumption DEF Restore, dbVars, objVars, runVars, countVars,
       KeepSessions, TypeOK, DbTypeOK, ProcTypeOK, ObjTypeOK, RunTypeOK, CountTypeOK,
       Events, Sessions, Devices
  <2>2. ProcTypeOK'
    BY <1>6 DEF Restore, dbVars, objVars, runVars, countVars, KeepSessions, TypeOK,
       ProcTypeOK, Boots, DbTypeOK, Devices
  <2>3. ObjTypeOK'
    BY <1>6 DEF Restore, dbVars, objVars, runVars, countVars, KeepSessions, TypeOK,
       ObjTypeOK, DbTypeOK, ProcTypeOK, RunTypeOK, States, Devices, CountTypeOK
  <2>4. RunTypeOK'
    BY <1>6 DEF Restore, dbVars, objVars, runVars, countVars, KeepSessions, TypeOK,
       RunTypeOK, Runs, Live, Running, Waiting, States, Events, NoEvent, ObjTypeOK,
       ProcTypeOK, CountTypeOK, Devices
  <2>5. CountTypeOK'
    BY <1>6, SessionAssumption DEF Restore, dbVars, objVars, runVars, countVars,
       KeepSessions, TypeOK, CountTypeOK, Devices
  <2>6. (req \in [Threads -> Requests])'
    BY <1>6 DEF Restore, dbVars, objVars, runVars, countVars, KeepSessions, TypeOK,
       DbTypeOK, ProcTypeOK, Sessions, Devices, Threads, Calls, Requests
  <2> QED
    BY <2>1, <2>2, <2>3, <2>4, <2>5, <2>6 DEF TypeOK
<1>7. ASSUME NEW p \in Procs, Shutdown(p)
      PROVE  TypeOK'
  <2>1. DbTypeOK'
    BY <1>7, SessionAssumption DEF Shutdown, dbVars, procVars, runVars, countVars, TypeOK,
       DbTypeOK, ProcTypeOK, ObjTypeOK, RunTypeOK, CountTypeOK, Events, Sessions, Devices
  <2>2. ProcTypeOK'
    BY <1>7 DEF Shutdown, dbVars, procVars, runVars, countVars, TypeOK, ProcTypeOK, Boots,
       DbTypeOK, Devices
  <2>3. ObjTypeOK'
    BY <1>7 DEF Shutdown, dbVars, procVars, runVars, countVars, TypeOK, ObjTypeOK,
       DbTypeOK, ProcTypeOK, RunTypeOK, States, Devices, CountTypeOK
  <2>4. RunTypeOK'
    BY <1>7 DEF Shutdown, dbVars, procVars, runVars, countVars, TypeOK, RunTypeOK, Runs,
       Live, Running, Waiting, States, Events, NoEvent, ObjTypeOK, ProcTypeOK,
       CountTypeOK, Devices
  <2>5. CountTypeOK'
    BY <1>7, SessionAssumption DEF Shutdown, dbVars, procVars, runVars, countVars, TypeOK,
       CountTypeOK, Devices
  <2>6. (req \in [Threads -> Requests])'
    BY <1>7 DEF Shutdown, dbVars, procVars, runVars, countVars, TypeOK, DbTypeOK,
       ProcTypeOK, Sessions, Devices, Threads, Calls, Requests
  <2> QED
    BY <2>1, <2>2, <2>3, <2>4, <2>5, <2>6 DEF TypeOK
<1>8. ASSUME NEW p \in Procs, Exit(p)
      PROVE  TypeOK'
  <2>1. DbTypeOK'
    BY <1>8, SessionAssumption DEF Exit, countVars, TypeOK, DbTypeOK, ProcTypeOK,
       ObjTypeOK, RunTypeOK, CountTypeOK, Events, Sessions, Devices
  <2>2. ProcTypeOK'
    BY <1>8 DEF Exit, countVars, TypeOK, ProcTypeOK, Boots, DbTypeOK, Devices
  <2>3. ObjTypeOK'
    BY <1>8, SomeProcType DEF Exit, countVars, TypeOK, ObjTypeOK, DbTypeOK, ProcTypeOK,
       RunTypeOK, States, Devices, CountTypeOK
  <2>4. RunTypeOK'
    BY <1>8 DEF Exit, countVars, TypeOK, RunTypeOK, Runs, Live, Running, Waiting, States,
       Events, NoEvent, ObjTypeOK, ProcTypeOK, CountTypeOK, Devices
  <2>5. CountTypeOK'
    BY <1>8, SessionAssumption DEF Exit, countVars, TypeOK, CountTypeOK, Devices
  <2>6. (req \in [Threads -> Requests])'
    BY <1>8, RestType DEF Exit, countVars, TypeOK, DbTypeOK, ProcTypeOK, Sessions,
       Devices, Threads, Calls, Requests
  <2> QED
    BY <2>1, <2>2, <2>3, <2>4, <2>5, <2>6 DEF TypeOK
<1>9. ASSUME NEW h \in Handlers, NEW p \in Procs, NEW o \in Operations, Begin(h, p, o)
      PROVE  TypeOK'
  <2>1. DbTypeOK'
    BY <1>9, SessionAssumption DEF Begin, First, dbVars, procVars, objVars, runVars,
       KeepSessions, TypeOK, DbTypeOK, ProcTypeOK, ObjTypeOK, RunTypeOK, CountTypeOK,
       Events, Sessions, Devices
  <2>2. ProcTypeOK'
    BY <1>9 DEF Begin, First, dbVars, procVars, objVars, runVars, KeepSessions, TypeOK,
       ProcTypeOK, Boots, DbTypeOK, Devices
  <2>3. ObjTypeOK'
    BY <1>9 DEF Begin, First, dbVars, procVars, objVars, runVars, KeepSessions, TypeOK,
       ObjTypeOK, DbTypeOK, ProcTypeOK, RunTypeOK, States, Devices, CountTypeOK
  <2>4. RunTypeOK'
    BY <1>9 DEF Begin, First, dbVars, procVars, objVars, runVars, KeepSessions, TypeOK,
       RunTypeOK, Runs, Live, Running, Waiting, States, Events, NoEvent, ObjTypeOK,
       ProcTypeOK, CountTypeOK, Devices
  <2>5. CountTypeOK'
    BY <1>9, SessionAssumption DEF Begin, First, dbVars, procVars, objVars, runVars,
       KeepSessions, TypeOK, CountTypeOK, Devices
  <2>6. (req \in [Threads -> Requests])'
    BY <1>9 DEF Begin, First, dbVars, procVars, objVars, runVars, KeepSessions, TypeOK,
       DbTypeOK, ProcTypeOK, Sessions, Devices, Threads, Calls, Requests
  <2> QED
    BY <2>1, <2>2, <2>3, <2>4, <2>5, <2>6 DEF TypeOK
<1>10. ASSUME NEW h \in Threads, Drop(h)
      PROVE  TypeOK'
  <2>1. /\ req[h].session \in Sessions \union {0} /\ req[h].proc \in Procs /\ req[h].dev \in Devices \union {0}
    BY Named
  <2>2. DbTypeOK'
    BY <1>10, <2>1, SessionAssumption DEF Drop, Step, dbVars, procVars, objVars, runVars,
       countVars, KeepSessions, TypeOK, DbTypeOK, ProcTypeOK, ObjTypeOK, RunTypeOK,
       CountTypeOK, Events, Sessions, Devices
  <2>3. ProcTypeOK'
    BY <1>10, <2>1 DEF Drop, Step, dbVars, procVars, objVars, runVars, countVars,
       KeepSessions, TypeOK, ProcTypeOK, Boots, DbTypeOK, Devices
  <2>4. ObjTypeOK'
    BY <1>10, <2>1 DEF Drop, Step, dbVars, procVars, objVars, runVars, countVars,
       KeepSessions, TypeOK, ObjTypeOK, DbTypeOK, ProcTypeOK, RunTypeOK, States, Devices,
       CountTypeOK
  <2>5. RunTypeOK'
    BY <1>10, <2>1 DEF Drop, Step, dbVars, procVars, objVars, runVars, countVars,
       KeepSessions, TypeOK, RunTypeOK, Runs, Live, Running, Waiting, States, Events,
       NoEvent, ObjTypeOK, ProcTypeOK, CountTypeOK, Devices
  <2>6. CountTypeOK'
    BY <1>10, <2>1, SessionAssumption DEF Drop, Step, dbVars, procVars, objVars, runVars,
       countVars, KeepSessions, TypeOK, CountTypeOK, Devices
  <2>7. (req \in [Threads -> Requests])'
    BY <1>10, <2>1 DEF Drop, Step, dbVars, procVars, objVars, runVars, countVars,
       KeepSessions, TypeOK, DbTypeOK, ProcTypeOK, Sessions, Devices, Threads, Calls,
       Requests
  <2> QED
    BY <2>2, <2>3, <2>4, <2>5, <2>6, <2>7 DEF TypeOK
<1>11. ASSUME NEW h \in Threads, Discard(h)
      PROVE  TypeOK'
  <2>1. /\ req[h].session \in Sessions \union {0} /\ req[h].proc \in Procs /\ req[h].dev \in Devices \union {0}
        /\ req[h].session \in Sessions
    BY <1>11, Named DEF Discard
  <2>2. DbTypeOK'
    BY <1>11, <2>1, SessionAssumption DEF Discard, FreeLock, procVars, runVars, countVars,
       TypeOK, DbTypeOK, ProcTypeOK, ObjTypeOK, RunTypeOK, CountTypeOK, Events, Sessions,
       Devices
  <2>3. ProcTypeOK'
    BY <1>11, <2>1 DEF Discard, FreeLock, procVars, runVars, countVars, TypeOK,
       ProcTypeOK, Boots, DbTypeOK, Devices
  <2>4. ObjTypeOK'
    BY <1>11, <2>1 DEF Discard, FreeLock, procVars, runVars, countVars, TypeOK, ObjTypeOK,
       DbTypeOK, ProcTypeOK, RunTypeOK, States, Devices, CountTypeOK
  <2>5. RunTypeOK'
    BY <1>11, <2>1 DEF Discard, FreeLock, procVars, runVars, countVars, TypeOK, RunTypeOK,
       Runs, Live, Running, Waiting, States, Events, NoEvent, ObjTypeOK, ProcTypeOK,
       CountTypeOK, Devices
  <2>6. CountTypeOK'
    BY <1>11, <2>1, SessionAssumption DEF Discard, FreeLock, procVars, runVars, countVars,
       TypeOK, CountTypeOK, Devices
  <2>7. (req \in [Threads -> Requests])'
    BY <1>11, <2>1 DEF Discard, FreeLock, procVars, runVars, countVars, TypeOK, DbTypeOK,
       ProcTypeOK, Sessions, Devices, Threads, Calls, Requests
  <2> QED
    BY <2>2, <2>3, <2>4, <2>5, <2>6, <2>7 DEF TypeOK
<1>12. ASSUME NEW h \in Threads, Get(h)
      PROVE  TypeOK'
  <2>1. /\ req[h].session \in Sessions \union {0} /\ req[h].proc \in Procs /\ req[h].dev \in Devices \union {0}
    BY Named
  <2>2. DbTypeOK'
    BY <1>12, <2>1, SessionAssumption DEF Get, Step, Done, Configure, dbVars, runVars,
       countVars, TypeOK, DbTypeOK, ProcTypeOK, ObjTypeOK, RunTypeOK, CountTypeOK, Events,
       Sessions, Devices
  <2>3. ProcTypeOK'
    BY <1>12, <2>1 DEF Get, Step, Done, Configure, dbVars, runVars, countVars, TypeOK,
       ProcTypeOK, Boots, DbTypeOK, Devices
  <2>4. ObjTypeOK'
    BY <1>12, <2>1 DEF Get, Step, Done, Configure, dbVars, runVars, countVars, TypeOK,
       ObjTypeOK, DbTypeOK, ProcTypeOK, RunTypeOK, States, Devices, CountTypeOK
  <2>5. RunTypeOK'
    BY <1>12, <2>1 DEF Get, Step, Done, Configure, dbVars, runVars, countVars, TypeOK,
       RunTypeOK, Runs, Live, Running, Waiting, States, Events, NoEvent, ObjTypeOK,
       ProcTypeOK, CountTypeOK, Devices
  <2>6. CountTypeOK'
    BY <1>12, <2>1, SessionAssumption DEF Get, Step, Done, Configure, dbVars, runVars,
       countVars, TypeOK, CountTypeOK, Devices
  <2>7. (req \in [Threads -> Requests])'
    BY <1>12, <2>1, RestType DEF Get, Step, Done, Configure, dbVars, runVars, countVars,
       TypeOK, DbTypeOK, ProcTypeOK, Sessions, Devices, Threads, Calls, Requests
  <2> QED
    BY <2>2, <2>3, <2>4, <2>5, <2>6, <2>7 DEF TypeOK
<1>13. ASSUME NEW h \in Threads, Lock(h)
      PROVE  TypeOK'
  <2>1. req[h].proc \in Procs
    BY Named
  <2>2. ASSUME NEW s \in Sessions, Create(s, req[h].proc, 0, "starting")
        PROVE  DbTypeOK' /\ ObjTypeOK' /\ RunTypeOK'
    <3>1. DbTypeOK'
      BY <2>2 DEF Create, TypeOK, DbTypeOK
    <3>2. ObjTypeOK'
      BY <2>1, <2>2 DEF Create, TypeOK, ObjTypeOK, States
    <3>3. RunTypeOK'
      BY <2>2 DEF Create, Goto, TypeOK, RunTypeOK, Runs, Live, Running
    <3> QED
      BY <3>1, <3>2, <3>3
  <2>3. DbTypeOK' /\ ObjTypeOK' /\ RunTypeOK'
    BY <1>13, <2>2 DEF Lock, TypeOK, DbTypeOK, ObjTypeOK, RunTypeOK, dbVars, KeepSessions,
       objVars, runVars
  <2>4. ProcTypeOK'
    BY <1>13 DEF Lock, Done, TypeOK, ProcTypeOK
  <2>5. CountTypeOK'
    BY <1>13 DEF Lock, countVars, TypeOK, CountTypeOK
  <2>6. req' = [req EXCEPT ![h] = Rest(h)] \/ \E s \in Sessions : req' = [req EXCEPT ![h].pc = "look", ![h].session = s]
    BY <1>13 DEF Lock, Done
  <2>7. (req \in [Threads -> Requests])'
    BY <2>6, RestType DEF TypeOK, Requests, Calls
  <2> QED
    BY <2>3, <2>4, <2>5, <2>6, <2>7 DEF TypeOK
<1>14. ASSUME NEW h \in Threads, Look(h)
      PROVE  TypeOK'
  <2>1. /\ req[h].session \in Sessions \union {0} /\ req[h].proc \in Procs /\ req[h].dev \in Devices \union {0}
        /\ req[h].session \in Sessions
    BY <1>14, Named DEF Look
  <2>2. DbTypeOK'
    BY <1>14, <2>1, SessionAssumption DEF Look, Step, Mapped, dbVars, procVars, runVars,
       countVars, TypeOK, DbTypeOK, ProcTypeOK, ObjTypeOK, RunTypeOK, CountTypeOK, Events,
       Sessions, Devices
  <2>3. ProcTypeOK'
    BY <1>14, <2>1 DEF Look, Step, Mapped, dbVars, procVars, runVars, countVars, TypeOK,
       ProcTypeOK, Boots, DbTypeOK, Devices
  <2>4. ObjTypeOK'
    BY <1>14, <2>1 DEF Look, Step, Mapped, dbVars, procVars, runVars, countVars, TypeOK,
       ObjTypeOK, DbTypeOK, ProcTypeOK, RunTypeOK, States, Devices, CountTypeOK
  <2>5. RunTypeOK'
    BY <1>14, <2>1 DEF Look, Step, Mapped, dbVars, procVars, runVars, countVars, TypeOK,
       RunTypeOK, Runs, Live, Running, Waiting, States, Events, NoEvent, ObjTypeOK,
       ProcTypeOK, CountTypeOK, Devices
  <2>6. CountTypeOK'
    BY <1>14, <2>1, SessionAssumption DEF Look, Step, Mapped, dbVars, procVars, runVars,
       countVars, TypeOK, CountTypeOK, Devices
  <2>7. (req \in [Threads -> Requests])'
    BY <1>14, <2>1 DEF Look, Step, Mapped, dbVars, procVars, runVars, countVars, TypeOK,
       DbTypeOK, ProcTypeOK, Sessions, Devices, Threads, Calls, Requests
  <2> QED
    BY <2>2, <2>3, <2>4, <2>5, <2>6, <2>7 DEF TypeOK
<1>15. ASSUME NEW h \in Threads, LookFails(h)
      PROVE  TypeOK'
  <2>1. /\ req[h].session \in Sessions \union {0} /\ req[h].proc \in Procs /\ req[h].dev \in Devices \union {0}
        /\ req[h].session \in Sessions
    BY <1>15, Named DEF LookFails
  <2>2. DbTypeOK'
    BY <1>15, <2>1, SessionAssumption DEF LookFails, Happens, Done, Goto, FreeLock,
       objVars, TypeOK, DbTypeOK, ProcTypeOK, ObjTypeOK, RunTypeOK, CountTypeOK, Events,
       Sessions, Devices
  <2>3. ProcTypeOK'
    BY <1>15, <2>1 DEF LookFails, Happens, Done, Goto, FreeLock, objVars, TypeOK,
       ProcTypeOK, Boots, DbTypeOK, Devices
  <2>4. ObjTypeOK'
    BY <1>15, <2>1 DEF LookFails, Happens, Done, Goto, FreeLock, objVars, TypeOK,
       ObjTypeOK, DbTypeOK, ProcTypeOK, RunTypeOK, States, Devices, CountTypeOK
  <2>5. RunTypeOK'
    BY <1>15, <2>1 DEF LookFails, Happens, Done, Goto, FreeLock, objVars, TypeOK,
       RunTypeOK, Runs, Live, Running, Waiting, States, Events, NoEvent, ObjTypeOK,
       ProcTypeOK, CountTypeOK, Devices
  <2>6. CountTypeOK'
    BY <1>15, <2>1, SessionAssumption DEF LookFails, Happens, Done, Goto, FreeLock,
       objVars, TypeOK, CountTypeOK, Devices
  <2>7. (req \in [Threads -> Requests])'
    BY <1>15, <2>1, RestType DEF LookFails, Happens, Done, Goto, FreeLock, objVars,
       TypeOK, DbTypeOK, ProcTypeOK, Sessions, Devices, Threads, Calls, Requests
  <2> QED
    BY <2>2, <2>3, <2>4, <2>5, <2>6, <2>7 DEF TypeOK
<1>16. ASSUME NEW h \in Threads, Install(h)
      PROVE  TypeOK'
  <2>1. /\ req[h].session \in Sessions \union {0} /\ req[h].proc \in Procs /\ req[h].dev \in Devices \union {0}
        /\ req[h].session \in Sessions
    BY <1>16, Named DEF Install
  <2>2. DbTypeOK'
    BY <1>16, <2>1, SessionAssumption DEF Install, Done, Configure, Goto, FreeLock,
       countVars, TypeOK, DbTypeOK, ProcTypeOK, ObjTypeOK, RunTypeOK, CountTypeOK, Events,
       Sessions, Devices
  <2>3. ProcTypeOK'
    BY <1>16, <2>1 DEF Install, Done, Configure, Goto, FreeLock, countVars, TypeOK,
       ProcTypeOK, Boots, DbTypeOK, Devices
  <2>4. ObjTypeOK'
    BY <1>16, <2>1 DEF Install, Done, Configure, Goto, FreeLock, countVars, TypeOK,
       ObjTypeOK, DbTypeOK, ProcTypeOK, RunTypeOK, States, Devices, CountTypeOK
  <2>5. RunTypeOK'
    BY <1>16, <2>1 DEF Install, Done, Configure, Goto, FreeLock, countVars, TypeOK,
       RunTypeOK, Runs, Live, Running, Waiting, States, Events, NoEvent, ObjTypeOK,
       ProcTypeOK, CountTypeOK, Devices
  <2>6. CountTypeOK'
    BY <1>16, <2>1, SessionAssumption DEF Install, Done, Configure, Goto, FreeLock,
       countVars, TypeOK, CountTypeOK, Devices
  <2>7. (req \in [Threads -> Requests])'
    BY <1>16, <2>1, RestType DEF Install, Done, Configure, Goto, FreeLock, countVars,
       TypeOK, DbTypeOK, ProcTypeOK, Sessions, Devices, Threads, Calls, Requests
  <2> QED
    BY <2>2, <2>3, <2>4, <2>5, <2>6, <2>7 DEF TypeOK
<1>17. ASSUME NEW h \in Threads, Mark(h)
      PROVE  TypeOK'
  <2>1. /\ req[h].session \in Sessions \union {0} /\ req[h].proc \in Procs /\ req[h].dev \in Devices \union {0}
        /\ req[h].session \in Sessions
    BY <1>17, Named DEF Mark
  <2>2. DbTypeOK'
    BY <1>17, <2>1, SessionAssumption DEF Mark, Step, dbVars, procVars, runVars,
       countVars, TypeOK, DbTypeOK, ProcTypeOK, ObjTypeOK, RunTypeOK, CountTypeOK, Events,
       Sessions, Devices
  <2>3. ProcTypeOK'
    BY <1>17, <2>1 DEF Mark, Step, dbVars, procVars, runVars, countVars, TypeOK,
       ProcTypeOK, Boots, DbTypeOK, Devices
  <2>4. ObjTypeOK'
    BY <1>17, <2>1 DEF Mark, Step, dbVars, procVars, runVars, countVars, TypeOK,
       ObjTypeOK, DbTypeOK, ProcTypeOK, RunTypeOK, States, Devices, CountTypeOK
  <2>5. RunTypeOK'
    BY <1>17, <2>1 DEF Mark, Step, dbVars, procVars, runVars, countVars, TypeOK,
       RunTypeOK, Runs, Live, Running, Waiting, States, Events, NoEvent, ObjTypeOK,
       ProcTypeOK, CountTypeOK, Devices
  <2>6. CountTypeOK'
    BY <1>17, <2>1, SessionAssumption DEF Mark, Step, dbVars, procVars, runVars,
       countVars, TypeOK, CountTypeOK, Devices
  <2>7. (req \in [Threads -> Requests])'
    BY <1>17, <2>1 DEF Mark, Step, dbVars, procVars, runVars, countVars, TypeOK, DbTypeOK,
       ProcTypeOK, Sessions, Devices, Threads, Calls, Requests
  <2> QED
    BY <2>2, <2>3, <2>4, <2>5, <2>6, <2>7 DEF TypeOK
<1>18. ASSUME NEW h \in Threads, Unlink(h)
      PROVE  TypeOK'
  <2>1. /\ req[h].session \in Sessions \union {0} /\ req[h].proc \in Procs /\ req[h].dev \in Devices \union {0}
        /\ req[h].session \in Sessions
    BY <1>18, Named DEF Unlink
  <2>2. DbTypeOK'
    BY <1>18, <2>1, SessionAssumption DEF Unlink, Step, procVars, countVars, TypeOK,
       DbTypeOK, ProcTypeOK, ObjTypeOK, RunTypeOK, CountTypeOK, Events, Sessions, Devices
  <2>3. ProcTypeOK'
    BY <1>18, <2>1 DEF Unlink, Step, procVars, countVars, TypeOK, ProcTypeOK, Boots,
       DbTypeOK, Devices
  <2>4. ObjTypeOK'
    BY <1>18, <2>1 DEF Unlink, Step, procVars, countVars, TypeOK, ObjTypeOK, DbTypeOK,
       ProcTypeOK, RunTypeOK, States, Devices, CountTypeOK
  <2>5. RunTypeOK'
    BY <1>18, <2>1 DEF Unlink, Step, procVars, countVars, TypeOK, RunTypeOK, Runs, Live,
       Running, Waiting, States, Events, NoEvent, ObjTypeOK, ProcTypeOK, CountTypeOK,
       Devices
  <2>6. CountTypeOK'
    BY <1>18, <2>1, SessionAssumption DEF Unlink, Step, procVars, countVars, TypeOK,
       CountTypeOK, Devices
  <2>7. (req \in [Threads -> Requests])'
    BY <1>18, <2>1 DEF Unlink, Step, procVars, countVars, TypeOK, DbTypeOK, ProcTypeOK,
       Sessions, Devices, Threads, Calls, Requests
  <2> QED
    BY <2>2, <2>3, <2>4, <2>5, <2>6, <2>7 DEF TypeOK
<1>19. ASSUME NEW h \in Threads, ResetFails(h)
      PROVE  TypeOK'
  <2>1. /\ req[h].session \in Sessions \union {0} /\ req[h].proc \in Procs /\ req[h].dev \in Devices \union {0}
        /\ req[h].session \in Sessions
    BY <1>19, Named DEF ResetFails
  <2>2. DbTypeOK'
    BY <1>19, <2>1, SessionAssumption DEF ResetFails, Happens, Cancel, Step, dbVars,
       procVars, TypeOK, DbTypeOK, ProcTypeOK, ObjTypeOK, RunTypeOK, CountTypeOK, Events,
       Sessions, Devices
  <2>3. ProcTypeOK'
    BY <1>19, <2>1 DEF ResetFails, Happens, Cancel, Step, dbVars, procVars, TypeOK,
       ProcTypeOK, Boots, DbTypeOK, Devices
  <2>4. ObjTypeOK'
    BY <1>19, <2>1 DEF ResetFails, Happens, Cancel, Step, dbVars, procVars, TypeOK,
       ObjTypeOK, DbTypeOK, ProcTypeOK, RunTypeOK, States, Devices, CountTypeOK
  <2>5. RunTypeOK'
    BY <1>19, <2>1 DEF ResetFails, Happens, Cancel, Step, dbVars, procVars, TypeOK,
       RunTypeOK, Runs, Live, Running, Waiting, States, Events, NoEvent, ObjTypeOK,
       ProcTypeOK, CountTypeOK, Devices
  <2>6. CountTypeOK'
    BY <1>19, <2>1, SessionAssumption DEF ResetFails, Happens, Cancel, Step, dbVars,
       procVars, TypeOK, CountTypeOK, Devices
  <2>7. (req \in [Threads -> Requests])'
    BY <1>19, <2>1 DEF ResetFails, Happens, Cancel, Step, dbVars, procVars, TypeOK,
       DbTypeOK, ProcTypeOK, Sessions, Devices, Threads, Calls, Requests
  <2> QED
    BY <2>2, <2>3, <2>4, <2>5, <2>6, <2>7 DEF TypeOK
<1>20. ASSUME NEW h \in Threads, Wipe(h)
      PROVE  TypeOK'
  <2>1. /\ req[h].session \in Sessions \union {0} /\ req[h].proc \in Procs /\ req[h].dev \in Devices \union {0}
        /\ req[h].session \in Sessions
    BY <1>20, Named DEF Wipe
  <2>2. DbTypeOK'
    BY <1>20, <2>1, SessionAssumption DEF Wipe, Cancel, Step, dbVars, procVars, TypeOK,
       DbTypeOK, ProcTypeOK, ObjTypeOK, RunTypeOK, CountTypeOK, Events, Sessions, Devices
  <2>3. ProcTypeOK'
    BY <1>20, <2>1 DEF Wipe, Cancel, Step, dbVars, procVars, TypeOK, ProcTypeOK, Boots,
       DbTypeOK, Devices
  <2>4. ObjTypeOK'
    BY <1>20, <2>1 DEF Wipe, Cancel, Step, dbVars, procVars, TypeOK, ObjTypeOK, DbTypeOK,
       ProcTypeOK, RunTypeOK, States, Devices, CountTypeOK
  <2>5. RunTypeOK'
    BY <1>20, <2>1 DEF Wipe, Cancel, Step, dbVars, procVars, TypeOK, RunTypeOK, Runs,
       Live, Running, Waiting, States, Events, NoEvent, ObjTypeOK, ProcTypeOK,
       CountTypeOK, Devices
  <2>6. CountTypeOK'
    BY <1>20, <2>1, SessionAssumption DEF Wipe, Cancel, Step, dbVars, procVars, TypeOK,
       CountTypeOK, Devices
  <2>7. (req \in [Threads -> Requests])'
    BY <1>20, <2>1 DEF Wipe, Cancel, Step, dbVars, procVars, TypeOK, DbTypeOK, ProcTypeOK,
       Sessions, Devices, Threads, Calls, Requests
  <2> QED
    BY <2>2, <2>3, <2>4, <2>5, <2>6, <2>7 DEF TypeOK
<1>21. ASSUME NEW h \in Threads, Stop(h)
      PROVE  TypeOK'
  <2>1. /\ req[h].session \in Sessions \union {0} /\ req[h].proc \in Procs /\ req[h].dev \in Devices \union {0}
        /\ req[h].session \in Sessions
    BY <1>21, Named DEF Stop
  <2>2. DbTypeOK'
    BY <1>21, <2>1, SessionAssumption DEF Stop, Cancel, Step, dbVars, procVars, TypeOK,
       DbTypeOK, ProcTypeOK, ObjTypeOK, RunTypeOK, CountTypeOK, Events, Sessions, Devices
  <2>3. ProcTypeOK'
    BY <1>21, <2>1 DEF Stop, Cancel, Step, dbVars, procVars, TypeOK, ProcTypeOK, Boots,
       DbTypeOK, Devices
  <2>4. ObjTypeOK'
    BY <1>21, <2>1 DEF Stop, Cancel, Step, dbVars, procVars, TypeOK, ObjTypeOK, DbTypeOK,
       ProcTypeOK, RunTypeOK, States, Devices, CountTypeOK
  <2>5. RunTypeOK'
    BY <1>21, <2>1 DEF Stop, Cancel, Step, dbVars, procVars, TypeOK, RunTypeOK, Runs,
       Live, Running, Waiting, States, Events, NoEvent, ObjTypeOK, ProcTypeOK,
       CountTypeOK, Devices
  <2>6. CountTypeOK'
    BY <1>21, <2>1, SessionAssumption DEF Stop, Cancel, Step, dbVars, procVars, TypeOK,
       CountTypeOK, Devices
  <2>7. (req \in [Threads -> Requests])'
    BY <1>21, <2>1 DEF Stop, Cancel, Step, dbVars, procVars, TypeOK, DbTypeOK, ProcTypeOK,
       Sessions, Devices, Threads, Calls, Requests
  <2> QED
    BY <2>2, <2>3, <2>4, <2>5, <2>6, <2>7 DEF TypeOK
<1>22. ASSUME NEW h \in Threads, Clear(h)
      PROVE  TypeOK'
  <2>1. /\ req[h].session \in Sessions \union {0} /\ req[h].proc \in Procs /\ req[h].dev \in Devices \union {0}
        /\ req[h].session \in Sessions
    BY <1>22, Named DEF Clear
  <2>2. DbTypeOK'
    BY <1>22, <2>1, SessionAssumption DEF Clear, Step, Happens, procVars, runVars, TypeOK,
       DbTypeOK, ProcTypeOK, ObjTypeOK, RunTypeOK, CountTypeOK, Events, Sessions, Devices
  <2>3. ProcTypeOK'
    BY <1>22, <2>1 DEF Clear, Step, Happens, procVars, runVars, TypeOK, ProcTypeOK, Boots,
       DbTypeOK, Devices
  <2>4. ObjTypeOK'
    BY <1>22, <2>1 DEF Clear, Step, Happens, procVars, runVars, TypeOK, ObjTypeOK,
       DbTypeOK, ProcTypeOK, RunTypeOK, States, Devices, CountTypeOK
  <2>5. RunTypeOK'
    BY <1>22, <2>1 DEF Clear, Step, Happens, procVars, runVars, TypeOK, RunTypeOK, Runs,
       Live, Running, Waiting, States, Events, NoEvent, ObjTypeOK, ProcTypeOK,
       CountTypeOK, Devices
  <2>6. CountTypeOK'
    BY <1>22, <2>1, SessionAssumption DEF Clear, Step, Happens, procVars, runVars, TypeOK,
       CountTypeOK, Devices
  <2>7. (req \in [Threads -> Requests])'
    BY <1>22, <2>1 DEF Clear, Step, Happens, procVars, runVars, TypeOK, DbTypeOK,
       ProcTypeOK, Sessions, Devices, Threads, Calls, Requests
  <2> QED
    BY <2>2, <2>3, <2>4, <2>5, <2>6, <2>7 DEF TypeOK
<1>23. ASSUME NEW h \in Threads, Remove(h)
      PROVE  TypeOK'
  <2>1. /\ req[h].session \in Sessions \union {0} /\ req[h].proc \in Procs /\ req[h].dev \in Devices \union {0}
    BY Named
  <2>2. DbTypeOK'
    BY <1>23, <2>1, SessionAssumption DEF Remove, Step, Done, objVars, runVars, countVars,
       KeepSessions, TypeOK, DbTypeOK, ProcTypeOK, ObjTypeOK, RunTypeOK, CountTypeOK,
       Events, Sessions, Devices
  <2>3. ProcTypeOK'
    BY <1>23, <2>1 DEF Remove, Step, Done, objVars, runVars, countVars, KeepSessions,
       TypeOK, ProcTypeOK, Boots, DbTypeOK, Devices
  <2>4. ObjTypeOK'
    BY <1>23, <2>1 DEF Remove, Step, Done, objVars, runVars, countVars, KeepSessions,
       TypeOK, ObjTypeOK, DbTypeOK, ProcTypeOK, RunTypeOK, States, Devices, CountTypeOK
  <2>5. RunTypeOK'
    BY <1>23, <2>1 DEF Remove, Step, Done, objVars, runVars, countVars, KeepSessions,
       TypeOK, RunTypeOK, Runs, Live, Running, Waiting, States, Events, NoEvent,
       ObjTypeOK, ProcTypeOK, CountTypeOK, Devices
  <2>6. CountTypeOK'
    BY <1>23, <2>1, SessionAssumption DEF Remove, Step, Done, objVars, runVars, countVars,
       KeepSessions, TypeOK, CountTypeOK, Devices
  <2>7. (req \in [Threads -> Requests])'
    BY <1>23, <2>1, RestType DEF Remove, Step, Done, objVars, runVars, countVars,
       KeepSessions, TypeOK, DbTypeOK, ProcTypeOK, Sessions, Devices, Threads, Calls,
       Requests
  <2> QED
    BY <2>2, <2>3, <2>4, <2>5, <2>6, <2>7 DEF TypeOK
<1>24. ASSUME NEW h \in Threads, Unmap(h)
      PROVE  TypeOK'
  <2>1. /\ req[h].session \in Sessions \union {0} /\ req[h].proc \in Procs /\ req[h].dev \in Devices \union {0}
    BY Named
  <2>2. DbTypeOK'
    BY <1>24, <2>1, SessionAssumption DEF Unmap, Step, Done, objVars, runVars, countVars,
       KeepSessions, TypeOK, DbTypeOK, ProcTypeOK, ObjTypeOK, RunTypeOK, CountTypeOK,
       Events, Sessions, Devices
  <2>3. ProcTypeOK'
    BY <1>24, <2>1 DEF Unmap, Step, Done, objVars, runVars, countVars, KeepSessions,
       TypeOK, ProcTypeOK, Boots, DbTypeOK, Devices
  <2>4. ObjTypeOK'
    BY <1>24, <2>1 DEF Unmap, Step, Done, objVars, runVars, countVars, KeepSessions,
       TypeOK, ObjTypeOK, DbTypeOK, ProcTypeOK, RunTypeOK, States, Devices, CountTypeOK
  <2>5. RunTypeOK'
    BY <1>24, <2>1 DEF Unmap, Step, Done, objVars, runVars, countVars, KeepSessions,
       TypeOK, RunTypeOK, Runs, Live, Running, Waiting, States, Events, NoEvent,
       ObjTypeOK, ProcTypeOK, CountTypeOK, Devices
  <2>6. CountTypeOK'
    BY <1>24, <2>1, SessionAssumption DEF Unmap, Step, Done, objVars, runVars, countVars,
       KeepSessions, TypeOK, CountTypeOK, Devices
  <2>7. (req \in [Threads -> Requests])'
    BY <1>24, <2>1, RestType DEF Unmap, Step, Done, objVars, runVars, countVars,
       KeepSessions, TypeOK, DbTypeOK, ProcTypeOK, Sessions, Devices, Threads, Calls,
       Requests
  <2> QED
    BY <2>2, <2>3, <2>4, <2>5, <2>6, <2>7 DEF TypeOK
<1>25. ASSUME NEW h \in Threads, Cold(h)
      PROVE  TypeOK'
  <2>1. /\ req[h].session \in Sessions \union {0} /\ req[h].proc \in Procs /\ req[h].dev \in Devices \union {0}
    BY Named
  <2>2. DbTypeOK'
    BY <1>25, <2>1, SessionAssumption DEF Cold, Mapped, dbVars, procVars, objVars,
       runVars, countVars, KeepSessions, TypeOK, DbTypeOK, ProcTypeOK, ObjTypeOK,
       RunTypeOK, CountTypeOK, Events, Sessions, Devices
  <2>3. ProcTypeOK'
    BY <1>25, <2>1 DEF Cold, Mapped, dbVars, procVars, objVars, runVars, countVars,
       KeepSessions, TypeOK, ProcTypeOK, Boots, DbTypeOK, Devices
  <2>4. ObjTypeOK'
    BY <1>25, <2>1 DEF Cold, Mapped, dbVars, procVars, objVars, runVars, countVars,
       KeepSessions, TypeOK, ObjTypeOK, DbTypeOK, ProcTypeOK, RunTypeOK, States, Devices,
       CountTypeOK
  <2>5. RunTypeOK'
    BY <1>25, <2>1 DEF Cold, Mapped, dbVars, procVars, objVars, runVars, countVars,
       KeepSessions, TypeOK, RunTypeOK, Runs, Live, Running, Waiting, States, Events,
       NoEvent, ObjTypeOK, ProcTypeOK, CountTypeOK, Devices
  <2>6. CountTypeOK'
    BY <1>25, <2>1, SessionAssumption DEF Cold, Mapped, dbVars, procVars, objVars,
       runVars, countVars, KeepSessions, TypeOK, CountTypeOK, Devices
  <2>7. (req \in [Threads -> Requests])'
    BY <1>25, <2>1 DEF Cold, Mapped, dbVars, procVars, objVars, runVars, countVars,
       KeepSessions, TypeOK, DbTypeOK, ProcTypeOK, Sessions, Devices, Threads, Calls,
       Requests
  <2> QED
    BY <2>2, <2>3, <2>4, <2>5, <2>6, <2>7 DEF TypeOK
<1>26. ASSUME NEW h \in Threads, Erase(h)
      PROVE  TypeOK'
  <2>1. /\ req[h].session \in Sessions \union {0} /\ req[h].proc \in Procs /\ req[h].dev \in Devices \union {0}
    BY Named
  <2>2. DbTypeOK'
    BY <1>26, <2>1, SessionAssumption DEF Erase, Step, Happens, procVars, objVars,
       runVars, KeepSessions, TypeOK, DbTypeOK, ProcTypeOK, ObjTypeOK, RunTypeOK,
       CountTypeOK, Events, Sessions, Devices
  <2>3. ProcTypeOK'
    BY <1>26, <2>1 DEF Erase, Step, Happens, procVars, objVars, runVars, KeepSessions,
       TypeOK, ProcTypeOK, Boots, DbTypeOK, Devices
  <2>4. ObjTypeOK'
    BY <1>26, <2>1 DEF Erase, Step, Happens, procVars, objVars, runVars, KeepSessions,
       TypeOK, ObjTypeOK, DbTypeOK, ProcTypeOK, RunTypeOK, States, Devices, CountTypeOK
  <2>5. RunTypeOK'
    BY <1>26, <2>1 DEF Erase, Step, Happens, procVars, objVars, runVars, KeepSessions,
       TypeOK, RunTypeOK, Runs, Live, Running, Waiting, States, Events, NoEvent,
       ObjTypeOK, ProcTypeOK, CountTypeOK, Devices
  <2>6. CountTypeOK'
    BY <1>26, <2>1, SessionAssumption DEF Erase, Step, Happens, procVars, objVars,
       runVars, KeepSessions, TypeOK, CountTypeOK, Devices
  <2>7. (req \in [Threads -> Requests])'
    BY <1>26, <2>1 DEF Erase, Step, Happens, procVars, objVars, runVars, KeepSessions,
       TypeOK, DbTypeOK, ProcTypeOK, Sessions, Devices, Threads, Calls, Requests
  <2> QED
    BY <2>2, <2>3, <2>4, <2>5, <2>6, <2>7 DEF TypeOK
<1>27. ASSUME NEW h \in Threads, Forget(h)
      PROVE  TypeOK'
  <2>1. /\ req[h].session \in Sessions \union {0} /\ req[h].proc \in Procs /\ req[h].dev \in Devices \union {0}
    BY Named
  <2>2. DbTypeOK'
    BY <1>27, <2>1, SessionAssumption DEF Forget, Done, objVars, runVars, countVars,
       KeepSessions, TypeOK, DbTypeOK, ProcTypeOK, ObjTypeOK, RunTypeOK, CountTypeOK,
       Events, Sessions, Devices
  <2>3. ProcTypeOK'
    BY <1>27, <2>1 DEF Forget, Done, objVars, runVars, countVars, KeepSessions, TypeOK,
       ProcTypeOK, Boots, DbTypeOK, Devices
  <2>4. ObjTypeOK'
    BY <1>27, <2>1 DEF Forget, Done, objVars, runVars, countVars, KeepSessions, TypeOK,
       ObjTypeOK, DbTypeOK, ProcTypeOK, RunTypeOK, States, Devices, CountTypeOK
  <2>5. RunTypeOK'
    BY <1>27, <2>1 DEF Forget, Done, objVars, runVars, countVars, KeepSessions, TypeOK,
       RunTypeOK, Runs, Live, Running, Waiting, States, Events, NoEvent, ObjTypeOK,
       ProcTypeOK, CountTypeOK, Devices
  <2>6. CountTypeOK'
    BY <1>27, <2>1, SessionAssumption DEF Forget, Done, objVars, runVars, countVars,
       KeepSessions, TypeOK, CountTypeOK, Devices
  <2>7. (req \in [Threads -> Requests])'
    BY <1>27, <2>1, RestType DEF Forget, Done, objVars, runVars, countVars, KeepSessions,
       TypeOK, DbTypeOK, ProcTypeOK, Sessions, Devices, Threads, Calls, Requests
  <2> QED
    BY <2>2, <2>3, <2>4, <2>5, <2>6, <2>7 DEF TypeOK
<1>28. ASSUME NEW h \in Threads, CallFails(h)
      PROVE  TypeOK'
  <2>1. /\ req[h].session \in Sessions \union {0} /\ req[h].proc \in Procs /\ req[h].dev \in Devices \union {0}
    BY Named
  <2>2. DbTypeOK'
    BY <1>28, <2>1, SessionAssumption DEF CallFails, Happens, Done, dbVars, objVars,
       runVars, KeepSessions, TypeOK, DbTypeOK, ProcTypeOK, ObjTypeOK, RunTypeOK,
       CountTypeOK, Events, Sessions, Devices
  <2>3. ProcTypeOK'
    BY <1>28, <2>1 DEF CallFails, Happens, Done, dbVars, objVars, runVars, KeepSessions,
       TypeOK, ProcTypeOK, Boots, DbTypeOK, Devices
  <2>4. ObjTypeOK'
    BY <1>28, <2>1 DEF CallFails, Happens, Done, dbVars, objVars, runVars, KeepSessions,
       TypeOK, ObjTypeOK, DbTypeOK, ProcTypeOK, RunTypeOK, States, Devices, CountTypeOK
  <2>5. RunTypeOK'
    BY <1>28, <2>1 DEF CallFails, Happens, Done, dbVars, objVars, runVars, KeepSessions,
       TypeOK, RunTypeOK, Runs, Live, Running, Waiting, States, Events, NoEvent,
       ObjTypeOK, ProcTypeOK, CountTypeOK, Devices
  <2>6. CountTypeOK'
    BY <1>28, <2>1, SessionAssumption DEF CallFails, Happens, Done, dbVars, objVars,
       runVars, KeepSessions, TypeOK, CountTypeOK, Devices
  <2>7. (req \in [Threads -> Requests])'
    BY <1>28, <2>1, RestType DEF CallFails, Happens, Done, dbVars, objVars, runVars,
       KeepSessions, TypeOK, DbTypeOK, ProcTypeOK, Sessions, Devices, Threads, Calls,
       Requests
  <2> QED
    BY <2>2, <2>3, <2>4, <2>5, <2>6, <2>7 DEF TypeOK
<1>29. ASSUME NEW s \in Sessions, Dial(s)
      PROVE  TypeOK'
  <2>1. DbTypeOK'
    BY <1>29, SessionAssumption DEF Dial, Goto, SetStatus, Shown, dbVars, procVars,
       KeepOthers, TypeOK, DbTypeOK, ProcTypeOK, ObjTypeOK, RunTypeOK, CountTypeOK,
       Events, Sessions, Devices
  <2>2. ProcTypeOK'
    BY <1>29 DEF Dial, Goto, SetStatus, Shown, dbVars, procVars, KeepOthers, TypeOK,
       ProcTypeOK, Boots, DbTypeOK, Devices
  <2>3. ObjTypeOK'
    BY <1>29 DEF Dial, Goto, SetStatus, Shown, dbVars, procVars, KeepOthers, TypeOK,
       ObjTypeOK, DbTypeOK, ProcTypeOK, RunTypeOK, States, Devices, CountTypeOK
  <2>4. RunTypeOK'
    BY <1>29 DEF Dial, Goto, SetStatus, Shown, dbVars, procVars, KeepOthers, TypeOK,
       RunTypeOK, Runs, Live, Running, Waiting, States, Events, NoEvent, ObjTypeOK,
       ProcTypeOK, CountTypeOK, Devices
  <2>5. CountTypeOK'
    BY <1>29, SessionAssumption DEF Dial, Goto, SetStatus, Shown, dbVars, procVars,
       KeepOthers, TypeOK, CountTypeOK, Devices
  <2>6. (req \in [Threads -> Requests])'
    BY <1>29 DEF Dial, Goto, SetStatus, Shown, dbVars, procVars, KeepOthers, TypeOK,
       DbTypeOK, ProcTypeOK, Sessions, Devices, Threads, Calls, Requests
  <2> QED
    BY <2>1, <2>2, <2>3, <2>4, <2>5, <2>6 DEF TypeOK
<1>30. ASSUME NEW s \in Sessions, Connect(s)
      PROVE  TypeOK'
  <2>1. DbTypeOK'
    BY <1>30, SessionAssumption DEF Connect, Goto, Happens, dbVars, procVars, objVars,
       KeepOthers, TypeOK, DbTypeOK, ProcTypeOK, ObjTypeOK, RunTypeOK, CountTypeOK,
       Events, Sessions, Devices
  <2>2. ProcTypeOK'
    BY <1>30 DEF Connect, Goto, Happens, dbVars, procVars, objVars, KeepOthers, TypeOK,
       ProcTypeOK, Boots, DbTypeOK, Devices
  <2>3. ObjTypeOK'
    BY <1>30 DEF Connect, Goto, Happens, dbVars, procVars, objVars, KeepOthers, TypeOK,
       ObjTypeOK, DbTypeOK, ProcTypeOK, RunTypeOK, States, Devices, CountTypeOK
  <2>4. RunTypeOK'
    BY <1>30 DEF Connect, Goto, Happens, dbVars, procVars, objVars, KeepOthers, TypeOK,
       RunTypeOK, Runs, Live, Running, Waiting, States, Events, NoEvent, ObjTypeOK,
       ProcTypeOK, CountTypeOK, Devices
  <2>5. CountTypeOK'
    BY <1>30, SessionAssumption DEF Connect, Goto, Happens, dbVars, procVars, objVars,
       KeepOthers, TypeOK, CountTypeOK, Devices
  <2>6. (req \in [Threads -> Requests])'
    BY <1>30 DEF Connect, Goto, Happens, dbVars, procVars, objVars, KeepOthers, TypeOK,
       DbTypeOK, ProcTypeOK, Sessions, Devices, Threads, Calls, Requests
  <2> QED
    BY <2>1, <2>2, <2>3, <2>4, <2>5, <2>6 DEF TypeOK
<1>31. ASSUME NEW s \in Sessions, SeeCancel(s)
      PROVE  TypeOK'
  <2>1. DbTypeOK'
    BY <1>31, SessionAssumption DEF SeeCancel, Goto, dbVars, procVars, objVars,
       KeepOthers, TypeOK, DbTypeOK, ProcTypeOK, ObjTypeOK, RunTypeOK, CountTypeOK,
       Events, Sessions, Devices
  <2>2. ProcTypeOK'
    BY <1>31 DEF SeeCancel, Goto, dbVars, procVars, objVars, KeepOthers, TypeOK,
       ProcTypeOK, Boots, DbTypeOK, Devices
  <2>3. ObjTypeOK'
    BY <1>31 DEF SeeCancel, Goto, dbVars, procVars, objVars, KeepOthers, TypeOK,
       ObjTypeOK, DbTypeOK, ProcTypeOK, RunTypeOK, States, Devices, CountTypeOK
  <2>4. RunTypeOK'
    BY <1>31 DEF SeeCancel, Goto, dbVars, procVars, objVars, KeepOthers, TypeOK,
       RunTypeOK, Runs, Live, Running, Waiting, States, Events, NoEvent, ObjTypeOK,
       ProcTypeOK, CountTypeOK, Devices
  <2>5. CountTypeOK'
    BY <1>31, SessionAssumption DEF SeeCancel, Goto, dbVars, procVars, objVars,
       KeepOthers, TypeOK, CountTypeOK, Devices
  <2>6. (req \in [Threads -> Requests])'
    BY <1>31 DEF SeeCancel, Goto, dbVars, procVars, objVars, KeepOthers, TypeOK, DbTypeOK,
       ProcTypeOK, Sessions, Devices, Threads, Calls, Requests
  <2> QED
    BY <2>1, <2>2, <2>3, <2>4, <2>5, <2>6 DEF TypeOK
<1>32. ASSUME NEW s \in Sessions, Leave(s)
      PROVE  TypeOK'
  <2>1. DbTypeOK'
    BY <1>32, SessionAssumption DEF Leave, Goto, FreeLock, procVars, objVars, KeepOthers,
       TypeOK, DbTypeOK, ProcTypeOK, ObjTypeOK, RunTypeOK, CountTypeOK, Events, Sessions,
       Devices
  <2>2. ProcTypeOK'
    BY <1>32 DEF Leave, Goto, FreeLock, procVars, objVars, KeepOthers, TypeOK, ProcTypeOK,
       Boots, DbTypeOK, Devices
  <2>3. ObjTypeOK'
    BY <1>32 DEF Leave, Goto, FreeLock, procVars, objVars, KeepOthers, TypeOK, ObjTypeOK,
       DbTypeOK, ProcTypeOK, RunTypeOK, States, Devices, CountTypeOK
  <2>4. RunTypeOK'
    BY <1>32 DEF Leave, Goto, FreeLock, procVars, objVars, KeepOthers, TypeOK, RunTypeOK,
       Runs, Live, Running, Waiting, States, Events, NoEvent, ObjTypeOK, ProcTypeOK,
       CountTypeOK, Devices
  <2>5. CountTypeOK'
    BY <1>32, SessionAssumption DEF Leave, Goto, FreeLock, procVars, objVars, KeepOthers,
       TypeOK, CountTypeOK, Devices
  <2>6. (req \in [Threads -> Requests])'
    BY <1>32 DEF Leave, Goto, FreeLock, procVars, objVars, KeepOthers, TypeOK, DbTypeOK,
       ProcTypeOK, Sessions, Devices, Threads, Calls, Requests
  <2> QED
    BY <2>1, <2>2, <2>3, <2>4, <2>5, <2>6 DEF TypeOK
<1>33. ASSUME NEW s \in Sessions, PairDone(s)
      PROVE  TypeOK'
  <2>1. paired' \in Devices
    BY <1>33, SessionAssumption DEF PairDone, TypeOK, CountTypeOK, Devices
  <2>2. DbTypeOK'
    BY <1>33, <2>1, SessionAssumption DEF PairDone, Goto, procVars, TypeOK, DbTypeOK,
       ProcTypeOK, ObjTypeOK, RunTypeOK, CountTypeOK, Events, Sessions, Devices
  <2>3. ProcTypeOK'
    BY <1>33, <2>1 DEF PairDone, Goto, procVars, TypeOK, ProcTypeOK, Boots, DbTypeOK,
       Devices
  <2>4. ObjTypeOK'
    BY <1>33, <2>1 DEF PairDone, Goto, procVars, TypeOK, ObjTypeOK, DbTypeOK, ProcTypeOK,
       RunTypeOK, States, Devices, CountTypeOK
  <2>5. RunTypeOK'
    BY <1>33, <2>1 DEF PairDone, Goto, procVars, TypeOK, RunTypeOK, Runs, Live, Running,
       Waiting, States, Events, NoEvent, ObjTypeOK, ProcTypeOK, CountTypeOK, Devices
  <2>6. CountTypeOK'
    BY <1>33, <2>1, SessionAssumption DEF PairDone, Goto, procVars, TypeOK, CountTypeOK,
       Devices
  <2>7. (req \in [Threads -> Requests])'
    BY <1>33, <2>1 DEF PairDone, Goto, procVars, TypeOK, DbTypeOK, ProcTypeOK, Sessions,
       Devices, Threads, Calls, Requests
  <2> QED
    BY <2>2, <2>3, <2>4, <2>5, <2>6, <2>7 DEF TypeOK
<1>34. ASSUME NEW s \in Sessions, PairTimeout(s)
      PROVE  TypeOK'
  <2>1. DbTypeOK'
    BY <1>34, SessionAssumption DEF PairTimeout, Goto, dbVars, procVars, KeepOthers,
       TypeOK, DbTypeOK, ProcTypeOK, ObjTypeOK, RunTypeOK, CountTypeOK, Events, Sessions,
       Devices
  <2>2. ProcTypeOK'
    BY <1>34 DEF PairTimeout, Goto, dbVars, procVars, KeepOthers, TypeOK, ProcTypeOK,
       Boots, DbTypeOK, Devices
  <2>3. ObjTypeOK'
    BY <1>34 DEF PairTimeout, Goto, dbVars, procVars, KeepOthers, TypeOK, ObjTypeOK,
       DbTypeOK, ProcTypeOK, RunTypeOK, States, Devices, CountTypeOK
  <2>4. RunTypeOK'
    BY <1>34 DEF PairTimeout, Goto, dbVars, procVars, KeepOthers, TypeOK, RunTypeOK, Runs,
       Live, Running, Waiting, States, Events, NoEvent, ObjTypeOK, ProcTypeOK,
       CountTypeOK, Devices
  <2>5. CountTypeOK'
    BY <1>34, SessionAssumption DEF PairTimeout, Goto, dbVars, procVars, KeepOthers,
       TypeOK, CountTypeOK, Devices
  <2>6. (req \in [Threads -> Requests])'
    BY <1>34 DEF PairTimeout, Goto, dbVars, procVars, KeepOthers, TypeOK, DbTypeOK,
       ProcTypeOK, Sessions, Devices, Threads, Calls, Requests
  <2> QED
    BY <2>1, <2>2, <2>3, <2>4, <2>5, <2>6 DEF TypeOK
<1>35. ASSUME NEW s \in Sessions, PairFails(s)
      PROVE  TypeOK'
  <2>1. DbTypeOK'
    BY <1>35, SessionAssumption DEF PairFails, Goto, Happens, dbVars, procVars,
       KeepOthers, TypeOK, DbTypeOK, ProcTypeOK, ObjTypeOK, RunTypeOK, CountTypeOK,
       Events, Sessions, Devices
  <2>2. ProcTypeOK'
    BY <1>35 DEF PairFails, Goto, Happens, dbVars, procVars, KeepOthers, TypeOK,
       ProcTypeOK, Boots, DbTypeOK, Devices
  <2>3. ObjTypeOK'
    BY <1>35 DEF PairFails, Goto, Happens, dbVars, procVars, KeepOthers, TypeOK,
       ObjTypeOK, DbTypeOK, ProcTypeOK, RunTypeOK, States, Devices, CountTypeOK
  <2>4. RunTypeOK'
    BY <1>35 DEF PairFails, Goto, Happens, dbVars, procVars, KeepOthers, TypeOK,
       RunTypeOK, Runs, Live, Running, Waiting, States, Events, NoEvent, ObjTypeOK,
       ProcTypeOK, CountTypeOK, Devices
  <2>5. CountTypeOK'
    BY <1>35, SessionAssumption DEF PairFails, Goto, Happens, dbVars, procVars,
       KeepOthers, TypeOK, CountTypeOK, Devices
  <2>6. (req \in [Threads -> Requests])'
    BY <1>35 DEF PairFails, Goto, Happens, dbVars, procVars, KeepOthers, TypeOK, DbTypeOK,
       ProcTypeOK, Sessions, Devices, Threads, Calls, Requests
  <2> QED
    BY <2>1, <2>2, <2>3, <2>4, <2>5, <2>6 DEF TypeOK
<1>36. ASSUME NEW s \in Sessions, Opens(s)
      PROVE  TypeOK'
  <2>1. DbTypeOK'
    BY <1>36, SessionAssumption DEF Opens, dbVars, procVars, objVars, KeepOthers, TypeOK,
       DbTypeOK, ProcTypeOK, ObjTypeOK, RunTypeOK, CountTypeOK, Events, Sessions, Devices
  <2>2. ProcTypeOK'
    BY <1>36 DEF Opens, dbVars, procVars, objVars, KeepOthers, TypeOK, ProcTypeOK, Boots,
       DbTypeOK, Devices
  <2>3. ObjTypeOK'
    BY <1>36 DEF Opens, dbVars, procVars, objVars, KeepOthers, TypeOK, ObjTypeOK,
       DbTypeOK, ProcTypeOK, RunTypeOK, States, Devices, CountTypeOK
  <2>4. RunTypeOK'
    BY <1>36 DEF Opens, dbVars, procVars, objVars, KeepOthers, TypeOK, RunTypeOK, Runs,
       Live, Running, Waiting, States, Events, NoEvent, ObjTypeOK, ProcTypeOK,
       CountTypeOK, Devices
  <2>5. CountTypeOK'
    BY <1>36, SessionAssumption DEF Opens, dbVars, procVars, objVars, KeepOthers, TypeOK,
       CountTypeOK, Devices
  <2>6. (req \in [Threads -> Requests])'
    BY <1>36 DEF Opens, dbVars, procVars, objVars, KeepOthers, TypeOK, DbTypeOK,
       ProcTypeOK, Sessions, Devices, Threads, Calls, Requests
  <2> QED
    BY <2>1, <2>2, <2>3, <2>4, <2>5, <2>6 DEF TypeOK
<1>37. ASSUME NEW s \in Sessions, Closes(s)
      PROVE  TypeOK'
  <2>1. DbTypeOK'
    BY <1>37, SessionAssumption DEF Closes, Happens, dbVars, procVars, objVars,
       KeepOthers, TypeOK, DbTypeOK, ProcTypeOK, ObjTypeOK, RunTypeOK, CountTypeOK,
       Events, Sessions, Devices
  <2>2. ProcTypeOK'
    BY <1>37 DEF Closes, Happens, dbVars, procVars, objVars, KeepOthers, TypeOK,
       ProcTypeOK, Boots, DbTypeOK, Devices
  <2>3. ObjTypeOK'
    BY <1>37 DEF Closes, Happens, dbVars, procVars, objVars, KeepOthers, TypeOK,
       ObjTypeOK, DbTypeOK, ProcTypeOK, RunTypeOK, States, Devices, CountTypeOK
  <2>4. RunTypeOK'
    BY <1>37 DEF Closes, Happens, dbVars, procVars, objVars, KeepOthers, TypeOK,
       RunTypeOK, Runs, Live, Running, Waiting, States, Events, NoEvent, ObjTypeOK,
       ProcTypeOK, CountTypeOK, Devices
  <2>5. CountTypeOK'
    BY <1>37, SessionAssumption DEF Closes, Happens, dbVars, procVars, objVars,
       KeepOthers, TypeOK, CountTypeOK, Devices
  <2>6. (req \in [Threads -> Requests])'
    BY <1>37 DEF Closes, Happens, dbVars, procVars, objVars, KeepOthers, TypeOK, DbTypeOK,
       ProcTypeOK, Sessions, Devices, Threads, Calls, Requests
  <2> QED
    BY <2>1, <2>2, <2>3, <2>4, <2>5, <2>6 DEF TypeOK
<1>38. ASSUME NEW s \in Sessions, Panic(s)
      PROVE  TypeOK'
  <2>1. DbTypeOK'
    BY <1>38, SessionAssumption DEF Panic, Goto, Happens, SetStatus, Shown, FreeLock,
       procVars, TypeOK, DbTypeOK, ProcTypeOK, ObjTypeOK, RunTypeOK, CountTypeOK, Events,
       Sessions, Devices
  <2>2. ProcTypeOK'
    BY <1>38 DEF Panic, Goto, Happens, SetStatus, Shown, FreeLock, procVars, TypeOK,
       ProcTypeOK, Boots, DbTypeOK, Devices
  <2>3. ObjTypeOK'
    BY <1>38 DEF Panic, Goto, Happens, SetStatus, Shown, FreeLock, procVars, TypeOK,
       ObjTypeOK, DbTypeOK, ProcTypeOK, RunTypeOK, States, Devices, CountTypeOK
  <2>4. RunTypeOK'
    BY <1>38 DEF Panic, Goto, Happens, SetStatus, Shown, FreeLock, procVars, TypeOK,
       RunTypeOK, Runs, Live, Running, Waiting, States, Events, NoEvent, ObjTypeOK,
       ProcTypeOK, CountTypeOK, Devices
  <2>5. CountTypeOK'
    BY <1>38, SessionAssumption DEF Panic, Goto, Happens, SetStatus, Shown, FreeLock,
       procVars, TypeOK, CountTypeOK, Devices
  <2>6. (req \in [Threads -> Requests])'
    BY <1>38 DEF Panic, Goto, Happens, SetStatus, Shown, FreeLock, procVars, TypeOK,
       DbTypeOK, ProcTypeOK, Sessions, Devices, Threads, Calls, Requests
  <2> QED
    BY <2>1, <2>2, <2>3, <2>4, <2>5, <2>6 DEF TypeOK
<1>39. ASSUME NEW s \in Sessions, BeatRead(s)
      PROVE  TypeOK'
  <2>1. DbTypeOK'
    BY <1>39, SessionAssumption DEF BeatRead, Happens, dbVars, procVars, objVars,
       KeepOthers, TypeOK, DbTypeOK, ProcTypeOK, ObjTypeOK, RunTypeOK, CountTypeOK,
       Events, Sessions, Devices
  <2>2. ProcTypeOK'
    BY <1>39 DEF BeatRead, Happens, dbVars, procVars, objVars, KeepOthers, TypeOK,
       ProcTypeOK, Boots, DbTypeOK, Devices
  <2>3. ObjTypeOK'
    BY <1>39 DEF BeatRead, Happens, dbVars, procVars, objVars, KeepOthers, TypeOK,
       ObjTypeOK, DbTypeOK, ProcTypeOK, RunTypeOK, States, Devices, CountTypeOK
  <2>4. RunTypeOK'
    BY <1>39 DEF BeatRead, Happens, dbVars, procVars, objVars, KeepOthers, TypeOK,
       RunTypeOK, Runs, Live, Running, Waiting, States, Events, NoEvent, ObjTypeOK,
       ProcTypeOK, CountTypeOK, Devices
  <2>5. CountTypeOK'
    BY <1>39, SessionAssumption DEF BeatRead, Happens, dbVars, procVars, objVars,
       KeepOthers, TypeOK, CountTypeOK, Devices
  <2>6. (req \in [Threads -> Requests])'
    BY <1>39 DEF BeatRead, Happens, dbVars, procVars, objVars, KeepOthers, TypeOK,
       DbTypeOK, ProcTypeOK, Sessions, Devices, Threads, Calls, Requests
  <2> QED
    BY <2>1, <2>2, <2>3, <2>4, <2>5, <2>6 DEF TypeOK
<1>40. ASSUME NEW s \in Sessions, BeatWrite(s)
      PROVE  TypeOK'
  <2>1. DbTypeOK'
    BY <1>40, SessionAssumption DEF BeatWrite, SetStatus, Shown, dbVars, procVars,
       KeepOthers, TypeOK, DbTypeOK, ProcTypeOK, ObjTypeOK, RunTypeOK, CountTypeOK,
       Events, Sessions, Devices
  <2>2. ProcTypeOK'
    BY <1>40 DEF BeatWrite, SetStatus, Shown, dbVars, procVars, KeepOthers, TypeOK,
       ProcTypeOK, Boots, DbTypeOK, Devices
  <2>3. ObjTypeOK'
    BY <1>40 DEF BeatWrite, SetStatus, Shown, dbVars, procVars, KeepOthers, TypeOK,
       ObjTypeOK, DbTypeOK, ProcTypeOK, RunTypeOK, States, Devices, CountTypeOK
  <2>4. RunTypeOK'
    BY <1>40 DEF BeatWrite, SetStatus, Shown, dbVars, procVars, KeepOthers, TypeOK,
       RunTypeOK, Runs, Live, Running, Waiting, States, Events, NoEvent, ObjTypeOK,
       ProcTypeOK, CountTypeOK, Devices
  <2>5. CountTypeOK'
    BY <1>40, SessionAssumption DEF BeatWrite, SetStatus, Shown, dbVars, procVars,
       KeepOthers, TypeOK, CountTypeOK, Devices
  <2>6. (req \in [Threads -> Requests])'
    BY <1>40 DEF BeatWrite, SetStatus, Shown, dbVars, procVars, KeepOthers, TypeOK,
       DbTypeOK, ProcTypeOK, Sessions, Devices, Threads, Calls, Requests
  <2> QED
    BY <2>1, <2>2, <2>3, <2>4, <2>5, <2>6 DEF TypeOK
<1>41. ASSUME NEW s \in Sessions, Hello(s)
      PROVE  TypeOK'
  <2>1. DbTypeOK'
    BY <1>41, SessionAssumption DEF Hello, Handled, SetStatus, Shown, dbVars, procVars,
       KeepOthers, TypeOK, DbTypeOK, ProcTypeOK, ObjTypeOK, RunTypeOK, CountTypeOK,
       Events, Sessions, Devices
  <2>2. ProcTypeOK'
    BY <1>41 DEF Hello, Handled, SetStatus, Shown, dbVars, procVars, KeepOthers, TypeOK,
       ProcTypeOK, Boots, DbTypeOK, Devices
  <2>3. ObjTypeOK'
    BY <1>41 DEF Hello, Handled, SetStatus, Shown, dbVars, procVars, KeepOthers, TypeOK,
       ObjTypeOK, DbTypeOK, ProcTypeOK, RunTypeOK, States, Devices, CountTypeOK
  <2>4. RunTypeOK'
    BY <1>41 DEF Hello, Handled, SetStatus, Shown, dbVars, procVars, KeepOthers, TypeOK,
       RunTypeOK, Runs, Live, Running, Waiting, States, Events, NoEvent, ObjTypeOK,
       ProcTypeOK, CountTypeOK, Devices
  <2>5. CountTypeOK'
    BY <1>41, SessionAssumption DEF Hello, Handled, SetStatus, Shown, dbVars, procVars,
       KeepOthers, TypeOK, CountTypeOK, Devices
  <2>6. (req \in [Threads -> Requests])'
    BY <1>41 DEF Hello, Handled, SetStatus, Shown, dbVars, procVars, KeepOthers, TypeOK,
       DbTypeOK, ProcTypeOK, Sessions, Devices, Threads, Calls, Requests
  <2> QED
    BY <2>1, <2>2, <2>3, <2>4, <2>5, <2>6 DEF TypeOK
<1>42. ASSUME NEW s \in Sessions, SaveDevice(s)
      PROVE  TypeOK'
  <2>1. DbTypeOK'
    BY <1>42, SessionAssumption DEF SaveDevice, Phase, Happens, procVars, objVars,
       KeepOthers, TypeOK, DbTypeOK, ProcTypeOK, ObjTypeOK, RunTypeOK, CountTypeOK,
       Events, Sessions, Devices
  <2>2. ProcTypeOK'
    BY <1>42 DEF SaveDevice, Phase, Happens, procVars, objVars, KeepOthers, TypeOK,
       ProcTypeOK, Boots, DbTypeOK, Devices
  <2>3. ObjTypeOK'
    BY <1>42 DEF SaveDevice, Phase, Happens, procVars, objVars, KeepOthers, TypeOK,
       ObjTypeOK, DbTypeOK, ProcTypeOK, RunTypeOK, States, Devices, CountTypeOK
  <2>4. RunTypeOK'
    BY <1>42 DEF SaveDevice, Phase, Happens, procVars, objVars, KeepOthers, TypeOK,
       RunTypeOK, Runs, Live, Running, Waiting, States, Events, NoEvent, ObjTypeOK,
       ProcTypeOK, CountTypeOK, Devices
  <2>5. CountTypeOK'
    BY <1>42, SessionAssumption DEF SaveDevice, Phase, Happens, procVars, objVars,
       KeepOthers, TypeOK, CountTypeOK, Devices
  <2>6. (req \in [Threads -> Requests])'
    BY <1>42 DEF SaveDevice, Phase, Happens, procVars, objVars, KeepOthers, TypeOK,
       DbTypeOK, ProcTypeOK, Sessions, Devices, Threads, Calls, Requests
  <2> QED
    BY <2>1, <2>2, <2>3, <2>4, <2>5, <2>6 DEF TypeOK
<1>43. ASSUME NEW s \in Sessions, Paired(s)
      PROVE  TypeOK'
  <2>1. DbTypeOK'
    BY <1>43, SessionAssumption DEF Paired, Handled, SetStatus, Shown, dbVars, procVars,
       KeepOthers, TypeOK, DbTypeOK, ProcTypeOK, ObjTypeOK, RunTypeOK, CountTypeOK,
       Events, Sessions, Devices
  <2>2. ProcTypeOK'
    BY <1>43 DEF Paired, Handled, SetStatus, Shown, dbVars, procVars, KeepOthers, TypeOK,
       ProcTypeOK, Boots, DbTypeOK, Devices
  <2>3. ObjTypeOK'
    BY <1>43 DEF Paired, Handled, SetStatus, Shown, dbVars, procVars, KeepOthers, TypeOK,
       ObjTypeOK, DbTypeOK, ProcTypeOK, RunTypeOK, States, Devices, CountTypeOK
  <2>4. RunTypeOK'
    BY <1>43 DEF Paired, Handled, SetStatus, Shown, dbVars, procVars, KeepOthers, TypeOK,
       RunTypeOK, Runs, Live, Running, Waiting, States, Events, NoEvent, ObjTypeOK,
       ProcTypeOK, CountTypeOK, Devices
  <2>5. CountTypeOK'
    BY <1>43, SessionAssumption DEF Paired, Handled, SetStatus, Shown, dbVars, procVars,
       KeepOthers, TypeOK, CountTypeOK, Devices
  <2>6. (req \in [Threads -> Requests])'
    BY <1>43 DEF Paired, Handled, SetStatus, Shown, dbVars, procVars, KeepOthers, TypeOK,
       DbTypeOK, ProcTypeOK, Sessions, Devices, Threads, Calls, Requests
  <2> QED
    BY <2>1, <2>2, <2>3, <2>4, <2>5, <2>6 DEF TypeOK
<1>44. ASSUME NEW s \in Sessions, Down(s)
      PROVE  TypeOK'
  <2>1. DbTypeOK'
    BY <1>44, SessionAssumption DEF Down, Handled, SetStatus, Shown, WakeLoop, Goto,
       dbVars, procVars, KeepOthers, TypeOK, DbTypeOK, ProcTypeOK, ObjTypeOK, RunTypeOK,
       CountTypeOK, Events, Sessions, Devices
  <2>2. ProcTypeOK'
    BY <1>44 DEF Down, Handled, SetStatus, Shown, WakeLoop, Goto, dbVars, procVars,
       KeepOthers, TypeOK, ProcTypeOK, Boots, DbTypeOK, Devices
  <2>3. ObjTypeOK'
    BY <1>44 DEF Down, Handled, SetStatus, Shown, WakeLoop, Goto, dbVars, procVars,
       KeepOthers, TypeOK, ObjTypeOK, DbTypeOK, ProcTypeOK, RunTypeOK, States, Devices,
       CountTypeOK
  <2>4. RunTypeOK'
    BY <1>44 DEF Down, Handled, SetStatus, Shown, WakeLoop, Goto, dbVars, procVars,
       KeepOthers, TypeOK, RunTypeOK, Runs, Live, Running, Waiting, States, Events,
       NoEvent, ObjTypeOK, ProcTypeOK, CountTypeOK, Devices
  <2>5. CountTypeOK'
    BY <1>44, SessionAssumption DEF Down, Handled, SetStatus, Shown, WakeLoop, Goto,
       dbVars, procVars, KeepOthers, TypeOK, CountTypeOK, Devices
  <2>6. (req \in [Threads -> Requests])'
    BY <1>44 DEF Down, Handled, SetStatus, Shown, WakeLoop, Goto, dbVars, procVars,
       KeepOthers, TypeOK, DbTypeOK, ProcTypeOK, Sessions, Devices, Threads, Calls,
       Requests
  <2> QED
    BY <2>1, <2>2, <2>3, <2>4, <2>5, <2>6 DEF TypeOK
<1>45. ASSUME NEW s \in Sessions, LoggedOut(s)
      PROVE  TypeOK'
  <2>1. DbTypeOK'
    BY <1>45, SessionAssumption DEF LoggedOut, Phase, SetStatus, Shown, dbVars, procVars,
       KeepOthers, TypeOK, DbTypeOK, ProcTypeOK, ObjTypeOK, RunTypeOK, CountTypeOK,
       Events, Sessions, Devices
  <2>2. ProcTypeOK'
    BY <1>45 DEF LoggedOut, Phase, SetStatus, Shown, dbVars, procVars, KeepOthers, TypeOK,
       ProcTypeOK, Boots, DbTypeOK, Devices
  <2>3. ObjTypeOK'
    BY <1>45 DEF LoggedOut, Phase, SetStatus, Shown, dbVars, procVars, KeepOthers, TypeOK,
       ObjTypeOK, DbTypeOK, ProcTypeOK, RunTypeOK, States, Devices, CountTypeOK
  <2>4. RunTypeOK'
    BY <1>45 DEF LoggedOut, Phase, SetStatus, Shown, dbVars, procVars, KeepOthers, TypeOK,
       RunTypeOK, Runs, Live, Running, Waiting, States, Events, NoEvent, ObjTypeOK,
       ProcTypeOK, CountTypeOK, Devices
  <2>5. CountTypeOK'
    BY <1>45, SessionAssumption DEF LoggedOut, Phase, SetStatus, Shown, dbVars, procVars,
       KeepOthers, TypeOK, CountTypeOK, Devices
  <2>6. (req \in [Threads -> Requests])'
    BY <1>45 DEF LoggedOut, Phase, SetStatus, Shown, dbVars, procVars, KeepOthers, TypeOK,
       DbTypeOK, ProcTypeOK, Sessions, Devices, Threads, Calls, Requests
  <2> QED
    BY <2>1, <2>2, <2>3, <2>4, <2>5, <2>6 DEF TypeOK
<1>46. ASSUME NEW s \in Sessions, ClearDevice(s)
      PROVE  TypeOK'
  <2>1. DbTypeOK'
    BY <1>46, SessionAssumption DEF ClearDevice, Phase, Happens, procVars, KeepOthers,
       TypeOK, DbTypeOK, ProcTypeOK, ObjTypeOK, RunTypeOK, CountTypeOK, Events, Sessions,
       Devices
  <2>2. ProcTypeOK'
    BY <1>46 DEF ClearDevice, Phase, Happens, procVars, KeepOthers, TypeOK, ProcTypeOK,
       Boots, DbTypeOK, Devices
  <2>3. ObjTypeOK'
    BY <1>46 DEF ClearDevice, Phase, Happens, procVars, KeepOthers, TypeOK, ObjTypeOK,
       DbTypeOK, ProcTypeOK, RunTypeOK, States, Devices, CountTypeOK
  <2>4. RunTypeOK'
    BY <1>46 DEF ClearDevice, Phase, Happens, procVars, KeepOthers, TypeOK, RunTypeOK,
       Runs, Live, Running, Waiting, States, Events, NoEvent, ObjTypeOK, ProcTypeOK,
       CountTypeOK, Devices
  <2>5. CountTypeOK'
    BY <1>46, SessionAssumption DEF ClearDevice, Phase, Happens, procVars, KeepOthers,
       TypeOK, CountTypeOK, Devices
  <2>6. (req \in [Threads -> Requests])'
    BY <1>46 DEF ClearDevice, Phase, Happens, procVars, KeepOthers, TypeOK, DbTypeOK,
       ProcTypeOK, Sessions, Devices, Threads, Calls, Requests
  <2> QED
    BY <2>1, <2>2, <2>3, <2>4, <2>5, <2>6 DEF TypeOK
<1>47. ASSUME NEW s \in Sessions, ForgetDevice(s)
      PROVE  TypeOK'
  <2>1. DbTypeOK'
    BY <1>47, SessionAssumption DEF ForgetDevice, Phase, Happens, procVars, objVars,
       KeepOthers, TypeOK, DbTypeOK, ProcTypeOK, ObjTypeOK, RunTypeOK, CountTypeOK,
       Events, Sessions, Devices
  <2>2. ProcTypeOK'
    BY <1>47 DEF ForgetDevice, Phase, Happens, procVars, objVars, KeepOthers, TypeOK,
       ProcTypeOK, Boots, DbTypeOK, Devices
  <2>3. ObjTypeOK'
    BY <1>47 DEF ForgetDevice, Phase, Happens, procVars, objVars, KeepOthers, TypeOK,
       ObjTypeOK, DbTypeOK, ProcTypeOK, RunTypeOK, States, Devices, CountTypeOK
  <2>4. RunTypeOK'
    BY <1>47 DEF ForgetDevice, Phase, Happens, procVars, objVars, KeepOthers, TypeOK,
       RunTypeOK, Runs, Live, Running, Waiting, States, Events, NoEvent, ObjTypeOK,
       ProcTypeOK, CountTypeOK, Devices
  <2>5. CountTypeOK'
    BY <1>47, SessionAssumption DEF ForgetDevice, Phase, Happens, procVars, objVars,
       KeepOthers, TypeOK, CountTypeOK, Devices
  <2>6. (req \in [Threads -> Requests])'
    BY <1>47 DEF ForgetDevice, Phase, Happens, procVars, objVars, KeepOthers, TypeOK,
       DbTypeOK, ProcTypeOK, Sessions, Devices, Threads, Calls, Requests
  <2> QED
    BY <2>1, <2>2, <2>3, <2>4, <2>5, <2>6 DEF TypeOK
<1>48. ASSUME NEW s \in Sessions, DropDevice(s)
      PROVE  TypeOK'
  <2>1. DbTypeOK'
    BY <1>48, SessionAssumption DEF DropDevice, Handled, WakeLoop, Goto, dbVars, procVars,
       KeepOthers, TypeOK, DbTypeOK, ProcTypeOK, ObjTypeOK, RunTypeOK, CountTypeOK,
       Events, Sessions, Devices
  <2>2. ProcTypeOK'
    BY <1>48 DEF DropDevice, Handled, WakeLoop, Goto, dbVars, procVars, KeepOthers,
       TypeOK, ProcTypeOK, Boots, DbTypeOK, Devices
  <2>3. ObjTypeOK'
    BY <1>48 DEF DropDevice, Handled, WakeLoop, Goto, dbVars, procVars, KeepOthers,
       TypeOK, ObjTypeOK, DbTypeOK, ProcTypeOK, RunTypeOK, States, Devices, CountTypeOK
  <2>4. RunTypeOK'
    BY <1>48 DEF DropDevice, Handled, WakeLoop, Goto, dbVars, procVars, KeepOthers,
       TypeOK, RunTypeOK, Runs, Live, Running, Waiting, States, Events, NoEvent,
       ObjTypeOK, ProcTypeOK, CountTypeOK, Devices
  <2>5. CountTypeOK'
    BY <1>48, SessionAssumption DEF DropDevice, Handled, WakeLoop, Goto, dbVars, procVars,
       KeepOthers, TypeOK, CountTypeOK, Devices
  <2>6. (req \in [Threads -> Requests])'
    BY <1>48 DEF DropDevice, Handled, WakeLoop, Goto, dbVars, procVars, KeepOthers,
       TypeOK, DbTypeOK, ProcTypeOK, Sessions, Devices, Threads, Calls, Requests
  <2> QED
    BY <2>1, <2>2, <2>3, <2>4, <2>5, <2>6 DEF TypeOK
<1>49. ASSUME NEW p \in Procs, BootFails(p)
      PROVE  TypeOK'
  <2>1. DbTypeOK'
    BY <1>49, SessionAssumption DEF BootFails, Happens, dbVars, objVars, runVars,
       KeepSessions, TypeOK, DbTypeOK, ProcTypeOK, ObjTypeOK, RunTypeOK, CountTypeOK,
       Events, Sessions, Devices
  <2>2. ProcTypeOK'
    BY <1>49 DEF BootFails, Happens, dbVars, objVars, runVars, KeepSessions, TypeOK,
       ProcTypeOK, Boots, DbTypeOK, Devices
  <2>3. ObjTypeOK'
    BY <1>49 DEF BootFails, Happens, dbVars, objVars, runVars, KeepSessions, TypeOK,
       ObjTypeOK, DbTypeOK, ProcTypeOK, RunTypeOK, States, Devices, CountTypeOK
  <2>4. RunTypeOK'
    BY <1>49 DEF BootFails, Happens, dbVars, objVars, runVars, KeepSessions, TypeOK,
       RunTypeOK, Runs, Live, Running, Waiting, States, Events, NoEvent, ObjTypeOK,
       ProcTypeOK, CountTypeOK, Devices
  <2>5. CountTypeOK'
    BY <1>49, SessionAssumption DEF BootFails, Happens, dbVars, objVars, runVars,
       KeepSessions, TypeOK, CountTypeOK, Devices
  <2>6. (req \in [Threads -> Requests])'
    BY <1>49 DEF BootFails, Happens, dbVars, objVars, runVars, KeepSessions, TypeOK,
       DbTypeOK, ProcTypeOK, Sessions, Devices, Threads, Calls, Requests
  <2> QED
    BY <2>1, <2>2, <2>3, <2>4, <2>5, <2>6 DEF TypeOK
<1> QED
  BY <1>1, <1>2, <1>3, <1>4, <1>5, <1>6, <1>7, <1>8, <1>9, <1>10, <1>11, <1>12, <1>13,
     <1>14, <1>15, <1>16, <1>17, <1>18, <1>19, <1>20, <1>21, <1>22, <1>23, <1>24, <1>25,
     <1>26, <1>27, <1>28, <1>29, <1>30, <1>31, <1>32, <1>33, <1>34, <1>35, <1>36, <1>37,
     <1>38, <1>39, <1>40, <1>41, <1>42, <1>43, <1>44, <1>45, <1>46, <1>47, <1>48, <1>49
     DEF Next, Main, Request, Session, Outside, Handle

(* Each step keeps the references. *)
LEMMA RefStep ==
  ASSUME TypeOK, RefInv, LockNeverLeaks, [Next]_vars
  PROVE  RefInv'
<1>1. CASE UNCHANGED vars
  BY <1>1 DEF vars, dbVars, procVars, objVars, runVars, countVars, KeepSessions,
     KeepOthers, RefInv, ThreadOK, MapOK, OneStarter, Starting
<1>2. ASSUME NEW p \in Procs, Start(p)
      PROVE  RefInv'
  BY <1>2 DEF Start, dbVars, objVars, runVars, KeepSessions, TypeOK, ProcTypeOK,
     ObjTypeOK, RunTypeOK, RefInv, ThreadOK, MapOK, OneStarter, Sessions, Threads,
     Requests, Starting
<1>3. ASSUME NEW p \in Procs, BootRead(p)
      PROVE  RefInv'
  BY <1>3 DEF BootRead, Mapped, dbVars, objVars, runVars, countVars, KeepSessions, TypeOK,
     ProcTypeOK, ObjTypeOK, RunTypeOK, RefInv, ThreadOK, MapOK, OneStarter, Sessions,
     Threads, Requests, Starting
<1>4. ASSUME NEW p \in Procs, BootUnmap(p)
      PROVE  RefInv'
  BY <1>4 DEF BootUnmap, objVars, runVars, countVars, KeepSessions, TypeOK, ProcTypeOK,
     ObjTypeOK, RunTypeOK, RefInv, ThreadOK, MapOK, OneStarter, Sessions, Threads,
     Requests, Starting
<1>5. ASSUME NEW p \in Procs, BootLock(p)
      PROVE  RefInv'
  <2>1. /\ req' = req /\ boot' = [boot EXCEPT ![p] = "up"] /\ boot[p] = "lock"
        /\ boot \in [Procs -> Boots] /\ req \in [Threads -> Requests]
    BY <1>5 DEF BootLock, TypeOK, ProcTypeOK
  <2>2. CASE lock # 0
    <3>1. UNCHANGED <<run, proc, lock, sessions>>
      BY <1>5, <2>2 DEF BootLock, dbVars, KeepSessions, objVars, runVars
    <3> QED
      BY <2>1, <3>1 DEF RefInv, ThreadOK, MapOK, OneStarter, Starting, Requests
  <2>3. ASSUME lock = 0, NEW s \in Sessions, Create(s, p, found[p], "loop"),
               sessions' = [sessions EXCEPT ![p] = s]
        PROVE  RefInv'
    <3>1. /\ run' = [run EXCEPT ![s] = "loop"] /\ proc' = [proc EXCEPT ![s] = p] /\ lock' = s
          /\ run[s] \in {"none", "ended"} /\ \A q \in Procs : sessions[q] # s
          /\ \A h \in Threads : req[h].session # s
      BY <2>3 DEF Create, Goto, Unused, Free
    <3>2. \A h \in Threads : ~Starting(h)
      BY <2>3 DEF RefInv, ThreadOK, Starting
    <3>3. ASSUME NEW h \in Threads PROVE ThreadOK(h)'
      BY <2>1, <3>1, <3>2 DEF RefInv, ThreadOK, Starting, TypeOK, ObjTypeOK, RunTypeOK, Requests
    <3>4. ASSUME NEW q \in Procs PROVE MapOK(q)'
      BY <2>3, <3>1 DEF RefInv, MapOK, TypeOK, ProcTypeOK, ObjTypeOK, RunTypeOK
    <3>5. OneStarter'
      BY <2>1, <3>2 DEF OneStarter, Starting
    <3> QED
      BY <3>3, <3>4, <3>5 DEF RefInv
  <2> QED
    BY <1>5, <2>2, <2>3 DEF BootLock
<1>6. ASSUME NEW p \in Procs, Restore(p)
      PROVE  RefInv'
  <2>1. \A g \in Threads : /\ req[g].session \in Sessions \union {0} /\ req[g].proc \in Procs
                          /\ ThreadOK(g)
    BY Named DEF RefInv
  <2>2. (\A q \in Procs : MapOK(q) /\ sessions[q] \in Sessions \union {0}) /\ OneStarter
    BY DEF RefInv, TypeOK, ProcTypeOK
  <2>3. ASSUME NEW g \in Threads PROVE ThreadOK(g)'
    <3>1. CASE g = p
      BY <1>6, <2>1, <2>2, <3>1 DEF Restore, dbVars, objVars, runVars, countVars,
         KeepSessions, TypeOK, DbTypeOK, ProcTypeOK, ObjTypeOK, RunTypeOK, ThreadOK,
         MapOK, OneStarter, Starting, Threads, Requests, Live, Running, Waiting
    <3>2. CASE g # p
      BY <1>6, <2>1, <2>2, <3>2 DEF Restore, dbVars, objVars, runVars, countVars,
         KeepSessions, TypeOK, DbTypeOK, ProcTypeOK, ObjTypeOK, RunTypeOK, ThreadOK,
         MapOK, OneStarter, Starting, Threads, Requests, Live, Running, Waiting
    <3> QED
      BY <3>1, <3>2
  <2>4. ASSUME NEW q \in Procs PROVE MapOK(q)'
    BY <1>6, <2>1, <2>2 DEF Restore, dbVars, objVars, runVars, countVars, KeepSessions,
       TypeOK, DbTypeOK, ProcTypeOK, ObjTypeOK, RunTypeOK, ThreadOK, MapOK, OneStarter,
       Starting, Threads, Requests, Live, Running, Waiting
  <2>5. OneStarter'
    <3>1. ASSUME NEW g \in Threads PROVE Starting(g)' => Starting(g)
      BY <1>6 DEF Restore, TypeOK, Starting, Requests
    <3> QED
      BY <3>1, <2>2 DEF OneStarter
  <2> QED
    BY <2>3, <2>4, <2>5 DEF RefInv
<1>7. ASSUME NEW p \in Procs, Shutdown(p)
      PROVE  RefInv'
  BY <1>7 DEF Shutdown, dbVars, procVars, runVars, countVars, TypeOK, ProcTypeOK,
     ObjTypeOK, RunTypeOK, RefInv, ThreadOK, MapOK, OneStarter, Sessions, Threads,
     Requests, Starting
<1>8. ASSUME NEW p \in Procs, Exit(p)
      PROVE  RefInv'
  <2>1. \A g \in Threads : /\ req[g].session \in Sessions \union {0} /\ req[g].proc \in Procs
                          /\ ThreadOK(g)
    BY Named DEF RefInv
  <2>2. (\A q \in Procs : MapOK(q) /\ sessions[q] \in Sessions \union {0}) /\ OneStarter
    BY DEF RefInv, TypeOK, ProcTypeOK
  <2>3. ASSUME NEW g \in Threads PROVE ThreadOK(g)'
    BY <1>8, <2>1, <2>2, RestType, RestProc, SomeProcType DEF Exit, countVars, TypeOK,
       DbTypeOK, ProcTypeOK, ObjTypeOK, RunTypeOK, ThreadOK, MapOK, OneStarter, Starting,
       Threads, Requests, Live, Running, Waiting
  <2>4. ASSUME NEW q \in Procs PROVE MapOK(q)'
    BY <1>8, <2>1, <2>2, RestType, RestProc, SomeProcType DEF Exit, countVars, TypeOK,
       DbTypeOK, ProcTypeOK, ObjTypeOK, RunTypeOK, ThreadOK, MapOK, OneStarter, Starting,
       Threads, Requests, Live, Running, Waiting
  <2>5. OneStarter'
    BY <1>8, <2>1, <2>2, RestType, RestProc, SomeProcType DEF Exit, countVars, TypeOK,
       DbTypeOK, ProcTypeOK, ObjTypeOK, RunTypeOK, ThreadOK, MapOK, OneStarter, Starting,
       Threads, Requests, Live, Running, Waiting
  <2> QED
    BY <2>3, <2>4, <2>5 DEF RefInv
<1>9. ASSUME NEW h \in Handlers, NEW p \in Procs, NEW o \in Operations, Begin(h, p, o)
      PROVE  RefInv'
  BY <1>9, SessionAssumption DEF Begin, First, dbVars, procVars, objVars, runVars,
     KeepSessions, TypeOK, ProcTypeOK, ObjTypeOK, RunTypeOK, RefInv, ThreadOK, MapOK,
     OneStarter, Sessions, Threads, Requests, Starting
<1>10. ASSUME NEW h \in Threads, Drop(h)
      PROVE  RefInv'
  <2>1. \A g \in Threads : /\ req[g].session \in Sessions \union {0} /\ req[g].proc \in Procs
                          /\ ThreadOK(g)
    BY Named DEF RefInv
  <2>2. (\A q \in Procs : MapOK(q) /\ sessions[q] \in Sessions \union {0}) /\ OneStarter
    BY DEF RefInv, TypeOK, ProcTypeOK
  <2>3. ASSUME NEW g \in Threads PROVE ThreadOK(g)'
    <3>1. CASE g = h
      BY <1>10, <2>1, <2>2, <3>1 DEF Drop, Step, dbVars, procVars, objVars, runVars,
         countVars, KeepSessions, TypeOK, DbTypeOK, ProcTypeOK, ObjTypeOK, RunTypeOK,
         ThreadOK, MapOK, OneStarter, Starting, Threads, Requests, Live, Running, Waiting
    <3>2. CASE g # h
      BY <1>10, <2>1, <2>2, <3>2 DEF Drop, Step, dbVars, procVars, objVars, runVars,
         countVars, KeepSessions, TypeOK, DbTypeOK, ProcTypeOK, ObjTypeOK, RunTypeOK,
         ThreadOK, MapOK, OneStarter, Starting, Threads, Requests, Live, Running, Waiting
    <3> QED
      BY <3>1, <3>2
  <2>4. ASSUME NEW q \in Procs PROVE MapOK(q)'
    BY <1>10, <2>1, <2>2 DEF Drop, Step, dbVars, procVars, objVars, runVars, countVars,
       KeepSessions, TypeOK, DbTypeOK, ProcTypeOK, ObjTypeOK, RunTypeOK, ThreadOK, MapOK,
       OneStarter, Starting, Threads, Requests, Live, Running, Waiting
  <2>5. OneStarter'
    BY <1>10, <2>1, <2>2 DEF Drop, Step, dbVars, procVars, objVars, runVars, countVars,
       KeepSessions, TypeOK, DbTypeOK, ProcTypeOK, ObjTypeOK, RunTypeOK, ThreadOK, MapOK,
       OneStarter, Starting, Threads, Requests, Live, Running, Waiting
  <2> QED
    BY <2>3, <2>4, <2>5 DEF RefInv
<1>11. ASSUME NEW h \in Threads, Discard(h)
      PROVE  RefInv'
  BY <1>11 DEF Discard, FreeLock, procVars, runVars, countVars, TypeOK, ProcTypeOK,
     ObjTypeOK, RunTypeOK, RefInv, ThreadOK, MapOK, OneStarter, Sessions, Threads,
     Requests, Starting
<1>12. ASSUME NEW h \in Threads, Get(h)
      PROVE  RefInv'
  <2>1. \A g \in Threads : /\ req[g].session \in Sessions \union {0} /\ req[g].proc \in Procs
                          /\ ThreadOK(g)
    BY Named DEF RefInv
  <2>2. (\A q \in Procs : MapOK(q) /\ sessions[q] \in Sessions \union {0}) /\ OneStarter
    BY DEF RefInv, TypeOK, ProcTypeOK
  <2>3. ASSUME NEW g \in Threads PROVE ThreadOK(g)'
    <3>1. CASE g = h
      <4>1. req' = [req EXCEPT ![h].pc = "lock"] \/ req' = [req EXCEPT ![h] = Rest(h)]
        BY <1>12 DEF Get, Done, Step
      <4>2. CASE req' = [req EXCEPT ![h].pc = "lock"]
        BY <1>12, <2>1, <2>2, <3>1, <4>2 DEF Get, dbVars, runVars, countVars, TypeOK,
           ProcTypeOK, ThreadOK, MapOK, Starting, Requests
      <4>3. CASE req' = [req EXCEPT ![h] = Rest(h)]
        BY <2>1, <3>1, <4>3, RestType, RestProc DEF TypeOK, ThreadOK, Starting
      <4> QED
        BY <4>1, <4>2, <4>3
    <3>2. CASE g # h
      BY <1>12, <2>1, <2>2, RestType, RestProc, <3>2 DEF Get, Step, Done, Configure,
         dbVars, runVars, countVars, TypeOK, DbTypeOK, ProcTypeOK, ObjTypeOK, RunTypeOK,
         ThreadOK, MapOK, OneStarter, Starting, Threads, Requests, Live, Running, Waiting
    <3> QED
      BY <3>1, <3>2
  <2>4. ASSUME NEW q \in Procs PROVE MapOK(q)'
    BY <1>12, <2>1, <2>2, RestType, RestProc DEF Get, Step, Done, Configure, dbVars,
       runVars, countVars, TypeOK, DbTypeOK, ProcTypeOK, ObjTypeOK, RunTypeOK, ThreadOK,
       MapOK, OneStarter, Starting, Threads, Requests, Live, Running, Waiting
  <2>5. OneStarter'
    <3>1. ASSUME NEW g \in Threads, g # h PROVE req'[g] = req[g]
      <4>1. req' = [req EXCEPT ![h].pc = "lock"] \/ req' = [req EXCEPT ![h] = Rest(h)]
        BY <1>12 DEF Get, Done, Step
      <4> QED
        BY <3>1, <4>1 DEF TypeOK
    <3>2. ~Starting(h)'
      BY <1>12, <2>1, <2>2, RestType, RestProc DEF Get, Done, Step, TypeOK, Starting,
         Requests
    <3> QED
      BY <3>1, <3>2, <2>2 DEF OneStarter, Starting
  <2> QED
    BY <2>3, <2>4, <2>5 DEF RefInv
<1>13. ASSUME NEW h \in Threads, Lock(h)
      PROVE  RefInv'
  <2>1. \A g \in Threads : /\ req[g].session \in Sessions \union {0} /\ req[g].proc \in Procs
                          /\ ThreadOK(g)
    BY Named DEF RefInv
  <2>2. (\A q \in Procs : MapOK(q) /\ sessions[q] \in Sessions \union {0}) /\ OneStarter
    BY DEF RefInv, TypeOK, ProcTypeOK
  <2>3. ASSUME NEW g \in Threads PROVE ThreadOK(g)'
    <3>1. CASE g = h
      BY <1>13, <2>1, <2>2, RestType, RestProc, <3>1 DEF Lock, Create, Unused, Free, Done,
         dbVars, objVars, runVars, countVars, KeepSessions, TypeOK, DbTypeOK, ProcTypeOK,
         ObjTypeOK, RunTypeOK, ThreadOK, MapOK, OneStarter, Starting, Threads, Requests,
         Live, Running, Waiting
    <3>2. CASE g # h
      BY <1>13, <2>1, <2>2, RestType, RestProc, <3>2 DEF Lock, Create, Unused, Free, Done,
         dbVars, objVars, runVars, countVars, KeepSessions, TypeOK, DbTypeOK, ProcTypeOK,
         ObjTypeOK, RunTypeOK, ThreadOK, MapOK, OneStarter, Starting, Threads, Requests,
         Live, Running, Waiting
    <3> QED
      BY <3>1, <3>2
  <2>4. ASSUME NEW q \in Procs PROVE MapOK(q)'
    BY <1>13, <2>1, <2>2, RestType, RestProc DEF Lock, Create, Unused, Free, Done, dbVars,
       objVars, runVars, countVars, KeepSessions, TypeOK, DbTypeOK, ProcTypeOK, ObjTypeOK,
       RunTypeOK, ThreadOK, MapOK, OneStarter, Starting, Threads, Requests, Live, Running,
       Waiting
  <2>5. OneStarter'
    <3>1. ASSUME NEW g \in Threads, g # h PROVE req'[g] = req[g]
      <4>1. \/ req' = [req EXCEPT ![h] = Rest(h)]
            \/ \E s \in Sessions : req' = [req EXCEPT ![h].pc = "look", ![h].session = s]
        BY <1>13 DEF Lock, Done
      <4> QED
        BY <3>1, <4>1 DEF TypeOK
    <3>2. CASE lock = 0
      BY <3>1, <3>2, <2>1, <2>2 DEF OneStarter, Starting, ThreadOK
    <3>3. CASE lock # 0
      <4>1. req'[h] = Rest(h)
        BY <1>13, <3>3 DEF Lock, Done, TypeOK
      <4> QED
        BY <4>1, <3>1, <2>2, RestType DEF OneStarter, Starting
    <3> QED
      BY <3>2, <3>3, <2>1 DEF TypeOK, DbTypeOK
  <2> QED
    BY <2>3, <2>4, <2>5 DEF RefInv
<1>14. ASSUME NEW h \in Threads, Look(h)
      PROVE  RefInv'
  BY <1>14 DEF Look, Step, Mapped, dbVars, procVars, runVars, countVars, TypeOK,
     ProcTypeOK, ObjTypeOK, RunTypeOK, RefInv, ThreadOK, MapOK, OneStarter, Sessions,
     Threads, Requests, Starting
<1>15. ASSUME NEW h \in Threads, LookFails(h)
      PROVE  RefInv'
  BY <1>15, RestType, RestProc DEF LookFails, Happens, Done, Goto, FreeLock, objVars,
     TypeOK, ProcTypeOK, ObjTypeOK, RunTypeOK, RefInv, ThreadOK, MapOK, OneStarter,
     Sessions, Threads, Requests, Starting
<1>16. ASSUME NEW h \in Threads, Install(h)
      PROVE  RefInv'
  <2>1. \A g \in Threads : /\ req[g].session \in Sessions \union {0} /\ req[g].proc \in Procs
                          /\ ThreadOK(g)
    BY Named DEF RefInv
  <2>2. (\A q \in Procs : MapOK(q) /\ sessions[q] \in Sessions \union {0}) /\ OneStarter
    BY DEF RefInv, TypeOK, ProcTypeOK
  <2>3. ASSUME NEW g \in Threads PROVE ThreadOK(g)'
    <3>1. CASE g = h
      BY <1>16, <2>1, <2>2, RestType, RestProc, <3>1 DEF Install, Done, Configure, Goto,
         FreeLock, countVars, TypeOK, DbTypeOK, ProcTypeOK, ObjTypeOK, RunTypeOK,
         ThreadOK, MapOK, OneStarter, Starting, Threads, Requests, Live, Running, Waiting
    <3>2. CASE g # h
      BY <1>16, <2>1, <2>2, RestType, RestProc, <3>2 DEF Install, Done, Configure, Goto,
         FreeLock, countVars, TypeOK, DbTypeOK, ProcTypeOK, ObjTypeOK, RunTypeOK,
         ThreadOK, MapOK, OneStarter, Starting, Threads, Requests, Live, Running, Waiting
    <3> QED
      BY <3>1, <3>2
  <2>4. ASSUME NEW q \in Procs PROVE MapOK(q)'
    BY <1>16, <2>1, <2>2, RestType, RestProc DEF Install, Done, Configure, Goto, FreeLock,
       countVars, TypeOK, DbTypeOK, ProcTypeOK, ObjTypeOK, RunTypeOK, ThreadOK, MapOK,
       OneStarter, Starting, Threads, Requests, Live, Running, Waiting
  <2>5. OneStarter'
    BY <1>16, <2>1, <2>2, RestType, RestProc DEF Install, Done, Configure, Goto, FreeLock,
       countVars, TypeOK, DbTypeOK, ProcTypeOK, ObjTypeOK, RunTypeOK, ThreadOK, MapOK,
       OneStarter, Starting, Threads, Requests, Live, Running, Waiting
  <2> QED
    BY <2>3, <2>4, <2>5 DEF RefInv
<1>17. ASSUME NEW h \in Threads, Mark(h)
      PROVE  RefInv'
  BY <1>17 DEF Mark, Step, dbVars, procVars, runVars, countVars, TypeOK, ProcTypeOK,
     ObjTypeOK, RunTypeOK, RefInv, ThreadOK, MapOK, OneStarter, Sessions, Threads,
     Requests, Starting
<1>18. ASSUME NEW h \in Threads, Unlink(h)
      PROVE  RefInv'
  <2>1. \A g \in Threads : /\ req[g].session \in Sessions \union {0} /\ req[g].proc \in Procs
                          /\ ThreadOK(g)
    BY Named DEF RefInv
  <2>2. (\A q \in Procs : MapOK(q) /\ sessions[q] \in Sessions \union {0}) /\ OneStarter
    BY DEF RefInv, TypeOK, ProcTypeOK
  <2>3. ASSUME NEW g \in Threads PROVE ThreadOK(g)'
    <3>1. CASE g = h
      BY <1>18, <2>1, <2>2, <3>1 DEF Unlink, Step, procVars, countVars, TypeOK, DbTypeOK,
         ProcTypeOK, ObjTypeOK, RunTypeOK, ThreadOK, MapOK, OneStarter, Starting, Threads,
         Requests, Live, Running, Waiting
    <3>2. CASE g # h
      BY <1>18, <2>1, <2>2, <3>2 DEF Unlink, Step, procVars, countVars, TypeOK, DbTypeOK,
         ProcTypeOK, ObjTypeOK, RunTypeOK, ThreadOK, MapOK, OneStarter, Starting, Threads,
         Requests, Live, Running, Waiting
    <3> QED
      BY <3>1, <3>2
  <2>4. ASSUME NEW q \in Procs PROVE MapOK(q)'
    BY <1>18, <2>1, <2>2 DEF Unlink, Step, procVars, countVars, TypeOK, DbTypeOK,
       ProcTypeOK, ObjTypeOK, RunTypeOK, ThreadOK, MapOK, OneStarter, Starting, Threads,
       Requests, Live, Running, Waiting
  <2>5. OneStarter'
    BY <1>18, <2>1, <2>2 DEF Unlink, Step, procVars, countVars, TypeOK, DbTypeOK,
       ProcTypeOK, ObjTypeOK, RunTypeOK, ThreadOK, MapOK, OneStarter, Starting, Threads,
       Requests, Live, Running, Waiting
  <2> QED
    BY <2>3, <2>4, <2>5 DEF RefInv
<1>19. ASSUME NEW h \in Threads, ResetFails(h)
      PROVE  RefInv'
  <2>1. \A g \in Threads : /\ req[g].session \in Sessions \union {0} /\ req[g].proc \in Procs
                          /\ ThreadOK(g)
    BY Named DEF RefInv
  <2>2. (\A q \in Procs : MapOK(q) /\ sessions[q] \in Sessions \union {0}) /\ OneStarter
    BY DEF RefInv, TypeOK, ProcTypeOK
  <2>3. ASSUME NEW g \in Threads PROVE ThreadOK(g)'
    <3>1. CASE g = h
      BY <1>19, <2>1, <2>2, <3>1 DEF ResetFails, Happens, Cancel, Step, dbVars, procVars,
         TypeOK, DbTypeOK, ProcTypeOK, ObjTypeOK, RunTypeOK, ThreadOK, MapOK, OneStarter,
         Starting, Threads, Requests, Live, Running, Waiting
    <3>2. CASE g # h
      BY <1>19, <2>1, <2>2, <3>2 DEF ResetFails, Happens, Cancel, Step, dbVars, procVars,
         TypeOK, DbTypeOK, ProcTypeOK, ObjTypeOK, RunTypeOK, ThreadOK, MapOK, OneStarter,
         Starting, Threads, Requests, Live, Running, Waiting
    <3> QED
      BY <3>1, <3>2
  <2>4. ASSUME NEW q \in Procs PROVE MapOK(q)'
    BY <1>19, <2>1, <2>2 DEF ResetFails, Happens, Cancel, Step, dbVars, procVars, TypeOK,
       DbTypeOK, ProcTypeOK, ObjTypeOK, RunTypeOK, ThreadOK, MapOK, OneStarter, Starting,
       Threads, Requests, Live, Running, Waiting
  <2>5. OneStarter'
    BY <1>19, <2>1, <2>2 DEF ResetFails, Happens, Cancel, Step, dbVars, procVars, TypeOK,
       DbTypeOK, ProcTypeOK, ObjTypeOK, RunTypeOK, ThreadOK, MapOK, OneStarter, Starting,
       Threads, Requests, Live, Running, Waiting
  <2> QED
    BY <2>3, <2>4, <2>5 DEF RefInv
<1>20. ASSUME NEW h \in Threads, Wipe(h)
      PROVE  RefInv'
  BY <1>20 DEF Wipe, Cancel, Step, dbVars, procVars, TypeOK, ProcTypeOK, ObjTypeOK,
     RunTypeOK, RefInv, ThreadOK, MapOK, OneStarter, Sessions, Threads, Requests, Starting
<1>21. ASSUME NEW h \in Threads, Stop(h)
      PROVE  RefInv'
  <2>1. \A g \in Threads : /\ req[g].session \in Sessions \union {0} /\ req[g].proc \in Procs
                          /\ ThreadOK(g)
    BY Named DEF RefInv
  <2>2. (\A q \in Procs : MapOK(q) /\ sessions[q] \in Sessions \union {0}) /\ OneStarter
    BY DEF RefInv, TypeOK, ProcTypeOK
  <2>3. ASSUME NEW g \in Threads PROVE ThreadOK(g)'
    <3>1. CASE g = h
      BY <1>21, <2>1, <2>2, <3>1 DEF Stop, Cancel, Step, dbVars, procVars, TypeOK,
         DbTypeOK, ProcTypeOK, ObjTypeOK, RunTypeOK, ThreadOK, MapOK, OneStarter,
         Starting, Threads, Requests, Live, Running, Waiting
    <3>2. CASE g # h
      BY <1>21, <2>1, <2>2, <3>2 DEF Stop, Cancel, Step, dbVars, procVars, TypeOK,
         DbTypeOK, ProcTypeOK, ObjTypeOK, RunTypeOK, ThreadOK, MapOK, OneStarter,
         Starting, Threads, Requests, Live, Running, Waiting
    <3> QED
      BY <3>1, <3>2
  <2>4. ASSUME NEW q \in Procs PROVE MapOK(q)'
    BY <1>21, <2>1, <2>2 DEF Stop, Cancel, Step, dbVars, procVars, TypeOK, DbTypeOK,
       ProcTypeOK, ObjTypeOK, RunTypeOK, ThreadOK, MapOK, OneStarter, Starting, Threads,
       Requests, Live, Running, Waiting
  <2>5. OneStarter'
    BY <1>21, <2>1, <2>2 DEF Stop, Cancel, Step, dbVars, procVars, TypeOK, DbTypeOK,
       ProcTypeOK, ObjTypeOK, RunTypeOK, ThreadOK, MapOK, OneStarter, Starting, Threads,
       Requests, Live, Running, Waiting
  <2> QED
    BY <2>3, <2>4, <2>5 DEF RefInv
<1>22. ASSUME NEW h \in Threads, Clear(h)
      PROVE  RefInv'
  BY <1>22 DEF Clear, Step, Happens, procVars, runVars, TypeOK, ProcTypeOK, ObjTypeOK,
     RunTypeOK, RefInv, ThreadOK, MapOK, OneStarter, Sessions, Threads, Requests, Starting
<1>23. ASSUME NEW h \in Threads, Remove(h)
      PROVE  RefInv'
  <2>1. \A g \in Threads : /\ req[g].session \in Sessions \union {0} /\ req[g].proc \in Procs
                          /\ ThreadOK(g)
    BY Named DEF RefInv
  <2>2. (\A q \in Procs : MapOK(q) /\ sessions[q] \in Sessions \union {0}) /\ OneStarter
    BY DEF RefInv, TypeOK, ProcTypeOK
  <2>3. ASSUME NEW g \in Threads PROVE ThreadOK(g)'
    <3>1. CASE g = h
      <4>1. req' = [req EXCEPT ![h].pc = "unmap"] \/ req' = [req EXCEPT ![h] = Rest(h)]
        BY <1>23 DEF Remove, Done, Step
      <4>2. CASE req' = [req EXCEPT ![h].pc = "unmap"]
        BY <1>23, <2>1, <2>2, <3>1, <4>2 DEF Remove, objVars, runVars, countVars,
           KeepSessions, TypeOK, ProcTypeOK, ThreadOK, MapOK, Starting, Requests
      <4>3. CASE req' = [req EXCEPT ![h] = Rest(h)]
        BY <2>1, <3>1, <4>3, RestType, RestProc DEF TypeOK, ThreadOK, Starting
      <4> QED
        BY <4>1, <4>2, <4>3
    <3>2. CASE g # h
      BY <1>23, <2>1, <2>2, RestType, RestProc, <3>2 DEF Remove, Step, Done, objVars,
         runVars, countVars, KeepSessions, TypeOK, DbTypeOK, ProcTypeOK, ObjTypeOK,
         RunTypeOK, ThreadOK, MapOK, OneStarter, Starting, Threads, Requests, Live,
         Running, Waiting
    <3> QED
      BY <3>1, <3>2
  <2>4. ASSUME NEW q \in Procs PROVE MapOK(q)'
    BY <1>23, <2>1, <2>2, RestType, RestProc DEF Remove, Step, Done, objVars, runVars,
       countVars, KeepSessions, TypeOK, DbTypeOK, ProcTypeOK, ObjTypeOK, RunTypeOK,
       ThreadOK, MapOK, OneStarter, Starting, Threads, Requests, Live, Running, Waiting
  <2>5. OneStarter'
    <3>1. ASSUME NEW g \in Threads, g # h PROVE req'[g] = req[g]
      <4>1. req' = [req EXCEPT ![h].pc = "unmap"] \/ req' = [req EXCEPT ![h] = Rest(h)]
        BY <1>23 DEF Remove, Done, Step
      <4> QED
        BY <3>1, <4>1 DEF TypeOK
    <3>2. ~Starting(h)'
      BY <1>23, <2>1, <2>2, RestType, RestProc DEF Remove, Done, Step, TypeOK, Starting,
         Requests
    <3> QED
      BY <3>1, <3>2, <2>2 DEF OneStarter, Starting
  <2> QED
    BY <2>3, <2>4, <2>5 DEF RefInv
<1>24. ASSUME NEW h \in Threads, Unmap(h)
      PROVE  RefInv'
  <2>1. \A g \in Threads : /\ req[g].session \in Sessions \union {0} /\ req[g].proc \in Procs
                          /\ ThreadOK(g)
    BY Named DEF RefInv
  <2>2. (\A q \in Procs : MapOK(q) /\ sessions[q] \in Sessions \union {0}) /\ OneStarter
    BY DEF RefInv, TypeOK, ProcTypeOK
  <2>3. ASSUME NEW g \in Threads PROVE ThreadOK(g)'
    <3>1. CASE g = h
      <4>1. req' = [req EXCEPT ![h].pc = "wipe"] \/ req' = [req EXCEPT ![h] = Rest(h)]
        BY <1>24 DEF Unmap, Done, Step
      <4>2. CASE req' = [req EXCEPT ![h].pc = "wipe"]
        BY <1>24, <2>1, <2>2, <3>1, <4>2 DEF Unmap, objVars, runVars, countVars,
           KeepSessions, TypeOK, ProcTypeOK, ThreadOK, MapOK, Starting, Requests
      <4>3. CASE req' = [req EXCEPT ![h] = Rest(h)]
        BY <2>1, <3>1, <4>3, RestType, RestProc DEF TypeOK, ThreadOK, Starting
      <4> QED
        BY <4>1, <4>2, <4>3
    <3>2. CASE g # h
      BY <1>24, <2>1, <2>2, RestType, RestProc, <3>2 DEF Unmap, Step, Done, objVars,
         runVars, countVars, KeepSessions, TypeOK, DbTypeOK, ProcTypeOK, ObjTypeOK,
         RunTypeOK, ThreadOK, MapOK, OneStarter, Starting, Threads, Requests, Live,
         Running, Waiting
    <3> QED
      BY <3>1, <3>2
  <2>4. ASSUME NEW q \in Procs PROVE MapOK(q)'
    BY <1>24, <2>1, <2>2, RestType, RestProc DEF Unmap, Step, Done, objVars, runVars,
       countVars, KeepSessions, TypeOK, DbTypeOK, ProcTypeOK, ObjTypeOK, RunTypeOK,
       ThreadOK, MapOK, OneStarter, Starting, Threads, Requests, Live, Running, Waiting
  <2>5. OneStarter'
    <3>1. ASSUME NEW g \in Threads, g # h PROVE req'[g] = req[g]
      <4>1. req' = [req EXCEPT ![h].pc = "wipe"] \/ req' = [req EXCEPT ![h] = Rest(h)]
        BY <1>24 DEF Unmap, Done, Step
      <4> QED
        BY <3>1, <4>1 DEF TypeOK
    <3>2. ~Starting(h)'
      BY <1>24, <2>1, <2>2, RestType, RestProc DEF Unmap, Done, Step, TypeOK, Starting,
         Requests
    <3> QED
      BY <3>1, <3>2, <2>2 DEF OneStarter, Starting
  <2> QED
    BY <2>3, <2>4, <2>5 DEF RefInv
<1>25. ASSUME NEW h \in Threads, Cold(h)
      PROVE  RefInv'
  BY <1>25 DEF Cold, Mapped, dbVars, procVars, objVars, runVars, countVars, KeepSessions,
     TypeOK, ProcTypeOK, ObjTypeOK, RunTypeOK, RefInv, ThreadOK, MapOK, OneStarter,
     Sessions, Threads, Requests, Starting
<1>26. ASSUME NEW h \in Threads, Erase(h)
      PROVE  RefInv'
  BY <1>26 DEF Erase, Step, Happens, procVars, objVars, runVars, KeepSessions, TypeOK,
     ProcTypeOK, ObjTypeOK, RunTypeOK, RefInv, ThreadOK, MapOK, OneStarter, Sessions,
     Threads, Requests, Starting
<1>27. ASSUME NEW h \in Threads, Forget(h)
      PROVE  RefInv'
  BY <1>27, RestType, RestProc DEF Forget, Done, objVars, runVars, countVars,
     KeepSessions, TypeOK, ProcTypeOK, ObjTypeOK, RunTypeOK, RefInv, ThreadOK, MapOK,
     OneStarter, Sessions, Threads, Requests, Starting
<1>28. ASSUME NEW h \in Threads, CallFails(h)
      PROVE  RefInv'
  BY <1>28, RestType, RestProc DEF CallFails, Happens, Done, dbVars, objVars, runVars,
     KeepSessions, TypeOK, ProcTypeOK, ObjTypeOK, RunTypeOK, RefInv, ThreadOK, MapOK,
     OneStarter, Sessions, Threads, Requests, Starting
<1>29. ASSUME NEW s \in Sessions, Dial(s)
      PROVE  RefInv'
  BY <1>29 DEF Dial, Goto, SetStatus, Shown, dbVars, procVars, KeepOthers, TypeOK,
     RunTypeOK, RefInv, ThreadOK, MapOK, OneStarter, Starting, Live, Running, Waiting
<1>30. ASSUME NEW s \in Sessions, Connect(s)
      PROVE  RefInv'
  <2>1. /\ run' = [run EXCEPT ![s] = run'[s]] /\ run[s] = "dial" /\ run'[s] \in Live
        /\ UNCHANGED <<req, boot, proc, lock, sessions>>
    BY <1>30 DEF Connect, Goto, KeepOthers, dbVars, procVars, objVars, TypeOK, RunTypeOK, Live,
       Running, Waiting
  <2>2. ASSUME NEW t \in Sessions
        PROVE  /\ run'[t] = "starting" <=> run[t] = "starting"
               /\ run'[t] = "none" <=> run[t] = "none"
    BY <2>1 DEF TypeOK, RunTypeOK, Live, Running, Waiting
  <2> QED
    BY <2>1, <2>2, Named DEF RefInv, ThreadOK, MapOK, OneStarter, Starting, TypeOK, ProcTypeOK
<1>31. ASSUME NEW s \in Sessions, SeeCancel(s)
      PROVE  RefInv'
  BY <1>31 DEF SeeCancel, Goto, dbVars, procVars, objVars, KeepOthers, TypeOK, RunTypeOK,
     RefInv, ThreadOK, MapOK, OneStarter, Starting, Live, Running, Waiting
<1>32. ASSUME NEW s \in Sessions, Leave(s)
      PROVE  RefInv'
  BY <1>32 DEF Leave, Goto, FreeLock, procVars, objVars, KeepOthers, TypeOK, RunTypeOK,
     RefInv, ThreadOK, MapOK, OneStarter, Starting, Live, Running, Waiting
<1>33. ASSUME NEW s \in Sessions, PairDone(s)
      PROVE  RefInv'
  BY <1>33 DEF PairDone, Goto, procVars, TypeOK, RunTypeOK, RefInv, ThreadOK, MapOK,
     OneStarter, Starting, Live, Running, Waiting
<1>34. ASSUME NEW s \in Sessions, PairTimeout(s)
      PROVE  RefInv'
  BY <1>34 DEF PairTimeout, Goto, dbVars, procVars, KeepOthers, TypeOK, RunTypeOK, RefInv,
     ThreadOK, MapOK, OneStarter, Starting, Live, Running, Waiting
<1>35. ASSUME NEW s \in Sessions, PairFails(s)
      PROVE  RefInv'
  BY <1>35 DEF PairFails, Goto, Happens, dbVars, procVars, KeepOthers, TypeOK, RunTypeOK,
     RefInv, ThreadOK, MapOK, OneStarter, Starting, Live, Running, Waiting
<1>36. ASSUME NEW s \in Sessions, Opens(s)
      PROVE  RefInv'
  BY <1>36 DEF Opens, dbVars, procVars, objVars, KeepOthers, TypeOK, RunTypeOK, RefInv,
     ThreadOK, MapOK, OneStarter, Starting, Live, Running, Waiting
<1>37. ASSUME NEW s \in Sessions, Closes(s)
      PROVE  RefInv'
  BY <1>37 DEF Closes, Happens, dbVars, procVars, objVars, KeepOthers, TypeOK, RunTypeOK,
     RefInv, ThreadOK, MapOK, OneStarter, Starting, Live, Running, Waiting
<1>38. ASSUME NEW s \in Sessions, Panic(s)
      PROVE  RefInv'
  BY <1>38 DEF Panic, Goto, Happens, SetStatus, Shown, FreeLock, procVars, TypeOK,
     RunTypeOK, RefInv, ThreadOK, MapOK, OneStarter, Starting, Live, Running, Waiting
<1>39. ASSUME NEW s \in Sessions, BeatRead(s)
      PROVE  RefInv'
  BY <1>39 DEF BeatRead, Happens, dbVars, procVars, objVars, KeepOthers, TypeOK,
     RunTypeOK, RefInv, ThreadOK, MapOK, OneStarter, Starting, Live, Running, Waiting
<1>40. ASSUME NEW s \in Sessions, BeatWrite(s)
      PROVE  RefInv'
  BY <1>40 DEF BeatWrite, SetStatus, Shown, dbVars, procVars, KeepOthers, TypeOK,
     RunTypeOK, RefInv, ThreadOK, MapOK, OneStarter, Starting, Live, Running, Waiting
<1>41. ASSUME NEW s \in Sessions, Hello(s)
      PROVE  RefInv'
  BY <1>41 DEF Hello, Handled, SetStatus, Shown, dbVars, procVars, KeepOthers, TypeOK,
     RunTypeOK, RefInv, ThreadOK, MapOK, OneStarter, Starting, Live, Running, Waiting
<1>42. ASSUME NEW s \in Sessions, SaveDevice(s)
      PROVE  RefInv'
  BY <1>42 DEF SaveDevice, Phase, Happens, procVars, objVars, KeepOthers, TypeOK,
     RunTypeOK, RefInv, ThreadOK, MapOK, OneStarter, Starting, Live, Running, Waiting
<1>43. ASSUME NEW s \in Sessions, Paired(s)
      PROVE  RefInv'
  BY <1>43 DEF Paired, Handled, SetStatus, Shown, dbVars, procVars, KeepOthers, TypeOK,
     RunTypeOK, RefInv, ThreadOK, MapOK, OneStarter, Starting, Live, Running, Waiting
<1>44. ASSUME NEW s \in Sessions, Down(s)
      PROVE  RefInv'
  BY <1>44 DEF Down, Handled, SetStatus, Shown, WakeLoop, Goto, dbVars, procVars,
     KeepOthers, TypeOK, RunTypeOK, RefInv, ThreadOK, MapOK, OneStarter, Starting, Live,
     Running, Waiting
<1>45. ASSUME NEW s \in Sessions, LoggedOut(s)
      PROVE  RefInv'
  BY <1>45 DEF LoggedOut, Phase, SetStatus, Shown, dbVars, procVars, KeepOthers, TypeOK,
     RunTypeOK, RefInv, ThreadOK, MapOK, OneStarter, Starting, Live, Running, Waiting
<1>46. ASSUME NEW s \in Sessions, ClearDevice(s)
      PROVE  RefInv'
  BY <1>46 DEF ClearDevice, Phase, Happens, procVars, KeepOthers, TypeOK, RunTypeOK,
     RefInv, ThreadOK, MapOK, OneStarter, Starting, Live, Running, Waiting
<1>47. ASSUME NEW s \in Sessions, ForgetDevice(s)
      PROVE  RefInv'
  BY <1>47 DEF ForgetDevice, Phase, Happens, procVars, objVars, KeepOthers, TypeOK,
     RunTypeOK, RefInv, ThreadOK, MapOK, OneStarter, Starting, Live, Running, Waiting
<1>48. ASSUME NEW s \in Sessions, DropDevice(s)
      PROVE  RefInv'
  BY <1>48 DEF DropDevice, Handled, WakeLoop, Goto, dbVars, procVars, KeepOthers, TypeOK,
     RunTypeOK, RefInv, ThreadOK, MapOK, OneStarter, Starting, Live, Running, Waiting
<1>49. ASSUME NEW p \in Procs, BootFails(p)
      PROVE  RefInv'
  BY <1>49 DEF BootFails, Happens, dbVars, objVars, runVars, KeepSessions, TypeOK,
     ProcTypeOK, ObjTypeOK, RunTypeOK, RefInv, ThreadOK, MapOK, OneStarter, Sessions,
     Threads, Requests, Starting
<1> QED
  BY <1>1, <1>2, <1>3, <1>4, <1>5, <1>6, <1>7, <1>8, <1>9, <1>10, <1>11, <1>12, <1>13,
     <1>14, <1>15, <1>16, <1>17, <1>18, <1>19, <1>20, <1>21, <1>22, <1>23, <1>24, <1>25,
     <1>26, <1>27, <1>28, <1>29, <1>30, <1>31, <1>32, <1>33, <1>34, <1>35, <1>36, <1>37,
     <1>38, <1>39, <1>40, <1>41, <1>42, <1>43, <1>44, <1>45, <1>46, <1>47, <1>48, <1>49
     DEF Next, Main, Request, Session, Outside, Handle

(* Each step keeps the lock with a session that will release it. *)
LEMMA LeakStep ==
  ASSUME TypeOK, RefInv, LockNeverLeaks, [Next]_vars
  PROVE  LockNeverLeaks'
<1>1. CASE UNCHANGED vars
  BY <1>1 DEF vars, dbVars, procVars, objVars, runVars, countVars, KeepSessions,
     KeepOthers, LockNeverLeaks
<1>2. ASSUME NEW p \in Procs, Start(p)
      PROVE  LockNeverLeaks'
  BY <1>2 DEF Start, dbVars, objVars, runVars, KeepSessions, TypeOK, DbTypeOK, ObjTypeOK,
     RunTypeOK, RefInv, ThreadOK, Starting, Requests, LockNeverLeaks
<1>3. ASSUME NEW p \in Procs, BootRead(p)
      PROVE  LockNeverLeaks'
  BY <1>3 DEF BootRead, Mapped, dbVars, objVars, runVars, countVars, KeepSessions, TypeOK,
     DbTypeOK, ObjTypeOK, RunTypeOK, RefInv, ThreadOK, Starting, Requests, LockNeverLeaks
<1>4. ASSUME NEW p \in Procs, BootUnmap(p)
      PROVE  LockNeverLeaks'
  BY <1>4 DEF BootUnmap, objVars, runVars, countVars, KeepSessions, TypeOK, DbTypeOK,
     ObjTypeOK, RunTypeOK, RefInv, ThreadOK, Starting, Requests, LockNeverLeaks
<1>5. ASSUME NEW p \in Procs, BootLock(p)
      PROVE  LockNeverLeaks'
  <2>1. /\ req' = req /\ boot' = [boot EXCEPT ![p] = "up"] /\ boot \in [Procs -> Boots]
    BY <1>5 DEF BootLock, TypeOK, ProcTypeOK
  <2>2. CASE lock # 0
    <3>1. UNCHANGED <<run, proc, lock>>
      BY <1>5, <2>2 DEF BootLock, dbVars, KeepSessions, objVars, runVars
    <3> QED
      BY <2>1, <3>1 DEF LockNeverLeaks, TypeOK, DbTypeOK, ObjTypeOK
  <2>3. ASSUME NEW s \in Sessions, Create(s, p, found[p], "loop") PROVE LockNeverLeaks'
    <3>1. run'[s] = "loop" /\ proc'[s] = p /\ lock' = s
      BY <2>3 DEF Create, Goto, TypeOK, RunTypeOK, ObjTypeOK
    <3> QED
      BY <2>1, <3>1 DEF LockNeverLeaks, Live, Running
  <2> QED
    BY <1>5, <2>2, <2>3 DEF BootLock
<1>6. ASSUME NEW p \in Procs, Restore(p)
      PROVE  LockNeverLeaks'
  BY <1>6 DEF Restore, dbVars, objVars, runVars, countVars, KeepSessions, TypeOK,
     DbTypeOK, ObjTypeOK, RunTypeOK, RefInv, ThreadOK, Starting, Requests, LockNeverLeaks
<1>7. ASSUME NEW p \in Procs, Shutdown(p)
      PROVE  LockNeverLeaks'
  BY <1>7 DEF Shutdown, dbVars, procVars, runVars, countVars, TypeOK, DbTypeOK, ObjTypeOK,
     RunTypeOK, RefInv, ThreadOK, Starting, Requests, LockNeverLeaks
<1>8. ASSUME NEW p \in Procs, Exit(p)
      PROVE  LockNeverLeaks'
  BY <1>8, RestType DEF Exit, countVars, TypeOK, DbTypeOK, ProcTypeOK, ObjTypeOK,
     RunTypeOK, RefInv, ThreadOK, MapOK, OneStarter, Sessions, Runs, Live, Running,
     Waiting, Threads, Requests, Starting, LockNeverLeaks
<1>9. ASSUME NEW h \in Handlers, NEW p \in Procs, NEW o \in Operations, Begin(h, p, o)
      PROVE  LockNeverLeaks'
  BY <1>9 DEF Begin, First, dbVars, procVars, objVars, runVars, KeepSessions, TypeOK,
     DbTypeOK, ObjTypeOK, RunTypeOK, RefInv, ThreadOK, Starting, Requests, LockNeverLeaks
<1>10. ASSUME NEW h \in Threads, Drop(h)
      PROVE  LockNeverLeaks'
  <2>1. \/ req' = [req EXCEPT ![h].pc = "get"]
        \/ req' = [req EXCEPT ![h].pc = "discard", ![h].session = sessions[req[h].proc]]
    BY <1>10 DEF Drop, Step
  <2>2. \A g \in Threads : g # h => req'[g] = req[g]
    BY <2>1 DEF TypeOK
  <2>3. req[h].pc = "drop" /\ UNCHANGED <<lock, boot, run, proc>>
    BY <1>10 DEF Drop, dbVars, procVars, KeepSessions, objVars, runVars
  <2> QED
    BY <2>2, <2>3 DEF LockNeverLeaks
<1>11. ASSUME NEW h \in Threads, Discard(h)
      PROVE  LockNeverLeaks'
  BY <1>11 DEF Discard, FreeLock, procVars, runVars, countVars, TypeOK, DbTypeOK,
     ObjTypeOK, RunTypeOK, RefInv, ThreadOK, Starting, Requests, LockNeverLeaks
<1>12. ASSUME NEW h \in Threads, Get(h)
      PROVE  LockNeverLeaks'
  BY <1>12, RestType DEF Get, Step, Done, Configure, dbVars, runVars, countVars, TypeOK,
     DbTypeOK, ObjTypeOK, RunTypeOK, RefInv, ThreadOK, Starting, Requests, LockNeverLeaks
<1>13. ASSUME NEW h \in Threads, Lock(h)
      PROVE  LockNeverLeaks'
  <2>1. req[h].pc = "lock" /\ UNCHANGED boot
    BY <1>13 DEF Lock
  <2>2. CASE lock # 0
    <3>1. UNCHANGED <<run, proc, lock>> /\ req' = [req EXCEPT ![h] = Rest(h)]
      BY <1>13, <2>2 DEF Lock, Done, dbVars, KeepSessions, objVars, runVars
    <3>2. \A g \in Threads : g # h => req'[g] = req[g]
      BY <3>1 DEF TypeOK
    <3> QED
      BY <2>1, <3>1, <3>2 DEF LockNeverLeaks
  <2>3. ASSUME NEW s \in Sessions, Create(s, req[h].proc, 0, "starting"),
               req' = [req EXCEPT ![h].pc = "look", ![h].session = s]
        PROVE  LockNeverLeaks'
    <3>1. run'[s] = "starting" /\ proc'[s] = req[h].proc /\ lock' = s
      BY <2>3 DEF Create, Goto, TypeOK, RunTypeOK, ObjTypeOK
    <3>2. req'[h].pc = "look" /\ req'[h].session = s
      BY <2>3 DEF TypeOK, Requests
    <3>3. boot[req[h].proc] = "up"
      BY <2>1 DEF RefInv, ThreadOK
    <3> QED
      BY <2>1, <3>1, <3>2, <3>3 DEF LockNeverLeaks
  <2> QED
    BY <1>13, <2>2, <2>3 DEF Lock
<1>14. ASSUME NEW h \in Threads, Look(h)
      PROVE  LockNeverLeaks'
  BY <1>14 DEF Look, Step, Mapped, dbVars, procVars, runVars, countVars, TypeOK, DbTypeOK,
     ObjTypeOK, RunTypeOK, RefInv, ThreadOK, Starting, Requests, LockNeverLeaks
<1>15. ASSUME NEW h \in Threads, LookFails(h)
      PROVE  LockNeverLeaks'
  BY <1>15, RestType DEF LookFails, Happens, Done, Goto, FreeLock, objVars, TypeOK,
     DbTypeOK, ObjTypeOK, RunTypeOK, RefInv, ThreadOK, Starting, Requests, LockNeverLeaks
<1>16. ASSUME NEW h \in Threads, Install(h)
      PROVE  LockNeverLeaks'
  <2>1. req[h].session \in Sessions /\ lock = req[h].session /\ UNCHANGED <<boot, proc>>
    BY <1>16, Named DEF Install, RefInv, ThreadOK, Starting
  <2>2. CASE sessions[req[h].proc] = 0
    <3>1. lock' = lock /\ run' = [run EXCEPT ![req[h].session] = "loop"]
      BY <1>16, <2>2 DEF Install, Goto
    <3> QED
      BY <2>1, <3>1 DEF LockNeverLeaks, TypeOK, RunTypeOK, Live, Running
  <2>3. CASE sessions[req[h].proc] # 0
    BY <1>16, <2>1, <2>3 DEF Install, FreeLock, LockNeverLeaks
  <2> QED
    BY <2>2, <2>3
<1>17. ASSUME NEW h \in Threads, Mark(h)
      PROVE  LockNeverLeaks'
  BY <1>17 DEF Mark, Step, dbVars, procVars, runVars, countVars, TypeOK, DbTypeOK,
     ObjTypeOK, RunTypeOK, RefInv, ThreadOK, Starting, Requests, LockNeverLeaks
<1>18. ASSUME NEW h \in Threads, Unlink(h)
      PROVE  LockNeverLeaks'
  BY <1>18 DEF Unlink, Step, procVars, countVars, TypeOK, DbTypeOK, ObjTypeOK, RunTypeOK,
     RefInv, ThreadOK, Starting, Requests, LockNeverLeaks
<1>19. ASSUME NEW h \in Threads, ResetFails(h)
      PROVE  LockNeverLeaks'
  BY <1>19 DEF ResetFails, Happens, Cancel, Step, dbVars, procVars, TypeOK, DbTypeOK,
     ObjTypeOK, RunTypeOK, RefInv, ThreadOK, Starting, Requests, LockNeverLeaks
<1>20. ASSUME NEW h \in Threads, Wipe(h)
      PROVE  LockNeverLeaks'
  BY <1>20 DEF Wipe, Cancel, Step, dbVars, procVars, TypeOK, DbTypeOK, ObjTypeOK,
     RunTypeOK, RefInv, ThreadOK, Starting, Requests, LockNeverLeaks
<1>21. ASSUME NEW h \in Threads, Stop(h)
      PROVE  LockNeverLeaks'
  BY <1>21 DEF Stop, Cancel, Step, dbVars, procVars, TypeOK, DbTypeOK, ObjTypeOK,
     RunTypeOK, RefInv, ThreadOK, Starting, Requests, LockNeverLeaks
<1>22. ASSUME NEW h \in Threads, Clear(h)
      PROVE  LockNeverLeaks'
  BY <1>22 DEF Clear, Step, Happens, procVars, runVars, TypeOK, DbTypeOK, ObjTypeOK,
     RunTypeOK, RefInv, ThreadOK, Starting, Requests, LockNeverLeaks
<1>23. ASSUME NEW h \in Threads, Remove(h)
      PROVE  LockNeverLeaks'
  <2>1. req' = [req EXCEPT ![h].pc = "unmap"] \/ req' = [req EXCEPT ![h] = Rest(h)]
    BY <1>23 DEF Remove, Step, Done
  <2>2. \A g \in Threads : g # h => req'[g] = req[g]
    BY <2>1 DEF TypeOK
  <2>3. req[h].pc = "remove" /\ lock' \in {0, lock} /\ UNCHANGED <<boot, run, proc>>
    BY <1>23 DEF Remove, KeepSessions, objVars, runVars
  <2> QED
    BY <2>2, <2>3 DEF LockNeverLeaks
<1>24. ASSUME NEW h \in Threads, Unmap(h)
      PROVE  LockNeverLeaks'
  <2>1. req' = [req EXCEPT ![h].pc = "wipe"] \/ req' = [req EXCEPT ![h] = Rest(h)]
    BY <1>24 DEF Unmap, Step, Done
  <2>2. \A g \in Threads : g # h => req'[g] = req[g]
    BY <2>1 DEF TypeOK
  <2>3. req[h].pc = "unmap" /\ lock' \in {0, lock} /\ UNCHANGED <<boot, run, proc>>
    BY <1>24 DEF Unmap, KeepSessions, objVars, runVars
  <2> QED
    BY <2>2, <2>3 DEF LockNeverLeaks
<1>25. ASSUME NEW h \in Threads, Cold(h)
      PROVE  LockNeverLeaks'
  BY <1>25 DEF Cold, Mapped, dbVars, procVars, objVars, runVars, countVars, KeepSessions,
     TypeOK, DbTypeOK, ObjTypeOK, RunTypeOK, RefInv, ThreadOK, Starting, Requests,
     LockNeverLeaks
<1>26. ASSUME NEW h \in Threads, Erase(h)
      PROVE  LockNeverLeaks'
  BY <1>26 DEF Erase, Step, Happens, procVars, objVars, runVars, KeepSessions, TypeOK,
     DbTypeOK, ObjTypeOK, RunTypeOK, RefInv, ThreadOK, Starting, Requests, LockNeverLeaks
<1>27. ASSUME NEW h \in Threads, Forget(h)
      PROVE  LockNeverLeaks'
  BY <1>27, RestType DEF Forget, Done, objVars, runVars, countVars, KeepSessions, TypeOK,
     DbTypeOK, ObjTypeOK, RunTypeOK, RefInv, ThreadOK, Starting, Requests, LockNeverLeaks
<1>28. ASSUME NEW h \in Threads, CallFails(h)
      PROVE  LockNeverLeaks'
  BY <1>28, RestType DEF CallFails, Happens, Done, dbVars, objVars, runVars, KeepSessions,
     TypeOK, DbTypeOK, ObjTypeOK, RunTypeOK, RefInv, ThreadOK, Starting, Requests,
     LockNeverLeaks
<1>29. ASSUME NEW s \in Sessions, Dial(s)
      PROVE  LockNeverLeaks'
  BY <1>29 DEF Dial, Goto, SetStatus, Shown, dbVars, procVars, KeepOthers, TypeOK,
     DbTypeOK, RunTypeOK, Live, Running, Waiting, LockNeverLeaks
<1>30. ASSUME NEW s \in Sessions, Connect(s)
      PROVE  LockNeverLeaks'
  <2>1. PICK to \in Running : run' = [run EXCEPT ![s] = to]
    BY <1>30 DEF Connect, Goto, Running, Waiting
  <2>2. run[s] \in Running /\ UNCHANGED <<req, boot, proc, lock, sessions, cancelled, panicked>>
    BY <1>30 DEF Connect, KeepOthers, dbVars, procVars, objVars, Running
  <2>3. ASSUME NEW t \in Sessions PROVE run'[t] = run[t] \/ {run[t], run'[t]} \subseteq Running
    BY <2>1, <2>2 DEF TypeOK, RunTypeOK
  <2> QED
    BY <2>2, <2>3 DEF LockNeverLeaks, Live, Running, Waiting, TypeOK, DbTypeOK
<1>31. ASSUME NEW s \in Sessions, SeeCancel(s)
      PROVE  LockNeverLeaks'
  BY <1>31 DEF SeeCancel, Goto, dbVars, procVars, objVars, KeepOthers, TypeOK, DbTypeOK,
     RunTypeOK, Live, Running, Waiting, LockNeverLeaks
<1>32. ASSUME NEW s \in Sessions, Leave(s)
      PROVE  LockNeverLeaks'
  BY <1>32 DEF Leave, Goto, FreeLock, procVars, objVars, KeepOthers, TypeOK, DbTypeOK,
     RunTypeOK, Live, Running, Waiting, LockNeverLeaks
<1>33. ASSUME NEW s \in Sessions, PairDone(s)
      PROVE  LockNeverLeaks'
  BY <1>33 DEF PairDone, Goto, procVars, TypeOK, DbTypeOK, RunTypeOK, Live, Running,
     Waiting, LockNeverLeaks
<1>34. ASSUME NEW s \in Sessions, PairTimeout(s)
      PROVE  LockNeverLeaks'
  BY <1>34 DEF PairTimeout, Goto, dbVars, procVars, KeepOthers, TypeOK, DbTypeOK,
     RunTypeOK, Live, Running, Waiting, LockNeverLeaks
<1>35. ASSUME NEW s \in Sessions, PairFails(s)
      PROVE  LockNeverLeaks'
  BY <1>35 DEF PairFails, Goto, Happens, dbVars, procVars, KeepOthers, TypeOK, DbTypeOK,
     RunTypeOK, Live, Running, Waiting, LockNeverLeaks
<1>36. ASSUME NEW s \in Sessions, Opens(s)
      PROVE  LockNeverLeaks'
  BY <1>36 DEF Opens, dbVars, procVars, objVars, KeepOthers, TypeOK, DbTypeOK, RunTypeOK,
     Live, Running, Waiting, LockNeverLeaks
<1>37. ASSUME NEW s \in Sessions, Closes(s)
      PROVE  LockNeverLeaks'
  BY <1>37 DEF Closes, Happens, dbVars, procVars, objVars, KeepOthers, TypeOK, DbTypeOK,
     RunTypeOK, Live, Running, Waiting, LockNeverLeaks
<1>38. ASSUME NEW s \in Sessions, Panic(s)
      PROVE  LockNeverLeaks'
  BY <1>38 DEF Panic, Goto, Happens, SetStatus, Shown, FreeLock, procVars, TypeOK,
     DbTypeOK, RunTypeOK, Live, Running, Waiting, LockNeverLeaks
<1>39. ASSUME NEW s \in Sessions, BeatRead(s)
      PROVE  LockNeverLeaks'
  BY <1>39 DEF BeatRead, Happens, dbVars, procVars, objVars, KeepOthers, TypeOK, DbTypeOK,
     RunTypeOK, Live, Running, Waiting, LockNeverLeaks
<1>40. ASSUME NEW s \in Sessions, BeatWrite(s)
      PROVE  LockNeverLeaks'
  BY <1>40 DEF BeatWrite, SetStatus, Shown, dbVars, procVars, KeepOthers, TypeOK,
     DbTypeOK, RunTypeOK, Live, Running, Waiting, LockNeverLeaks
<1>41. ASSUME NEW s \in Sessions, Hello(s)
      PROVE  LockNeverLeaks'
  BY <1>41 DEF Hello, Handled, SetStatus, Shown, dbVars, procVars, KeepOthers, TypeOK,
     DbTypeOK, RunTypeOK, Live, Running, Waiting, LockNeverLeaks
<1>42. ASSUME NEW s \in Sessions, SaveDevice(s)
      PROVE  LockNeverLeaks'
  BY <1>42 DEF SaveDevice, Phase, Happens, procVars, objVars, KeepOthers, TypeOK,
     DbTypeOK, RunTypeOK, Live, Running, Waiting, LockNeverLeaks
<1>43. ASSUME NEW s \in Sessions, Paired(s)
      PROVE  LockNeverLeaks'
  BY <1>43 DEF Paired, Handled, SetStatus, Shown, dbVars, procVars, KeepOthers, TypeOK,
     DbTypeOK, RunTypeOK, Live, Running, Waiting, LockNeverLeaks
<1>44. ASSUME NEW s \in Sessions, Down(s)
      PROVE  LockNeverLeaks'
  BY <1>44 DEF Down, Handled, SetStatus, Shown, WakeLoop, Goto, dbVars, procVars,
     KeepOthers, TypeOK, DbTypeOK, RunTypeOK, Live, Running, Waiting, LockNeverLeaks
<1>45. ASSUME NEW s \in Sessions, LoggedOut(s)
      PROVE  LockNeverLeaks'
  BY <1>45 DEF LoggedOut, Phase, SetStatus, Shown, dbVars, procVars, KeepOthers, TypeOK,
     DbTypeOK, RunTypeOK, Live, Running, Waiting, LockNeverLeaks
<1>46. ASSUME NEW s \in Sessions, ClearDevice(s)
      PROVE  LockNeverLeaks'
  BY <1>46 DEF ClearDevice, Phase, Happens, procVars, KeepOthers, TypeOK, DbTypeOK,
     RunTypeOK, Live, Running, Waiting, LockNeverLeaks
<1>47. ASSUME NEW s \in Sessions, ForgetDevice(s)
      PROVE  LockNeverLeaks'
  BY <1>47 DEF ForgetDevice, Phase, Happens, procVars, objVars, KeepOthers, TypeOK,
     DbTypeOK, RunTypeOK, Live, Running, Waiting, LockNeverLeaks
<1>48. ASSUME NEW s \in Sessions, DropDevice(s)
      PROVE  LockNeverLeaks'
  BY <1>48 DEF DropDevice, Handled, WakeLoop, Goto, dbVars, procVars, KeepOthers, TypeOK,
     DbTypeOK, RunTypeOK, Live, Running, Waiting, LockNeverLeaks
<1>49. ASSUME NEW p \in Procs, BootFails(p)
      PROVE  LockNeverLeaks'
  BY <1>49 DEF BootFails, Happens, dbVars, objVars, runVars, KeepSessions, TypeOK,
     DbTypeOK, ObjTypeOK, RunTypeOK, RefInv, ThreadOK, Starting, Requests, LockNeverLeaks
<1> QED
  BY <1>1, <1>2, <1>3, <1>4, <1>5, <1>6, <1>7, <1>8, <1>9, <1>10, <1>11, <1>12, <1>13,
     <1>14, <1>15, <1>16, <1>17, <1>18, <1>19, <1>20, <1>21, <1>22, <1>23, <1>24, <1>25,
     <1>26, <1>27, <1>28, <1>29, <1>30, <1>31, <1>32, <1>33, <1>34, <1>35, <1>36, <1>37,
     <1>38, <1>39, <1>40, <1>41, <1>42, <1>43, <1>44, <1>45, <1>46, <1>47, <1>48, <1>49
     DEF Next, Main, Request, Session, Outside, Handle

(* Each step keeps the lock with the session that is shown. *)
LEMMA InstalledStep ==
  ASSUME TypeOK, RefInv, LockNeverLeaks, InstalledHoldsLock, [Next]_vars
  PROVE  InstalledHoldsLock'
<1>1. CASE UNCHANGED vars
  BY <1>1 DEF vars, dbVars, procVars, objVars, runVars, countVars, KeepSessions,
     KeepOthers, InstalledHoldsLock
<1>2. ASSUME NEW p \in Procs, Start(p)
      PROVE  InstalledHoldsLock'
  BY <1>2 DEF Start, dbVars, objVars, runVars, KeepSessions, TypeOK, ProcTypeOK, RefInv,
     ThreadOK, MapOK, Starting, InstalledHoldsLock
<1>3. ASSUME NEW p \in Procs, BootRead(p)
      PROVE  InstalledHoldsLock'
  BY <1>3 DEF BootRead, Mapped, dbVars, objVars, runVars, countVars, KeepSessions, TypeOK,
     ProcTypeOK, RefInv, ThreadOK, MapOK, Starting, InstalledHoldsLock
<1>4. ASSUME NEW p \in Procs, BootUnmap(p)
      PROVE  InstalledHoldsLock'
  BY <1>4 DEF BootUnmap, objVars, runVars, countVars, KeepSessions, TypeOK, ProcTypeOK,
     RefInv, ThreadOK, MapOK, Starting, InstalledHoldsLock
<1>5. ASSUME NEW p \in Procs, BootLock(p)
      PROVE  InstalledHoldsLock'
  <2>1. CASE lock # 0
    <3>1. UNCHANGED <<run, lock, sessions, cancelled, panicked>>
      BY <1>5, <2>1 DEF BootLock, dbVars, KeepSessions, objVars, runVars
    <3> QED
      BY <3>1 DEF InstalledHoldsLock
  <2>2. ASSUME lock = 0, NEW s \in Sessions, Create(s, p, found[p], "loop"),
               sessions' = [sessions EXCEPT ![p] = s]
        PROVE  InstalledHoldsLock'
    <3>1. /\ run' = [run EXCEPT ![s] = "loop"] /\ lock' = s
          /\ cancelled' = cancelled \ {s} /\ panicked' = panicked \ {s}
      BY <2>2 DEF Create, Goto
    <3>2. \A q \in Procs : sessions[q] # s
      BY <2>2 DEF Create, Unused, Free
    <3> QED
      BY <2>2, <3>1, <3>2 DEF InstalledHoldsLock, TypeOK, ProcTypeOK, RunTypeOK
  <2> QED
    BY <1>5, <2>1, <2>2 DEF BootLock
<1>6. ASSUME NEW p \in Procs, Restore(p)
      PROVE  InstalledHoldsLock'
  BY <1>6 DEF Restore, dbVars, objVars, runVars, countVars, KeepSessions, TypeOK,
     ProcTypeOK, RefInv, ThreadOK, MapOK, Starting, InstalledHoldsLock
<1>7. ASSUME NEW p \in Procs, Shutdown(p)
      PROVE  InstalledHoldsLock'
  BY <1>7 DEF Shutdown, dbVars, procVars, runVars, countVars, TypeOK, ProcTypeOK, RefInv,
     ThreadOK, MapOK, Starting, InstalledHoldsLock
<1>8. ASSUME NEW p \in Procs, Exit(p)
      PROVE  InstalledHoldsLock'
  BY <1>8 DEF Exit, countVars, TypeOK, ProcTypeOK, RefInv, ThreadOK, MapOK, Starting,
     InstalledHoldsLock
<1>9. ASSUME NEW h \in Handlers, NEW p \in Procs, NEW o \in Operations, Begin(h, p, o)
      PROVE  InstalledHoldsLock'
  BY <1>9 DEF Begin, First, dbVars, procVars, objVars, runVars, KeepSessions, TypeOK,
     ProcTypeOK, RefInv, ThreadOK, MapOK, Starting, InstalledHoldsLock
<1>10. ASSUME NEW h \in Threads, Drop(h)
      PROVE  InstalledHoldsLock'
  BY <1>10 DEF Drop, Step, dbVars, procVars, objVars, runVars, countVars, KeepSessions,
     TypeOK, ProcTypeOK, RefInv, ThreadOK, MapOK, Starting, InstalledHoldsLock
<1>11. ASSUME NEW h \in Threads, Discard(h)
      PROVE  InstalledHoldsLock'
  BY <1>11 DEF Discard, FreeLock, procVars, runVars, countVars, TypeOK, ProcTypeOK,
     RefInv, ThreadOK, MapOK, Starting, InstalledHoldsLock
<1>12. ASSUME NEW h \in Threads, Get(h)
      PROVE  InstalledHoldsLock'
  BY <1>12 DEF Get, Step, Done, Configure, dbVars, runVars, countVars, TypeOK, ProcTypeOK,
     RefInv, ThreadOK, MapOK, Starting, InstalledHoldsLock
<1>13. ASSUME NEW h \in Threads, Lock(h)
      PROVE  InstalledHoldsLock'
  <2>1. CASE lock # 0
    <3>1. UNCHANGED <<run, lock, sessions, cancelled, panicked>>
      BY <1>13, <2>1 DEF Lock, dbVars, KeepSessions, objVars, runVars
    <3> QED
      BY <3>1 DEF InstalledHoldsLock
  <2>2. ASSUME lock = 0, NEW s \in Sessions, Create(s, req[h].proc, 0, "starting"), UNCHANGED sessions
        PROVE  InstalledHoldsLock'
    <3>1. /\ run' = [run EXCEPT ![s] = "starting"] /\ lock' = s
          /\ cancelled' = cancelled \ {s} /\ panicked' = panicked \ {s}
      BY <2>2 DEF Create, Goto
    <3>2. \A q \in Procs : sessions[q] # s
      BY <2>2 DEF Create, Unused, Free
    <3> QED
      BY <2>2, <3>1, <3>2 DEF InstalledHoldsLock, TypeOK, ProcTypeOK, RunTypeOK
  <2> QED
    BY <1>13, <2>1, <2>2 DEF Lock
<1>14. ASSUME NEW h \in Threads, Look(h)
      PROVE  InstalledHoldsLock'
  BY <1>14 DEF Look, Step, Mapped, dbVars, procVars, runVars, countVars, TypeOK,
     ProcTypeOK, RefInv, ThreadOK, MapOK, Starting, InstalledHoldsLock
<1>15. ASSUME NEW h \in Threads, LookFails(h)
      PROVE  InstalledHoldsLock'
  BY <1>15 DEF LookFails, Happens, Done, Goto, FreeLock, objVars, TypeOK, ProcTypeOK,
     RefInv, ThreadOK, MapOK, Starting, InstalledHoldsLock
<1>16. ASSUME NEW h \in Threads, Install(h)
      PROVE  InstalledHoldsLock'
  <2>1. /\ req[h].session \in Sessions /\ lock = req[h].session
        /\ run[req[h].session] = "starting" /\ UNCHANGED <<cancelled, panicked>>
    BY <1>16, Named DEF Install, RefInv, ThreadOK, Starting
  <2>2. \A q \in Procs : sessions[q] # req[h].session
    BY <2>1 DEF RefInv, MapOK, Sessions
  <2>3. CASE sessions[req[h].proc] = 0
    <3>1. /\ lock' = lock /\ run' = [run EXCEPT ![req[h].session] = "loop"]
          /\ sessions' = [sessions EXCEPT ![req[h].proc] = req[h].session]
      BY <1>16, <2>3 DEF Install, Goto
    <3> QED
      BY <2>1, <2>2, <3>1 DEF InstalledHoldsLock, TypeOK, ProcTypeOK, RunTypeOK
  <2>4. CASE sessions[req[h].proc] # 0
    <3>1. lock' = 0 /\ run' = [run EXCEPT ![req[h].session] = "ended"] /\ UNCHANGED sessions
      BY <1>16, <2>1, <2>4 DEF Install, Goto, FreeLock
    <3> QED
      BY <2>1, <2>2, <3>1 DEF InstalledHoldsLock, TypeOK, ProcTypeOK, RunTypeOK
  <2> QED
    BY <2>3, <2>4
<1>17. ASSUME NEW h \in Threads, Mark(h)
      PROVE  InstalledHoldsLock'
  BY <1>17 DEF Mark, Step, dbVars, procVars, runVars, countVars, TypeOK, ProcTypeOK,
     RefInv, ThreadOK, MapOK, Starting, InstalledHoldsLock
<1>18. ASSUME NEW h \in Threads, Unlink(h)
      PROVE  InstalledHoldsLock'
  BY <1>18 DEF Unlink, Step, procVars, countVars, TypeOK, ProcTypeOK, RefInv, ThreadOK,
     MapOK, Starting, InstalledHoldsLock
<1>19. ASSUME NEW h \in Threads, ResetFails(h)
      PROVE  InstalledHoldsLock'
  BY <1>19 DEF ResetFails, Happens, Cancel, Step, dbVars, procVars, TypeOK, ProcTypeOK,
     RefInv, ThreadOK, MapOK, Starting, InstalledHoldsLock
<1>20. ASSUME NEW h \in Threads, Wipe(h)
      PROVE  InstalledHoldsLock'
  BY <1>20 DEF Wipe, Cancel, Step, dbVars, procVars, TypeOK, ProcTypeOK, RefInv, ThreadOK,
     MapOK, Starting, InstalledHoldsLock
<1>21. ASSUME NEW h \in Threads, Stop(h)
      PROVE  InstalledHoldsLock'
  BY <1>21 DEF Stop, Cancel, Step, dbVars, procVars, TypeOK, ProcTypeOK, RefInv, ThreadOK,
     MapOK, Starting, InstalledHoldsLock
<1>22. ASSUME NEW h \in Threads, Clear(h)
      PROVE  InstalledHoldsLock'
  BY <1>22 DEF Clear, Step, Happens, procVars, runVars, TypeOK, ProcTypeOK, RefInv,
     ThreadOK, MapOK, Starting, InstalledHoldsLock
<1>23. ASSUME NEW h \in Threads, Remove(h)
      PROVE  InstalledHoldsLock'
  BY <1>23 DEF Remove, Step, Done, objVars, runVars, countVars, KeepSessions, TypeOK,
     DbTypeOK, ProcTypeOK, ObjTypeOK, RunTypeOK, RefInv, ThreadOK, MapOK, OneStarter,
     Sessions, Runs, Live, Running, Waiting, Threads, Requests, Starting,
     InstalledHoldsLock
<1>24. ASSUME NEW h \in Threads, Unmap(h)
      PROVE  InstalledHoldsLock'
  BY <1>24 DEF Unmap, Step, Done, objVars, runVars, countVars, KeepSessions, TypeOK,
     ProcTypeOK, RefInv, ThreadOK, MapOK, Starting, InstalledHoldsLock
<1>25. ASSUME NEW h \in Threads, Cold(h)
      PROVE  InstalledHoldsLock'
  BY <1>25 DEF Cold, Mapped, dbVars, procVars, objVars, runVars, countVars, KeepSessions,
     TypeOK, ProcTypeOK, RefInv, ThreadOK, MapOK, Starting, InstalledHoldsLock
<1>26. ASSUME NEW h \in Threads, Erase(h)
      PROVE  InstalledHoldsLock'
  BY <1>26 DEF Erase, Step, Happens, procVars, objVars, runVars, KeepSessions, TypeOK,
     ProcTypeOK, RefInv, ThreadOK, MapOK, Starting, InstalledHoldsLock
<1>27. ASSUME NEW h \in Threads, Forget(h)
      PROVE  InstalledHoldsLock'
  BY <1>27 DEF Forget, Done, objVars, runVars, countVars, KeepSessions, TypeOK,
     ProcTypeOK, RefInv, ThreadOK, MapOK, Starting, InstalledHoldsLock
<1>28. ASSUME NEW h \in Threads, CallFails(h)
      PROVE  InstalledHoldsLock'
  BY <1>28 DEF CallFails, Happens, Done, dbVars, objVars, runVars, KeepSessions, TypeOK,
     ProcTypeOK, RefInv, ThreadOK, MapOK, Starting, InstalledHoldsLock
<1>29. ASSUME NEW s \in Sessions, Dial(s)
      PROVE  InstalledHoldsLock'
  BY <1>29 DEF Dial, Goto, SetStatus, Shown, dbVars, procVars, KeepOthers, TypeOK,
     ProcTypeOK, RunTypeOK, Running, Waiting, InstalledHoldsLock
<1>30. ASSUME NEW s \in Sessions, Connect(s)
      PROVE  InstalledHoldsLock'
  <2>1. PICK to \in Running : run' = [run EXCEPT ![s] = to]
    BY <1>30 DEF Connect, Goto, Running, Waiting
  <2>2. run[s] \in Running /\ UNCHANGED <<req, boot, proc, lock, sessions, cancelled, panicked>>
    BY <1>30 DEF Connect, KeepOthers, dbVars, procVars, objVars, Running
  <2>3. ASSUME NEW t \in Sessions PROVE run'[t] = run[t] \/ {run[t], run'[t]} \subseteq Running
    BY <2>1, <2>2 DEF TypeOK, RunTypeOK
  <2> QED
    BY <2>2, <2>3 DEF InstalledHoldsLock, TypeOK, ProcTypeOK
<1>31. ASSUME NEW s \in Sessions, SeeCancel(s)
      PROVE  InstalledHoldsLock'
  BY <1>31 DEF SeeCancel, Goto, dbVars, procVars, objVars, KeepOthers, TypeOK, ProcTypeOK,
     RunTypeOK, Running, Waiting, InstalledHoldsLock
<1>32. ASSUME NEW s \in Sessions, Leave(s)
      PROVE  InstalledHoldsLock'
  BY <1>32 DEF Leave, Goto, FreeLock, procVars, objVars, KeepOthers, TypeOK, ProcTypeOK,
     RunTypeOK, Running, Waiting, InstalledHoldsLock
<1>33. ASSUME NEW s \in Sessions, PairDone(s)
      PROVE  InstalledHoldsLock'
  BY <1>33 DEF PairDone, Goto, procVars, TypeOK, ProcTypeOK, RunTypeOK, Running, Waiting,
     InstalledHoldsLock
<1>34. ASSUME NEW s \in Sessions, PairTimeout(s)
      PROVE  InstalledHoldsLock'
  BY <1>34 DEF PairTimeout, Goto, dbVars, procVars, KeepOthers, TypeOK, ProcTypeOK,
     RunTypeOK, Running, Waiting, InstalledHoldsLock
<1>35. ASSUME NEW s \in Sessions, PairFails(s)
      PROVE  InstalledHoldsLock'
  BY <1>35 DEF PairFails, Goto, Happens, dbVars, procVars, KeepOthers, TypeOK, ProcTypeOK,
     RunTypeOK, Running, Waiting, InstalledHoldsLock
<1>36. ASSUME NEW s \in Sessions, Opens(s)
      PROVE  InstalledHoldsLock'
  BY <1>36 DEF Opens, dbVars, procVars, objVars, KeepOthers, TypeOK, ProcTypeOK,
     RunTypeOK, Running, Waiting, InstalledHoldsLock
<1>37. ASSUME NEW s \in Sessions, Closes(s)
      PROVE  InstalledHoldsLock'
  BY <1>37 DEF Closes, Happens, dbVars, procVars, objVars, KeepOthers, TypeOK, ProcTypeOK,
     RunTypeOK, Running, Waiting, InstalledHoldsLock
<1>38. ASSUME NEW s \in Sessions, Panic(s)
      PROVE  InstalledHoldsLock'
  BY <1>38 DEF Panic, Goto, Happens, SetStatus, Shown, FreeLock, procVars, TypeOK,
     ProcTypeOK, RunTypeOK, Running, Waiting, InstalledHoldsLock
<1>39. ASSUME NEW s \in Sessions, BeatRead(s)
      PROVE  InstalledHoldsLock'
  BY <1>39 DEF BeatRead, Happens, dbVars, procVars, objVars, KeepOthers, TypeOK,
     ProcTypeOK, RunTypeOK, Running, Waiting, InstalledHoldsLock
<1>40. ASSUME NEW s \in Sessions, BeatWrite(s)
      PROVE  InstalledHoldsLock'
  BY <1>40 DEF BeatWrite, SetStatus, Shown, dbVars, procVars, KeepOthers, TypeOK,
     ProcTypeOK, RunTypeOK, Running, Waiting, InstalledHoldsLock
<1>41. ASSUME NEW s \in Sessions, Hello(s)
      PROVE  InstalledHoldsLock'
  BY <1>41 DEF Hello, Handled, SetStatus, Shown, dbVars, procVars, KeepOthers, TypeOK,
     ProcTypeOK, RunTypeOK, Running, Waiting, InstalledHoldsLock
<1>42. ASSUME NEW s \in Sessions, SaveDevice(s)
      PROVE  InstalledHoldsLock'
  BY <1>42 DEF SaveDevice, Phase, Happens, procVars, objVars, KeepOthers, TypeOK,
     ProcTypeOK, RunTypeOK, Running, Waiting, InstalledHoldsLock
<1>43. ASSUME NEW s \in Sessions, Paired(s)
      PROVE  InstalledHoldsLock'
  BY <1>43 DEF Paired, Handled, SetStatus, Shown, dbVars, procVars, KeepOthers, TypeOK,
     ProcTypeOK, RunTypeOK, Running, Waiting, InstalledHoldsLock
<1>44. ASSUME NEW s \in Sessions, Down(s)
      PROVE  InstalledHoldsLock'
  BY <1>44 DEF Down, Handled, SetStatus, Shown, WakeLoop, Goto, dbVars, procVars,
     KeepOthers, TypeOK, ProcTypeOK, RunTypeOK, Running, Waiting, InstalledHoldsLock
<1>45. ASSUME NEW s \in Sessions, LoggedOut(s)
      PROVE  InstalledHoldsLock'
  BY <1>45 DEF LoggedOut, Phase, SetStatus, Shown, dbVars, procVars, KeepOthers, TypeOK,
     ProcTypeOK, RunTypeOK, Running, Waiting, InstalledHoldsLock
<1>46. ASSUME NEW s \in Sessions, ClearDevice(s)
      PROVE  InstalledHoldsLock'
  BY <1>46 DEF ClearDevice, Phase, Happens, procVars, KeepOthers, TypeOK, ProcTypeOK,
     RunTypeOK, Running, Waiting, InstalledHoldsLock
<1>47. ASSUME NEW s \in Sessions, ForgetDevice(s)
      PROVE  InstalledHoldsLock'
  BY <1>47 DEF ForgetDevice, Phase, Happens, procVars, objVars, KeepOthers, TypeOK,
     ProcTypeOK, RunTypeOK, Running, Waiting, InstalledHoldsLock
<1>48. ASSUME NEW s \in Sessions, DropDevice(s)
      PROVE  InstalledHoldsLock'
  BY <1>48 DEF DropDevice, Handled, WakeLoop, Goto, dbVars, procVars, KeepOthers, TypeOK,
     ProcTypeOK, RunTypeOK, Running, Waiting, InstalledHoldsLock
<1>49. ASSUME NEW p \in Procs, BootFails(p)
      PROVE  InstalledHoldsLock'
  BY <1>49 DEF BootFails, Happens, dbVars, objVars, runVars, KeepSessions, TypeOK,
     ProcTypeOK, RefInv, ThreadOK, MapOK, Starting, InstalledHoldsLock
<1> QED
  BY <1>1, <1>2, <1>3, <1>4, <1>5, <1>6, <1>7, <1>8, <1>9, <1>10, <1>11, <1>12, <1>13,
     <1>14, <1>15, <1>16, <1>17, <1>18, <1>19, <1>20, <1>21, <1>22, <1>23, <1>24, <1>25,
     <1>26, <1>27, <1>28, <1>29, <1>30, <1>31, <1>32, <1>33, <1>34, <1>35, <1>36, <1>37,
     <1>38, <1>39, <1>40, <1>41, <1>42, <1>43, <1>44, <1>45, <1>46, <1>47, <1>48, <1>49
     DEF Next, Main, Request, Session, Outside, Handle

(* Each step keeps a session that is being reset offline. *)
LEMMA ResetStep ==
  ASSUME TypeOK, RefInv, ResetStaysOffline, [Next]_vars
  PROVE  ResetStaysOffline'
<1>1. CASE UNCHANGED vars
  BY <1>1 DEF vars, dbVars, procVars, objVars, runVars, countVars, KeepSessions,
     KeepOthers, ResetStaysOffline
<1>2. ASSUME NEW p \in Procs, Start(p)
      PROVE  ResetStaysOffline'
  BY <1>2 DEF Start, dbVars, procVars, objVars, runVars, countVars, KeepSessions,
     KeepOthers, TypeOK, ObjTypeOK, RunTypeOK, ResetStaysOffline, States, Sessions
<1>3. ASSUME NEW p \in Procs, BootRead(p)
      PROVE  ResetStaysOffline'
  BY <1>3 DEF BootRead, Mapped, dbVars, procVars, objVars, runVars, countVars,
     KeepSessions, KeepOthers, TypeOK, ObjTypeOK, RunTypeOK, ResetStaysOffline, States,
     Sessions
<1>4. ASSUME NEW p \in Procs, BootUnmap(p)
      PROVE  ResetStaysOffline'
  BY <1>4 DEF BootUnmap, dbVars, procVars, objVars, runVars, countVars, KeepSessions,
     KeepOthers, TypeOK, ObjTypeOK, RunTypeOK, ResetStaysOffline, States, Sessions
<1>5. ASSUME NEW p \in Procs, BootLock(p)
      PROVE  ResetStaysOffline'
  <2>1. CASE lock # 0
    BY <1>5, <2>1 DEF BootLock, KeepSessions, objVars, ResetStaysOffline
  <2>2. ASSUME NEW s \in Sessions, Create(s, p, found[p], "loop") PROVE ResetStaysOffline'
    BY <2>2 DEF Create, TypeOK, ObjTypeOK, ResetStaysOffline
  <2> QED
    BY <1>5, <2>1, <2>2 DEF BootLock
<1>6. ASSUME NEW p \in Procs, Restore(p)
      PROVE  ResetStaysOffline'
  BY <1>6 DEF Restore, dbVars, procVars, objVars, runVars, countVars, KeepSessions,
     KeepOthers, TypeOK, ObjTypeOK, RunTypeOK, ResetStaysOffline, States, Sessions
<1>7. ASSUME NEW p \in Procs, Shutdown(p)
      PROVE  ResetStaysOffline'
  BY <1>7 DEF Shutdown, dbVars, procVars, objVars, runVars, countVars, KeepSessions,
     KeepOthers, TypeOK, ObjTypeOK, RunTypeOK, ResetStaysOffline, States, Sessions
<1>8. ASSUME NEW p \in Procs, Exit(p)
      PROVE  ResetStaysOffline'
  BY <1>8 DEF Exit, dbVars, procVars, objVars, runVars, countVars, KeepSessions,
     KeepOthers, TypeOK, ObjTypeOK, RunTypeOK, ResetStaysOffline, States, Sessions
<1>9. ASSUME NEW h \in Handlers, NEW p \in Procs, NEW o \in Operations, Begin(h, p, o)
      PROVE  ResetStaysOffline'
  BY <1>9 DEF Begin, First, dbVars, procVars, objVars, runVars, countVars, KeepSessions,
     KeepOthers, TypeOK, ObjTypeOK, RunTypeOK, ResetStaysOffline, States, Sessions
<1>10. ASSUME NEW h \in Threads, Drop(h)
      PROVE  ResetStaysOffline'
  BY <1>10, Named DEF Drop, Step, dbVars, procVars, objVars, runVars, countVars,
     KeepSessions, KeepOthers, TypeOK, ObjTypeOK, RunTypeOK, ResetStaysOffline, States,
     Sessions
<1>11. ASSUME NEW h \in Threads, Discard(h)
      PROVE  ResetStaysOffline'
  BY <1>11, Named DEF Discard, FreeLock, dbVars, procVars, objVars, runVars, countVars,
     KeepSessions, KeepOthers, TypeOK, ObjTypeOK, RunTypeOK, ResetStaysOffline, States,
     Sessions
<1>12. ASSUME NEW h \in Threads, Get(h)
      PROVE  ResetStaysOffline'
  BY <1>12, Named DEF Get, Step, Done, Configure, dbVars, procVars, objVars, runVars,
     countVars, KeepSessions, KeepOthers, TypeOK, ObjTypeOK, RunTypeOK, ResetStaysOffline,
     States, Sessions
<1>13. ASSUME NEW h \in Threads, Lock(h)
      PROVE  ResetStaysOffline'
  <2>1. CASE lock # 0
    BY <1>13, <2>1 DEF Lock, KeepSessions, objVars, ResetStaysOffline
  <2>2. ASSUME NEW s \in Sessions, Create(s, req[h].proc, 0, "starting") PROVE ResetStaysOffline'
    BY <2>2 DEF Create, TypeOK, ObjTypeOK, ResetStaysOffline
  <2> QED
    BY <1>13, <2>1, <2>2 DEF Lock
<1>14. ASSUME NEW h \in Threads, Look(h)
      PROVE  ResetStaysOffline'
  BY <1>14, Named DEF Look, Step, Mapped, dbVars, procVars, objVars, runVars, countVars,
     KeepSessions, KeepOthers, TypeOK, ObjTypeOK, RunTypeOK, ResetStaysOffline, States,
     Sessions
<1>15. ASSUME NEW h \in Threads, LookFails(h)
      PROVE  ResetStaysOffline'
  BY <1>15, Named DEF LookFails, Happens, Done, Goto, FreeLock, dbVars, procVars, objVars,
     runVars, countVars, KeepSessions, KeepOthers, TypeOK, ObjTypeOK, RunTypeOK,
     ResetStaysOffline, States, Sessions
<1>16. ASSUME NEW h \in Threads, Install(h)
      PROVE  ResetStaysOffline'
  BY <1>16, Named DEF Install, Done, Configure, Goto, FreeLock, dbVars, procVars, objVars,
     runVars, countVars, KeepSessions, KeepOthers, TypeOK, ObjTypeOK, RunTypeOK,
     ResetStaysOffline, States, Sessions
<1>17. ASSUME NEW h \in Threads, Mark(h)
      PROVE  ResetStaysOffline'
  BY <1>17, Named DEF Mark, Step, dbVars, procVars, objVars, runVars, countVars,
     KeepSessions, KeepOthers, TypeOK, ObjTypeOK, RunTypeOK, ResetStaysOffline, States,
     Sessions
<1>18. ASSUME NEW h \in Threads, Unlink(h)
      PROVE  ResetStaysOffline'
  BY <1>18, Named DEF Unlink, Step, dbVars, procVars, objVars, runVars, countVars,
     KeepSessions, KeepOthers, TypeOK, ObjTypeOK, RunTypeOK, ResetStaysOffline, States,
     Sessions
<1>19. ASSUME NEW h \in Threads, ResetFails(h)
      PROVE  ResetStaysOffline'
  BY <1>19, Named DEF ResetFails, Happens, Cancel, Step, dbVars, procVars, objVars,
     runVars, countVars, KeepSessions, KeepOthers, TypeOK, ObjTypeOK, RunTypeOK,
     ResetStaysOffline, States, Sessions
<1>20. ASSUME NEW h \in Threads, Wipe(h)
      PROVE  ResetStaysOffline'
  BY <1>20, Named DEF Wipe, Cancel, Step, dbVars, procVars, objVars, runVars, countVars,
     KeepSessions, KeepOthers, TypeOK, ObjTypeOK, RunTypeOK, ResetStaysOffline, States,
     Sessions
<1>21. ASSUME NEW h \in Threads, Stop(h)
      PROVE  ResetStaysOffline'
  BY <1>21, Named DEF Stop, Cancel, Step, dbVars, procVars, objVars, runVars, countVars,
     KeepSessions, KeepOthers, TypeOK, ObjTypeOK, RunTypeOK, ResetStaysOffline, States,
     Sessions
<1>22. ASSUME NEW h \in Threads, Clear(h)
      PROVE  ResetStaysOffline'
  BY <1>22, Named DEF Clear, Step, Happens, dbVars, procVars, objVars, runVars, countVars,
     KeepSessions, KeepOthers, TypeOK, ObjTypeOK, RunTypeOK, ResetStaysOffline, States,
     Sessions
<1>23. ASSUME NEW h \in Threads, Remove(h)
      PROVE  ResetStaysOffline'
  BY <1>23, Named DEF Remove, Step, Done, dbVars, procVars, objVars, runVars, countVars,
     KeepSessions, KeepOthers, TypeOK, ObjTypeOK, RunTypeOK, ResetStaysOffline, States,
     Sessions
<1>24. ASSUME NEW h \in Threads, Unmap(h)
      PROVE  ResetStaysOffline'
  BY <1>24, Named DEF Unmap, Step, Done, dbVars, procVars, objVars, runVars, countVars,
     KeepSessions, KeepOthers, TypeOK, ObjTypeOK, RunTypeOK, ResetStaysOffline, States,
     Sessions
<1>25. ASSUME NEW h \in Threads, Cold(h)
      PROVE  ResetStaysOffline'
  BY <1>25, Named DEF Cold, Mapped, dbVars, procVars, objVars, runVars, countVars,
     KeepSessions, KeepOthers, TypeOK, ObjTypeOK, RunTypeOK, ResetStaysOffline, States,
     Sessions
<1>26. ASSUME NEW h \in Threads, Erase(h)
      PROVE  ResetStaysOffline'
  BY <1>26, Named DEF Erase, Step, Happens, dbVars, procVars, objVars, runVars, countVars,
     KeepSessions, KeepOthers, TypeOK, ObjTypeOK, RunTypeOK, ResetStaysOffline, States,
     Sessions
<1>27. ASSUME NEW h \in Threads, Forget(h)
      PROVE  ResetStaysOffline'
  BY <1>27, Named DEF Forget, Done, dbVars, procVars, objVars, runVars, countVars,
     KeepSessions, KeepOthers, TypeOK, ObjTypeOK, RunTypeOK, ResetStaysOffline, States,
     Sessions
<1>28. ASSUME NEW h \in Threads, CallFails(h)
      PROVE  ResetStaysOffline'
  BY <1>28, Named DEF CallFails, Happens, Done, dbVars, procVars, objVars, runVars,
     countVars, KeepSessions, KeepOthers, TypeOK, ObjTypeOK, RunTypeOK, ResetStaysOffline,
     States, Sessions
<1>29. ASSUME NEW s \in Sessions, Dial(s)
      PROVE  ResetStaysOffline'
  BY <1>29 DEF Dial, Goto, SetStatus, Shown, dbVars, procVars, objVars, runVars,
     countVars, KeepSessions, KeepOthers, TypeOK, ObjTypeOK, RunTypeOK, ResetStaysOffline,
     States, Sessions
<1>30. ASSUME NEW s \in Sessions, Connect(s)
      PROVE  ResetStaysOffline'
  BY <1>30 DEF Connect, Goto, Happens, dbVars, procVars, objVars, runVars, countVars,
     KeepSessions, KeepOthers, TypeOK, ObjTypeOK, RunTypeOK, ResetStaysOffline, States,
     Sessions
<1>31. ASSUME NEW s \in Sessions, SeeCancel(s)
      PROVE  ResetStaysOffline'
  BY <1>31 DEF SeeCancel, Goto, dbVars, procVars, objVars, runVars, countVars,
     KeepSessions, KeepOthers, TypeOK, ObjTypeOK, RunTypeOK, ResetStaysOffline, States,
     Sessions
<1>32. ASSUME NEW s \in Sessions, Leave(s)
      PROVE  ResetStaysOffline'
  BY <1>32 DEF Leave, Goto, FreeLock, dbVars, procVars, objVars, runVars, countVars,
     KeepSessions, KeepOthers, TypeOK, ObjTypeOK, RunTypeOK, ResetStaysOffline, States,
     Sessions
<1>33. ASSUME NEW s \in Sessions, PairDone(s)
      PROVE  ResetStaysOffline'
  BY <1>33 DEF PairDone, Goto, dbVars, procVars, objVars, runVars, countVars,
     KeepSessions, KeepOthers, TypeOK, ObjTypeOK, RunTypeOK, ResetStaysOffline, States,
     Sessions
<1>34. ASSUME NEW s \in Sessions, PairTimeout(s)
      PROVE  ResetStaysOffline'
  BY <1>34 DEF PairTimeout, Goto, dbVars, procVars, objVars, runVars, countVars,
     KeepSessions, KeepOthers, TypeOK, ObjTypeOK, RunTypeOK, ResetStaysOffline, States,
     Sessions
<1>35. ASSUME NEW s \in Sessions, PairFails(s)
      PROVE  ResetStaysOffline'
  BY <1>35 DEF PairFails, Goto, Happens, dbVars, procVars, objVars, runVars, countVars,
     KeepSessions, KeepOthers, TypeOK, ObjTypeOK, RunTypeOK, ResetStaysOffline, States,
     Sessions
<1>36. ASSUME NEW s \in Sessions, Opens(s)
      PROVE  ResetStaysOffline'
  BY <1>36 DEF Opens, dbVars, procVars, objVars, runVars, countVars, KeepSessions,
     KeepOthers, TypeOK, ObjTypeOK, RunTypeOK, ResetStaysOffline, States, Sessions
<1>37. ASSUME NEW s \in Sessions, Closes(s)
      PROVE  ResetStaysOffline'
  BY <1>37 DEF Closes, Happens, dbVars, procVars, objVars, runVars, countVars,
     KeepSessions, KeepOthers, TypeOK, ObjTypeOK, RunTypeOK, ResetStaysOffline, States,
     Sessions
<1>38. ASSUME NEW s \in Sessions, Panic(s)
      PROVE  ResetStaysOffline'
  BY <1>38 DEF Panic, Goto, Happens, SetStatus, Shown, FreeLock, dbVars, procVars,
     objVars, runVars, countVars, KeepSessions, KeepOthers, TypeOK, ObjTypeOK, RunTypeOK,
     ResetStaysOffline, States, Sessions
<1>39. ASSUME NEW s \in Sessions, BeatRead(s)
      PROVE  ResetStaysOffline'
  BY <1>39 DEF BeatRead, Happens, dbVars, procVars, objVars, runVars, countVars,
     KeepSessions, KeepOthers, TypeOK, ObjTypeOK, RunTypeOK, ResetStaysOffline, States,
     Sessions
<1>40. ASSUME NEW s \in Sessions, BeatWrite(s)
      PROVE  ResetStaysOffline'
  BY <1>40 DEF BeatWrite, SetStatus, Shown, dbVars, procVars, objVars, runVars, countVars,
     KeepSessions, KeepOthers, TypeOK, ObjTypeOK, RunTypeOK, ResetStaysOffline, States,
     Sessions
<1>41. ASSUME NEW s \in Sessions, Hello(s)
      PROVE  ResetStaysOffline'
  BY <1>41 DEF Hello, Handled, SetStatus, Shown, dbVars, procVars, objVars, runVars,
     countVars, KeepSessions, KeepOthers, TypeOK, ObjTypeOK, RunTypeOK, ResetStaysOffline,
     States, Sessions
<1>42. ASSUME NEW s \in Sessions, SaveDevice(s)
      PROVE  ResetStaysOffline'
  BY <1>42 DEF SaveDevice, Phase, Happens, dbVars, procVars, objVars, runVars, countVars,
     KeepSessions, KeepOthers, TypeOK, ObjTypeOK, RunTypeOK, ResetStaysOffline, States,
     Sessions
<1>43. ASSUME NEW s \in Sessions, Paired(s)
      PROVE  ResetStaysOffline'
  BY <1>43 DEF Paired, Handled, SetStatus, Shown, dbVars, procVars, objVars, runVars,
     countVars, KeepSessions, KeepOthers, TypeOK, ObjTypeOK, RunTypeOK, ResetStaysOffline,
     States, Sessions
<1>44. ASSUME NEW s \in Sessions, Down(s)
      PROVE  ResetStaysOffline'
  BY <1>44 DEF Down, Handled, SetStatus, Shown, WakeLoop, Goto, dbVars, procVars, objVars,
     runVars, countVars, KeepSessions, KeepOthers, TypeOK, ObjTypeOK, RunTypeOK,
     ResetStaysOffline, States, Sessions
<1>45. ASSUME NEW s \in Sessions, LoggedOut(s)
      PROVE  ResetStaysOffline'
  BY <1>45 DEF LoggedOut, Phase, SetStatus, Shown, dbVars, procVars, objVars, runVars,
     countVars, KeepSessions, KeepOthers, TypeOK, ObjTypeOK, RunTypeOK, ResetStaysOffline,
     States, Sessions
<1>46. ASSUME NEW s \in Sessions, ClearDevice(s)
      PROVE  ResetStaysOffline'
  BY <1>46 DEF ClearDevice, Phase, Happens, dbVars, procVars, objVars, runVars, countVars,
     KeepSessions, KeepOthers, TypeOK, ObjTypeOK, RunTypeOK, ResetStaysOffline, States,
     Sessions
<1>47. ASSUME NEW s \in Sessions, ForgetDevice(s)
      PROVE  ResetStaysOffline'
  BY <1>47 DEF ForgetDevice, Phase, Happens, dbVars, procVars, objVars, runVars,
     countVars, KeepSessions, KeepOthers, TypeOK, ObjTypeOK, RunTypeOK, ResetStaysOffline,
     States, Sessions
<1>48. ASSUME NEW s \in Sessions, DropDevice(s)
      PROVE  ResetStaysOffline'
  BY <1>48 DEF DropDevice, Handled, WakeLoop, Goto, dbVars, procVars, objVars, runVars,
     countVars, KeepSessions, KeepOthers, TypeOK, ObjTypeOK, RunTypeOK, ResetStaysOffline,
     States, Sessions
<1>49. ASSUME NEW p \in Procs, BootFails(p)
      PROVE  ResetStaysOffline'
  BY <1>49 DEF BootFails, Happens, dbVars, procVars, objVars, runVars, countVars,
     KeepSessions, KeepOthers, TypeOK, ObjTypeOK, RunTypeOK, ResetStaysOffline, States,
     Sessions
<1> QED
  BY <1>1, <1>2, <1>3, <1>4, <1>5, <1>6, <1>7, <1>8, <1>9, <1>10, <1>11, <1>12, <1>13,
     <1>14, <1>15, <1>16, <1>17, <1>18, <1>19, <1>20, <1>21, <1>22, <1>23, <1>24, <1>25,
     <1>26, <1>27, <1>28, <1>29, <1>30, <1>31, <1>32, <1>33, <1>34, <1>35, <1>36, <1>37,
     <1>38, <1>39, <1>40, <1>41, <1>42, <1>43, <1>44, <1>45, <1>46, <1>47, <1>48, <1>49
     DEF Next, Main, Request, Session, Outside, Handle

(* The invariant holds at the start and through every step. *)
THEOREM SessionInvariant == Spec => []SessionInv
<1>1. Init => SessionInv
  <2> SUFFICES ASSUME Init PROVE SessionInv
    OBVIOUS
  <2>1. TypeOK
    BY SessionAssumption, SomeProcType, RestType DEF Init, TypeOK, DbTypeOK, ProcTypeOK, ObjTypeOK,
       RunTypeOK, CountTypeOK, Sessions, Devices, Boots, Runs, States, Events, NoEvent
  <2>2. RefInv
    BY RestType, RestProc DEF Init, RefInv, ThreadOK, MapOK, OneStarter, Starting
  <2>3. LockNeverLeaks /\ InstalledHoldsLock /\ ResetStaysOffline
    BY DEF Init, LockNeverLeaks, InstalledHoldsLock, ResetStaysOffline
  <2> QED
    BY <2>1, <2>2, <2>3 DEF SessionInv
<1>2. SessionInv /\ [Next]_vars => SessionInv'
  BY TypeStep, RefStep, LeakStep, InstalledStep, ResetStep DEF SessionInv
<1> QED
  BY <1>1, <1>2, PTL DEF Spec

(* The session objects, processes and requests keep their types. *)
THEOREM SessionTypes == Spec => []TypeOK
BY SessionInvariant, PTL DEF SessionInv

(* acquireBrokerLock: whatever fails, crashes or is cancelled, the lock of a    *)
(* phone is held by a session that is being started or has still to leave.     *)
THEOREM LockIsAlwaysReleasable == Spec => []LockNeverLeaks
BY SessionInvariant, PTL DEF SessionInv

(* StartOrGet, main and Remove: the session a process shows holds the lock. *)
THEOREM ShownSessionOwnsPhone == Spec => []InstalledHoldsLock
BY SessionInvariant, PTL DEF SessionInv

(* setStatus: a session that is being reset is not shown as connected. *)
THEOREM ResetIsNotUndone == Spec => []ResetStaysOffline
BY SessionInvariant, PTL DEF SessionInv

(* Two processes never both show a running session of the phone that was       *)
(* neither cancelled nor restarted after a panic.                              *)
THEOREM OneOwner ==
  Spec => [](\A p, q \in Procs :
    /\ sessions[p] # 0 /\ run[sessions[p]] \in Running
    /\ sessions[p] \notin cancelled \union panicked
    /\ sessions[q] # 0 /\ run[sessions[q]] \in Running
    /\ sessions[q] \notin cancelled \union panicked
    => p = q)
<1>1. SessionInv =>
        \A p, q \in Procs :
          /\ sessions[p] # 0 /\ run[sessions[p]] \in Running
          /\ sessions[p] \notin cancelled \union panicked
          /\ sessions[q] # 0 /\ run[sessions[q]] \in Running
          /\ sessions[q] \notin cancelled \union panicked
          => p = q
  BY DEF SessionInv, InstalledHoldsLock, RefInv, MapOK
<1> QED
  BY <1>1, SessionInvariant, PTL
=============================================================================
