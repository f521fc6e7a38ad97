---------------------------- MODULE BrokerSession ----------------------------
(***************************************************************************)
(* The WhatsApp session of one phone in services/whatsmeow-ingestor/main.go *)
(* across the ingestor processes of a deployment: the SessionManager map,  *)
(* the advisory lock of the phone, the device mapping and credential store *)
(* in the database, the session goroutines with their client, heartbeat    *)
(* and event handler, and the HTTP handlers that start, pair, reset,       *)
(* disconnect and delete a session. One action is one database call, one   *)
(* critical section or one event. WhatsApp and whatsmeow are external:     *)
(* they pair, drop, replace and log out a client at any time.              *)
(***************************************************************************)
EXTENDS Integers, FiniteSets

CONSTANTS
  Procs,         \* ingestor processes
  Handlers,      \* HTTP requests that may be in flight
  Operations,    \* the requests users make
  MaxSessions,   \* bound: BrokerSession objects in use at a time
  MaxDevices,    \* bound: devices paired in a behaviour, one before it included
  MaxRequests,   \* bound: requests in a behaviour
  MaxBoots,      \* bound: process starts in a behaviour
  MaxEvents      \* bound: heartbeats, panics, failed calls and lost sockets

ASSUME SessionAssumption ==
  /\ Procs # {} /\ Procs \intersect Handlers = {}
  /\ Operations \subseteq {"connect", "code", "reset", "disconnect", "delete"}
  /\ MaxSessions \in Nat /\ MaxDevices \in Nat \ {0} /\ MaxRequests \in Nat
  /\ MaxBoots \in Nat /\ MaxEvents \in Nat

VARIABLES
  (* the database *)
  mapping,    \* device_jid of broker_whatsapp_devices, 0 if there is no row
  store,      \* devices whose credentials whatsmeow's store holds
  lock,       \* the session whose connection holds the advisory lock, 0 if none
  (* processes *)
  boot,       \* where main is
  found,      \* the device main has read
  restoring,  \* processes with a restoreSessionWhenAvailable goroutine
  sessions,   \* SessionManager.sessions of the phone, 0 if none
  (* BrokerSession objects *)
  proc, dev, status,
  resetting, cancelled,
  code,       \* sessions with pairingMode "code"
  (* their goroutines *)
  run,        \* where runSession is
  up,         \* sessions whose client is connected, its handlers set
  beat,       \* the status a heartbeat has read and not yet written
  event,      \* the event being handled
  (* requests, and the restore goroutine of a process under its name *)
  req,
  (* history: sessions that recovered from a panic; and bounds *)
  panicked, paired, requests, boots, events

dbVars == <<mapping, store, lock>>
procVars == <<boot, found, restoring>>
objVars == <<proc, dev, status, resetting, cancelled, code>>
runVars == <<run, up, beat, event>>
countVars == <<paired, requests, boots, events>>
vars == <<dbVars, procVars, sessions, objVars, runVars, req, panicked, countVars>>

Sessions == 1..MaxSessions
Devices == 1..MaxDevices
Threads == Handlers \union Procs
Boots == {"down", "start", "unmap", "lock", "up"}
Waiting == {"pairing", "coding", "online"}   \* blocked in a select of runSession
Running == {"loop", "dial"} \union Waiting
Live == {"leaving"} \union Running
Runs == {"none", "starting", "ended"} \union Live
States == {"offline", "pairing_error", "open"}  \* "open" is Connected: true
Events == [pc: {"none", "hello", "paired", "mapped", "down", "out", "clear", "unmap", "drop"},
           dev: Devices \union {0}]
Calls == {"idle", "drop", "discard", "get", "lock", "look", "install",
          "mark", "unlink", "unmap", "wipe", "remove", "cancel", "clear",
          "cold", "erase", "forget"}
Requests == [pc: Calls, op: Operations \union {"none", "connect"}, proc: Procs,
             session: Sessions \union {0}, dev: Devices \union {0}]

NoEvent == [pc |-> "none", dev |-> 0]
SomeProc == CHOOSE p \in Procs : TRUE
Rest(h) == [pc |-> "idle", op |-> "none", proc |-> IF h \in Procs THEN h ELSE SomeProc,
            session |-> 0, dev |-> 0]

(* A phone that was paired before, or never. *)
Init ==
  /\ mapping \in {0, 1} /\ store = {mapping} \ {0} /\ lock = 0
  /\ boot = [p \in Procs |-> "down"]
  /\ found = [p \in Procs |-> 0]
  /\ restoring = {}
  /\ sessions = [p \in Procs |-> 0]
  /\ proc = [s \in Sessions |-> SomeProc]
  /\ dev = [s \in Sessions |-> 0]
  /\ status = [s \in Sessions |-> "offline"]
  /\ resetting = {} /\ cancelled = {} /\ code = {}
  /\ run = [s \in Sessions |-> "none"]
  /\ up = {}
  /\ beat = [s \in Sessions |-> "none"]
  /\ event = [s \in Sessions |-> NoEvent]
  /\ req = [h \in Threads |-> Rest(h)]
  /\ panicked = {}
  /\ paired = 1 /\ requests = 0 /\ boots = 0 /\ events = 0

-----------------------------------------------------------------------------
(* Mutant: the socket's state where the connection's is meant. *)
ShownSocket(s, st) == IF s \in resetting /\ st = "open" THEN "closed" ELSE st

(* setStatus: a session being reset is never shown as connected. *)
Shown(s, st) == IF s \in resetting /\ st = "open" THEN "offline" ELSE st
SetStatus(s, st) == status' = [status EXCEPT ![s] = Shown(s, st)]

Goto(s, to) == run' = [run EXCEPT ![s] = to]
FreeLock(s) == lock' = IF lock = s THEN 0 ELSE lock
Happens == events < MaxEvents /\ events' = events + 1

(* What lookupDeviceJID and GetDevice find. *)
Mapped == IF mapping \in store THEN mapping ELSE 0

(* The next BrokerSession object: one nothing refers to any more. *)
Free(s) ==
  /\ run[s] \in {"none", "ended"} /\ event[s] = NoEvent /\ beat[s] = "none" /\ lock # s
  /\ \A p \in Procs : sessions[p] # s
  /\ \A h \in Threads : req[h].session # s
Unused(s) == Free(s) /\ \A t \in Sessions : Free(t) => s <= t

(* newSession, with the lock it was given. *)
Create(s, p, d, to) ==
  /\ Unused(s) /\ Goto(s, to)
  /\ proc' = [proc EXCEPT ![s] = p]
  /\ dev' = [dev EXCEPT ![s] = d]
  /\ status' = [status EXCEPT ![s] = "offline"]
  /\ resetting' = resetting \ {s} /\ cancelled' = cancelled \ {s} /\ code' = code \ {s}
  /\ panicked' = panicked \ {s}
  /\ lock' = s
  /\ UNCHANGED <<mapping, store, up, beat, event>>

-----------------------------------------------------------------------------
(* main, and restoreSessionWhenAvailable. *)

KeepSessions == UNCHANGED <<objVars, runVars, panicked>>

Start(p) ==
  /\ boot[p] = "down" /\ boots < MaxBoots
  /\ boot' = [boot EXCEPT ![p] = "start"]
  /\ boots' = boots + 1
  /\ UNCHANGED <<dbVars, found, restoring, sessions, req, paired, requests, events>>
  /\ KeepSessions

(* The mapping and its device are read before the lock is asked for. *)
BootRead(p) ==
  /\ boot[p] = "start"
  /\ boot' = [boot EXCEPT ![p] =
       CASE mapping = 0 -> "up" [] Mapped # 0 -> "lock" [] OTHER -> "unmap"]
  /\ found' = [found EXCEPT ![p] = Mapped]
  /\ UNCHANGED <<dbVars, restoring, sessions, req, countVars>> /\ KeepSessions

BootUnmap(p) ==
  /\ boot[p] = "unmap"
  /\ boot' = [boot EXCEPT ![p] = "up"]
  /\ mapping' = 0
  /\ UNCHANGED <<store, lock, found, restoring, sessions, req, countVars>> /\ KeepSessions

(* Mutant: main starts the session whether or not it got the lock. *)
BootLockIgnored(p) ==
  /\ boot[p] = "lock"
  /\ boot' = [boot EXCEPT ![p] = "up"]
  /\ found' = [found EXCEPT ![p] = 0]
  /\ \E s \in Sessions :
       /\ Create(s, p, found[p], "loop")
       /\ sessions' = [sessions EXCEPT ![p] = s]
  /\ UNCHANGED <<restoring, req, countVars>>

BootLock(p) ==
  /\ boot[p] = "lock"
  /\ boot' = [boot EXCEPT ![p] = "up"]
  /\ found' = [found EXCEPT ![p] = 0]
  /\ \/ /\ lock = 0
        /\ \E s \in Sessions :
             /\ Create(s, p, found[p], "loop")
             /\ sessions' = [sessions EXCEPT ![p] = s]
        /\ UNCHANGED restoring
     \/ /\ lock # 0
        /\ restoring' = restoring \union {p}
        /\ UNCHANGED <<dbVars, sessions>> /\ KeepSessions
  /\ UNCHANGED <<req, countVars>>

(* A call fails, or the device cannot be read: nothing restores the phone. *)
BootFails(p) ==
  /\ boot[p] \in {"start", "lock"} /\ Happens
  /\ boot' = [boot EXCEPT ![p] = "up"]
  /\ found' = [found EXCEPT ![p] = 0]
  /\ UNCHANGED <<dbVars, restoring, sessions, req, paired, requests, boots>> /\ KeepSessions

(* One turn of the restore loop ends it, or calls StartOrGet. *)
Restore(p) ==
  /\ p \in restoring /\ req[p].pc = "idle" /\ boot[p] = "up"
  /\ IF sessions[p] # 0 \/ mapping = 0
     THEN restoring' = restoring \ {p} /\ UNCHANGED req
     ELSE req' = [req EXCEPT ![p].pc = "get", ![p].op = "connect"] /\ UNCHANGED restoring
  /\ UNCHANGED <<dbVars, boot, found, sessions, countVars>> /\ KeepSessions

(* SIGTERM: main cancels the session in its map and waits for it. *)
Shutdown(p) ==
  /\ boot[p] = "up" /\ sessions[p] \notin cancelled \union {0}
  /\ cancelled' = cancelled \union {sessions[p]}
  /\ UNCHANGED <<dbVars, procVars, sessions, proc, dev, status, resetting, code, runVars, req,
                 panicked, countVars>>

(* The process is gone, after that or at once, and its objects and connections *)
(* with it.                                                                   *)
Exit(p) ==
  LET mine == {s \in Sessions : run[s] # "none" /\ proc[s] = p}
      Without(f, none) == [s \in Sessions |-> IF s \in mine THEN none ELSE f[s]] IN
    /\ boot[p] # "down"
    /\ boot' = [boot EXCEPT ![p] = "down"]
    /\ found' = [found EXCEPT ![p] = 0]
    /\ restoring' = restoring \ {p}
    /\ sessions' = [sessions EXCEPT ![p] = 0]
    /\ lock' = IF lock \in mine THEN 0 ELSE lock
    /\ proc' = Without(proc, SomeProc) /\ dev' = Without(dev, 0)
    /\ status' = Without(status, "offline") /\ run' = Without(run, "none")
    /\ beat' = Without(beat, "none") /\ event' = Without(event, NoEvent)
    /\ resetting' = resetting \ mine /\ cancelled' = cancelled \ mine /\ code' = code \ mine
    /\ up' = up \ mine /\ panicked' = panicked \ mine
    /\ req' = [h \in Threads |-> IF req[h].proc = p THEN Rest(h) ELSE req[h]]
    /\ UNCHANGED <<mapping, store, countVars>>

-----------------------------------------------------------------------------
(* Requests. Each handler runs on, one database call or critical section at a *)
(* time, on the process that received it.                                    *)

Step(h, pc) == req' = [req EXCEPT ![h].pc = pc]

(* The answer is sent: a restore goroutine that got a session is finished. *)
Done(h, got) ==
  /\ req' = [req EXCEPT ![h] = Rest(h)]
  /\ restoring' = IF got THEN restoring \ {h} ELSE restoring

First(o, s) ==
  CASE o = "connect" -> "get"
    [] o = "code" -> "drop"
    [] o = "reset" /\ s # 0 -> "mark"
    [] o \in {"disconnect", "delete"} /\ s # 0 -> "cancel"
    [] OTHER -> "cold"

Begin(h, p, o) ==
  /\ req[h].pc = "idle" /\ boot[p] = "up" /\ requests < MaxRequests
  /\ o = "disconnect" => sessions[p] # 0
  /\ requests' = requests + 1
  /\ req' = [req EXCEPT ![h] =
       [pc |-> First(o, sessions[p]), op |-> o, proc |-> p, dev |-> 0,
        session |-> IF o \in {"connect", "code"} THEN 0 ELSE sessions[p]]]
  /\ UNCHANGED <<dbVars, procVars, sessions, paired, boots, events>> /\ KeepSessions

(* StartOrGetForCodePairing: a failed attempt leaves the map, its status is *)
(* read again, and it is stopped if that still is the failure.              *)
Drop(h) ==
  LET p == req[h].proc
      s == sessions[p] IN
    /\ req[h].pc = "drop"
    /\ IF s = 0 THEN Step(h, "get")
       ELSE req' = [req EXCEPT ![h].pc = "discard", ![h].session = s]
    /\ sessions' = IF s # 0 /\ status[s] = "pairing_error"
                   THEN [sessions EXCEPT ![p] = 0] ELSE sessions
    /\ UNCHANGED <<dbVars, procVars, countVars>> /\ KeepSessions

Discard(h) ==
  LET s == req[h].session IN
    /\ req[h].pc = "discard"
    /\ req' = [req EXCEPT ![h].pc = "get", ![h].session = 0]
    /\ IF status[s] = "pairing_error"
       THEN cancelled' = cancelled \union {s} /\ FreeLock(s)
       ELSE UNCHANGED <<cancelled, lock>>
    /\ UNCHANGED <<mapping, store, procVars, sessions, proc, dev, status, resetting, code,
                   runVars, panicked, countVars>>

(* configureBeforeStart: a pairing request by phone code ends a reset. *)
Configure(h, s) ==
  IF req[h].op = "code"
  THEN /\ resetting' = resetting \ {s}
       /\ code' = code \union {s}
       /\ status' = [status EXCEPT ![s] = "offline"]
  ELSE UNCHANGED <<resetting, code, status>>

Get(h) ==
  LET s == sessions[req[h].proc] IN
    /\ req[h].pc = "get"
    /\ IF s = 0
       THEN Step(h, "lock") /\ UNCHANGED <<restoring, resetting, code, status>>
       ELSE Done(h, TRUE) /\ Configure(h, s)
    /\ UNCHANGED <<dbVars, boot, found, sessions, proc, dev, cancelled, runVars, panicked,
                   countVars>>

(* Mutant: the restore goroutine takes a refused lock for an answer. *)
LockGivesUp(h) ==
  /\ req[h].pc = "lock"
  /\ \/ /\ lock = 0
        /\ \E s \in Sessions :
             /\ Create(s, req[h].proc, 0, "starting")
             /\ req' = [req EXCEPT ![h].pc = "look", ![h].session = s]
        /\ UNCHANGED restoring
     \/ /\ lock # 0 /\ Done(h, TRUE)
        /\ UNCHANGED dbVars /\ KeepSessions
  /\ UNCHANGED <<boot, found, sessions, countVars>>

Lock(h) ==
  /\ req[h].pc = "lock"
  /\ \/ /\ lock = 0
        /\ \E s \in Sessions :
             /\ Create(s, req[h].proc, 0, "starting")
             /\ req' = [req EXCEPT ![h].pc = "look", ![h].session = s]
        /\ UNCHANGED restoring
     \/ /\ lock # 0 /\ Done(h, FALSE)
        /\ UNCHANGED dbVars /\ KeepSessions
  /\ UNCHANGED <<boot, found, sessions, countVars>>

Look(h) ==
  /\ req[h].pc = "look" /\ Step(h, "install")
  /\ dev' = [dev EXCEPT ![req[h].session] = Mapped]
  /\ UNCHANGED <<dbVars, procVars, sessions, proc, status, resetting, cancelled, code, runVars,
                 panicked, countVars>>

(* Mutant: a failed lookup returns without releasing the lock. *)
LookFailsKeeping(h) ==
  /\ req[h].pc = "look" /\ Happens /\ Done(h, FALSE)
  /\ Goto(req[h].session, "ended")
  /\ UNCHANGED <<dbVars, boot, found, sessions, objVars, up, beat, event, panicked,
                 paired, requests, boots>>

LookFails(h) ==
  /\ req[h].pc = "look" /\ Happens /\ Done(h, FALSE)
  /\ Goto(req[h].session, "ended") /\ FreeLock(req[h].session)
  /\ UNCHANGED <<mapping, store, boot, found, sessions, objVars, up, beat, event, panicked,
                 paired, requests, boots>>

(* Mutant: the lock connection is closed on every return. *)
InstallReleasing(h) ==
  LET s == req[h].session
      p == req[h].proc
      existing == sessions[p] IN
    /\ req[h].pc = "install" /\ Done(h, TRUE) /\ FreeLock(s)
    /\ IF existing = 0
       THEN /\ Configure(h, s) /\ Goto(s, "loop")
            /\ sessions' = [sessions EXCEPT ![p] = s]
       ELSE /\ Configure(h, existing) /\ Goto(s, "ended")
            /\ UNCHANGED sessions
    /\ UNCHANGED <<mapping, store, boot, found, proc, dev, cancelled, up, beat, event, panicked,
                   countVars>>

(* The map is read again: a session installed meanwhile wins. *)
Install(h) ==
  LET s == req[h].session
      p == req[h].proc
      existing == sessions[p] IN
    /\ req[h].pc = "install" /\ Done(h, TRUE)
    /\ IF existing = 0
       THEN /\ Configure(h, s) /\ Goto(s, "loop")
            /\ sessions' = [sessions EXCEPT ![p] = s]
            /\ UNCHANGED lock
       ELSE /\ Configure(h, existing) /\ Goto(s, "ended") /\ FreeLock(s)
            /\ UNCHANGED sessions
    /\ UNCHANGED <<mapping, store, boot, found, proc, dev, cancelled, up, beat, event, panicked,
                   countVars>>

-----------------------------------------------------------------------------
(* resetHandler, disconnectHandler and deleteSessionHandler. *)

Mark(h) ==
  LET s == req[h].session IN
    /\ req[h].pc = "mark" /\ Step(h, "unlink")
    /\ resetting' = resetting \union {s}
    /\ code' = code \ {s}
    /\ status' = [status EXCEPT ![s] = "offline"]
    /\ UNCHANGED <<dbVars, procVars, sessions, proc, dev, cancelled, runVars, panicked, countVars>>

(* Logout, or clearDevice if that fails or the client is not connected. A     *)
(* session in its first turn has no client, and keeps its credentials.       *)
Unlink(h) ==
  LET s == req[h].session IN
    /\ req[h].pc = "unlink" /\ Step(h, "unmap")
    /\ \/ /\ store' = store \ {dev[s]}
          /\ dev' = [dev EXCEPT ![s] = 0]
       \/ run[s] = "loop" /\ UNCHANGED <<store, dev>>
    /\ up' \in {up, up \ {s}}
    /\ UNCHANGED <<mapping, lock, procVars, sessions, proc, status, resetting, cancelled, code,
                   run, beat, event, panicked, countVars>>

Cancel(h, to) ==
  /\ Step(h, to)
  /\ cancelled' = cancelled \union {req[h].session}
  /\ UNCHANGED <<dbVars, procVars, sessions, proc, status, resetting, code, run, beat, event,
                 panicked, paired, requests, boots>>

(* A reset that cannot clear the credentials or the mapping stops the session. *)
ResetFails(h) ==
  /\ req[h].op = "reset" /\ req[h].pc \in {"unlink", "unmap"} /\ Happens
  /\ Cancel(h, "remove")
  /\ UNCHANGED <<dev, up>>

Wipe(h) ==
  LET s == req[h].session IN
    /\ req[h].pc = "wipe" /\ Cancel(h, "remove")
    /\ dev' = [dev EXCEPT ![s] = 0]
    /\ up' = up \ {s}
    /\ UNCHANGED events

Stop(h) ==
  /\ req[h].pc = "cancel"
  /\ Cancel(h, IF req[h].op = "delete" THEN "clear" ELSE "remove")
  /\ UNCHANGED <<dev, up, events>>

(* clearDevice of a delete; its error is ignored. *)
Clear(h) ==
  LET s == req[h].session IN
    /\ req[h].pc = "clear" /\ Step(h, "remove")
    /\ \/ /\ store' = store \ {dev[s]}
          /\ dev' = [dev EXCEPT ![s] = 0]
          /\ UNCHANGED events
       \/ Happens /\ UNCHANGED <<store, dev>>
    /\ UNCHANGED <<mapping, lock, procVars, sessions, proc, status, resetting, cancelled, code,
                   runVars, panicked, paired, requests, boots>>

(* Remove takes the session the map holds now, not the one that was stopped. *)
Remove(h) ==
  LET p == req[h].proc IN
    /\ req[h].pc = "remove"
    /\ sessions' = [sessions EXCEPT ![p] = 0]
    /\ lock' = IF sessions[p] # 0 /\ lock = sessions[p] THEN 0 ELSE lock
    /\ IF req[h].op = "delete" THEN Step(h, "unmap") /\ UNCHANGED restoring ELSE Done(h, FALSE)
    /\ UNCHANGED <<mapping, store, boot, found, countVars>> /\ KeepSessions

Unmap(h) ==
  /\ req[h].pc = "unmap"
  /\ mapping' = 0
  /\ IF req[h].op = "reset" THEN Step(h, "wipe") /\ UNCHANGED restoring ELSE Done(h, FALSE)
  /\ UNCHANGED <<store, lock, boot, found, sessions, countVars>> /\ KeepSessions

(* With no session in this process the stored credentials are erased. *)
Cold(h) ==
  /\ req[h].pc = "cold"
  /\ req' = [req EXCEPT ![h].pc = IF Mapped = 0 THEN "forget" ELSE "erase", ![h].dev = Mapped]
  /\ UNCHANGED <<dbVars, procVars, sessions, countVars>> /\ KeepSessions

Erase(h) ==
  /\ req[h].pc = "erase" /\ Step(h, "forget")
  /\ \/ store' = store \ {req[h].dev} /\ UNCHANGED events
     \/ req[h].op = "delete" /\ Happens /\ UNCHANGED store
  /\ UNCHANGED <<mapping, lock, procVars, sessions, paired, requests, boots>> /\ KeepSessions

Forget(h) ==
  /\ req[h].pc = "forget" /\ Done(h, FALSE)
  /\ mapping' = 0
  /\ UNCHANGED <<store, lock, boot, found, sessions, countVars>> /\ KeepSessions

(* A failed call ends the request where it stands. *)
CallFails(h) ==
  /\ \/ req[h].pc \in {"cold", "forget"}
     \/ req[h].pc = "erase" /\ req[h].op = "reset"
     \/ req[h].pc = "unmap" /\ req[h].op = "delete"
  /\ Happens /\ Done(h, FALSE)
  /\ UNCHANGED <<dbVars, boot, found, sessions, paired, requests, boots>> /\ KeepSessions

-----------------------------------------------------------------------------
(* runSession. *)

KeepOthers == UNCHANGED <<procVars, sessions, req, panicked, paired, requests, boots>>

(* The old client goes, a new one will be made. *)
Dial(s) ==
  /\ run[s] = "loop" /\ s \notin cancelled /\ Goto(s, "dial")
  /\ up' = up \ {s}
  /\ SetStatus(s, "offline")
  /\ UNCHANGED <<dbVars, proc, dev, resetting, cancelled, code, beat, event, events>> /\ KeepOthers

(* Connect succeeds, and the heartbeat starts; or the loop turns again. *)
Connect(s) ==
  /\ run[s] = "dial"
  /\ \/ /\ Goto(s, IF dev[s] # 0 THEN "online" ELSE IF s \in code THEN "coding" ELSE "pairing")
        /\ up' = up \union {s}
        /\ UNCHANGED events
     \/ Goto(s, "loop") /\ Happens /\ UNCHANGED up
  /\ UNCHANGED <<dbVars, objVars, beat, event>> /\ KeepOthers

(* The user scans or types the code: the QR channel closes on a paired device. *)
PairDone(s) ==
  /\ run[s] \in {"pairing", "coding"} /\ dev[s] = 0 /\ s \in up /\ event[s] = NoEvent
  /\ paired < MaxDevices /\ paired' = paired + 1
  /\ store' = store \union {paired'}
  /\ dev' = [dev EXCEPT ![s] = paired']
  /\ code' = IF run[s] = "coding" THEN code \ {s} ELSE code
  /\ event' = [event EXCEPT ![s] = [pc |-> "paired", dev |-> paired']]
  /\ Goto(s, "online")
  /\ UNCHANGED <<mapping, lock, proc, status, resetting, cancelled, up, beat,
                 procVars, sessions, req, panicked, requests, boots, events>>

PairTimeout(s) ==
  /\ run[s] \in {"pairing", "coding"} /\ dev[s] = 0 /\ Goto(s, "loop")
  /\ code' = IF run[s] = "coding" THEN code \ {s} ELSE code
  /\ UNCHANGED <<dbVars, proc, dev, status, resetting, cancelled, up, beat, event, events>>
  /\ KeepOthers

(* failCodePairing: the goroutine ends, its session stays readable in the map. *)
PairFails(s) ==
  /\ run[s] = "coding" /\ Goto(s, "leaving") /\ Happens
  /\ code' = code \ {s} /\ up' = up \ {s}
  /\ status' = [status EXCEPT ![s] = "pairing_error"]
  /\ UNCHANGED <<dbVars, proc, dev, resetting, cancelled, beat, event>> /\ KeepOthers

(* The socket of a paired client opens, first or again. *)
Opens(s) ==
  /\ s \in up /\ run[s] \in Waiting /\ event[s] = NoEvent
  /\ event' = [event EXCEPT ![s] = [pc |-> "hello", dev |-> dev[s]]]
  /\ UNCHANGED <<dbVars, objVars, run, up, beat, events>> /\ KeepOthers

(* It closes, is replaced, or WhatsApp has logged it out. *)
Closes(s) ==
  /\ s \in up /\ run[s] \in Waiting /\ event[s] = NoEvent /\ Happens
  /\ up' = up \ {s}
  /\ \E pc \in {"down", "out"} : event' = [event EXCEPT ![s] = [pc |-> pc, dev |-> 0]]
  /\ UNCHANGED <<dbVars, objVars, run, beat>> /\ KeepOthers

(* Mutant: the pairing waits do not select on ctx.Done. *)
SeeCancelOnline(s) ==
  /\ run[s] \in {"loop", "online"} /\ s \in cancelled /\ Goto(s, "leaving")
  /\ up' = up \ {s}
  /\ UNCHANGED <<dbVars, objVars, beat, event, events>> /\ KeepOthers

(* The heartbeat is stopped and the client disconnected; the lock goes last. *)
SeeCancel(s) ==
  /\ run[s] \in Waiting \union {"loop"} /\ s \in cancelled /\ Goto(s, "leaving")
  /\ up' = up \ {s}
  /\ UNCHANGED <<dbVars, objVars, beat, event, events>> /\ KeepOthers

Leave(s) ==
  /\ run[s] = "leaving" /\ Goto(s, "ended") /\ FreeLock(s)
  /\ UNCHANGED <<mapping, store, objVars, up, beat, event, events>> /\ KeepOthers

(* The deferred calls disconnect the client and release the lock, and then  *)
(* recover starts the goroutine again.                                      *)
Panic(s) ==
  /\ run[s] \in Running /\ Happens
  /\ up' = up \ {s}
  /\ FreeLock(s)
  /\ SetStatus(s, "offline")
  /\ Goto(s, IF s \in cancelled THEN "ended" ELSE "loop")
  /\ panicked' = panicked \union {s}
  /\ UNCHANGED <<mapping, store, proc, dev, resetting, cancelled, code, beat, event,
                 procVars, sessions, req, paired, requests, boots>>

(* The heartbeat reads the status, and writes it back with the time. A panic
   leaves the heartbeat of its turn running. *)
BeatRead(s) ==
  /\ run[s] \in Waiting \/ s \in panicked
  /\ s \notin cancelled /\ beat[s] = "none" /\ Happens
  /\ beat' = [beat EXCEPT ![s] = status[s]]
  /\ UNCHANGED <<dbVars, objVars, run, up, event>> /\ KeepOthers

(* Mutant: the heartbeat writes the status without setStatus. *)
BeatWriteRaw(s) ==
  /\ beat[s] # "none"
  /\ status' = [status EXCEPT ![s] = beat[s]]
  /\ beat' = [beat EXCEPT ![s] = "none"]
  /\ UNCHANGED <<dbVars, proc, dev, resetting, cancelled, code, run, up, event, events>>
  /\ KeepOthers

BeatWrite(s) ==
  /\ beat[s] # "none"
  /\ SetStatus(s, beat[s])
  /\ beat' = [beat EXCEPT ![s] = "none"]
  /\ UNCHANGED <<dbVars, proc, dev, resetting, cancelled, code, run, up, event, events>>
  /\ KeepOthers

-----------------------------------------------------------------------------
(* handleEvent, in whatsmeow's goroutine: one event of a client at a time. *)

Phase(s, pc) == event' = [event EXCEPT ![s].pc = pc]
Handled(s) == event' = [event EXCEPT ![s] = NoEvent]

(* Connected *)
Hello(s) ==
  /\ event[s].pc = "hello" /\ Handled(s)
  /\ SetStatus(s, IF event[s].dev # 0 THEN "open" ELSE "offline")
  /\ UNCHANGED <<dbVars, proc, dev, resetting, cancelled, code, run, up, beat, events>>
  /\ KeepOthers

(* PairSuccess: saveDeviceJID, whose error is ignored, and then the status. *)
SaveDevice(s) ==
  /\ event[s].pc = "paired" /\ Phase(s, "mapped")
  /\ \/ mapping' = event[s].dev /\ UNCHANGED events
     \/ Happens /\ UNCHANGED mapping
  /\ UNCHANGED <<store, lock, objVars, run, up, beat>> /\ KeepOthers

Paired(s) ==
  /\ event[s].pc = "mapped" /\ Handled(s)
  /\ SetStatus(s, "open")
  /\ UNCHANGED <<dbVars, proc, dev, resetting, cancelled, code, run, up, beat, events>>
  /\ KeepOthers

(* Disconnected and StreamReplaced *)
WakeLoop(s) == Goto(s, IF run[s] \in Waiting THEN "loop" ELSE run[s])

Down(s) ==
  /\ event[s].pc = "down" /\ Handled(s)
  /\ SetStatus(s, "offline") /\ WakeLoop(s)
  /\ UNCHANGED <<dbVars, proc, dev, resetting, cancelled, code, up, beat, events>> /\ KeepOthers

(* LoggedOut *)
LoggedOut(s) ==
  /\ event[s].pc = "out" /\ Phase(s, "clear")
  /\ SetStatus(s, "offline")
  /\ UNCHANGED <<dbVars, proc, dev, resetting, cancelled, code, run, up, beat, events>>
  /\ KeepOthers

ClearDevice(s) ==
  /\ event[s].pc = "clear" /\ Phase(s, "unmap")
  /\ \/ /\ store' = store \ {dev[s]} /\ UNCHANGED events
        /\ dev' = [dev EXCEPT ![s] = 0]
     \/ Happens /\ UNCHANGED <<store, dev>>
  /\ UNCHANGED <<mapping, lock, proc, status, resetting, cancelled, code, run, up, beat>>
  /\ KeepOthers

ForgetDevice(s) ==
  /\ event[s].pc = "unmap" /\ Phase(s, "drop")
  /\ \/ mapping' = 0 /\ UNCHANGED events
     \/ Happens /\ UNCHANGED mapping
  /\ UNCHANGED <<store, lock, objVars, run, up, beat>> /\ KeepOthers

DropDevice(s) ==
  /\ event[s].pc = "drop" /\ Handled(s)
  /\ dev' = [dev EXCEPT ![s] = 0]
  /\ WakeLoop(s)
  /\ UNCHANGED <<dbVars, proc, status, resetting, cancelled, code, up, beat, events>>
  /\ KeepOthers

-----------------------------------------------------------------------------
Main(p) ==
  Start(p) \/ BootRead(p) \/ BootUnmap(p) \/ BootLock(p) \/ BootFails(p) \/ Restore(p)

Request(h) ==
  \/ Drop(h) \/ Discard(h) \/ Get(h) \/ Lock(h) \/ Look(h) \/ LookFails(h) \/ Install(h)
  \/ Mark(h) \/ Unlink(h) \/ ResetFails(h) \/ Wipe(h) \/ Stop(h) \/ Clear(h) \/ Remove(h)
  \/ Unmap(h) \/ Cold(h) \/ Erase(h) \/ Forget(h) \/ CallFails(h)

Session(s) == Dial(s) \/ Connect(s) \/ SeeCancel(s) \/ Leave(s)

Outside(s) ==
  PairDone(s) \/ PairTimeout(s) \/ PairFails(s) \/ Opens(s) \/ Closes(s) \/ Panic(s) \/ BeatRead(s)

Handle(s) ==
  \/ Hello(s) \/ SaveDevice(s) \/ Paired(s) \/ Down(s)
  \/ LoggedOut(s) \/ ClearDevice(s) \/ ForgetDevice(s) \/ DropDevice(s)

Next ==
  \/ \E p \in Procs : Main(p) \/ Shutdown(p) \/ Exit(p)
  \/ \E h \in Handlers, p \in Procs, o \in Operations : Begin(h, p, o)
  \/ \E h \in Threads : Request(h)
  \/ \E s \in Sessions : Session(s) \/ Outside(s) \/ BeatWrite(s) \/ Handle(s)

Spec == Init /\ [][Next]_vars

(* A session goroutine, an HTTP handler and a restore goroutine keep taking    *)
(* steps while their process lives; nothing makes a process, a user, WhatsApp, *)
(* a heartbeat or an event handler act.                                       *)
FairSpec ==
  /\ Spec
  /\ \A h \in Handlers : WF_vars(Request(h))
  /\ \A p \in Procs : WF_vars(Restore(p) \/ Request(p))
  /\ \A s \in Sessions : WF_vars(Session(s))

-----------------------------------------------------------------------------
(* The variables hold what their types say. *)
DbTypeOK ==
  mapping \in Devices \union {0} /\ store \subseteq Devices /\ lock \in Sessions \union {0}
ProcTypeOK ==
  /\ boot \in [Procs -> Boots] /\ found \in [Procs -> Devices \union {0}]
  /\ restoring \subseteq Procs
  /\ sessions \in [Procs -> Sessions \union {0}]
ObjTypeOK ==
  /\ proc \in [Sessions -> Procs] /\ dev \in [Sessions -> Devices \union {0}]
  /\ status \in [Sessions -> States]
  /\ resetting \subseteq Sessions /\ cancelled \subseteq Sessions /\ code \subseteq Sessions
RunTypeOK ==
  /\ run \in [Sessions -> Runs] /\ up \subseteq Sessions
  /\ beat \in [Sessions -> States \union {"none"}] /\ event \in [Sessions -> Events]
  /\ panicked \subseteq Sessions
CountTypeOK ==
  /\ paired \in Devices /\ requests \in 0..MaxRequests
  /\ boots \in 0..MaxBoots /\ events \in 0..MaxEvents
TypeOK ==
  /\ DbTypeOK /\ ProcTypeOK /\ ObjTypeOK /\ RunTypeOK /\ CountTypeOK
  /\ req \in [Threads -> Requests]

(* acquireBrokerLock and releaseLock: the advisory lock of a phone belongs to *)
(* a session a request is starting, or whose goroutine has not yet left, in a *)
(* process that is up. A connection never keeps it after its session is gone, *)
(* which would lock every process out of the phone.                           *)
LockNeverLeaks ==
  lock # 0 =>
    /\ boot[proc[lock]] = "up"
    /\ \/ run[lock] \in Live
       \/ /\ run[lock] = "starting"
          /\ \E h \in Threads : req[h].session = lock /\ req[h].pc \in {"look", "install"}

(* Start, hand-over and reset: the session a process shows for a phone holds   *)
(* the phone's lock while it runs, unless it was cancelled or has recovered    *)
(* from a panic, so that no two processes run such a session of one phone.     *)
InstalledHoldsLock ==
  \A p \in Procs :
    LET s == sessions[p] IN
      s # 0 /\ run[s] \in Running /\ s \notin cancelled \union panicked => lock = s

(* setStatus: while a session is being reset, no late Connected event, pairing *)
(* or heartbeat shows it as connected.                                        *)
ResetStaysOffline == \A s \in resetting : status[s] # "open"

(* disconnect, reset, delete and shutdown: a cancelled session stops its client *)
(* and its goroutine ends, wherever it was.                                     *)
CancelledEnds ==
  \A s \in Sessions : s \in cancelled /\ run[s] \in Live ~> run[s] \in {"ended", "none"}

(* restoreSessionWhenAvailable: a process that found the phone locked gets a   *)
(* session for it, or finds it unpaired, once the other processes are gone.    *)
HandoffCompletes ==
  \A p \in Procs :
    p \in restoring ~>
      sessions[p] # 0 \/ mapping = 0 \/ boot[p] # "up" \/ \E q \in Procs \ {p} : boot[q] # "down"
=============================================================================
