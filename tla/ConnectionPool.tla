---------------------------- MODULE ConnectionPool ----------------------------
(***************************************************************************)
(* Who keeps a connection of sm.db in services/whatsmeow-ingestor/main.go, *)
(* one process with all its phones. The pool is small, every session keeps *)
(* one connection for its advisory lock as long as it lives, main keeps    *)
(* its cursor open while it restores the sessions, and a start takes a     *)
(* second connection while it keeps the first. BrokerSession is about one  *)
(* phone and takes connections for granted; here what a session does with  *)
(* WhatsApp is left out.                                                   *)
(***************************************************************************)
EXTENDS Integers, FiniteSets

CONSTANTS
  Phones,        \* brokers with a WhatsApp number
  MaxOpen,       \* db.SetMaxOpenConns
  MaxBoots,      \* bound: process starts in a behaviour
  MaxRequests,   \* bound: requests in a behaviour
  MaxEvents      \* bound: WhatsApp events and panics in a behaviour

ASSUME PoolAssumption ==
  /\ IsFiniteSet(Phones)
  /\ MaxOpen \in Nat \ {0}
  /\ MaxBoots \in Nat /\ MaxRequests \in Nat /\ MaxEvents \in Nat

VARIABLES
  mapped,     \* phones with a row in broker_whatsapp_devices
  main,       \* what main is doing
  listed,     \* rows its cursor has not given yet
  current,    \* the row at hand: its phone, or none
  sessions,   \* phones in SessionManager.sessions
  locked,     \* phones whose session keeps its lock connection
  restoring,  \* phones with a restoreSessionWhenAvailable goroutine
  pc,         \* where a thread is in startOrGet
  holding,    \* threads that keep a lock connection
  event,      \* what an event handler of the phone needs a connection for
  boots, requests, events

procVars == <<main, listed, current>>
threadVars == <<restoring, pc, holding>>
countVars == <<boots, requests, events>>
vars == <<mapped, procVars, sessions, locked, threadVars, event, countVars>>

Requests == {"request"} \X Phones      \* a handler that starts the phone's session
Restorers == {"restore"} \X Phones     \* its restore goroutine
Threads == Requests \union Restorers
Restorer(p) == <<"restore", p>>
Restoring == {"next", "lock", "delete"}
Places == {"idle", "acquire", "look", "install"}
Events == {"none", "message", "pair", "unlink"}

(* Connections of the pool that somebody keeps. *)
Cursor == IF main \in Restoring THEN 1 ELSE 0
Used == Cursor + Cardinality(locked) + Cardinality(holding)
Room == Used < MaxOpen

(* The advisory lock of p is with this process. *)
LockTaken(p) == p \in locked \/ \E t \in holding : t[2] = p

(* Phones this process has a row, a session or a goroutine for. *)
InPlay == listed \union current \union locked \union restoring

Init ==
  /\ mapped \in SUBSET Phones
  /\ main = "down" /\ listed = {} /\ current = {}
  /\ sessions = {} /\ locked = {} /\ restoring = {}
  /\ pc = [t \in Threads |-> "idle"]
  /\ holding = {}
  /\ event = [p \in Phones |-> "none"]
  /\ boots = 0 /\ requests = 0 /\ events = 0

-----------------------------------------------------------------------------
(* main: one pass over the stored mappings, then HTTP. *)

Boot ==
  /\ main = "down" /\ boots < MaxBoots
  /\ main' = "next" /\ listed' = mapped /\ boots' = boots + 1
  /\ UNCHANGED <<mapped, current, sessions, locked, threadVars, event, requests, events>>

(* The next row: its device loads, or is gone, or cannot be read. *)
NextRow ==
  /\ main = "next"
  /\ \E p \in listed :
       /\ listed' = listed \ {p}
       /\ \/ main' \in {"lock", "delete"} /\ current' = {p}
          \/ UNCHANGED <<main, current>>
  /\ UNCHANGED <<mapped, sessions, locked, threadVars, event, countVars>>

(* Mutant: the row is looked up again, as startOrGet does. *)
LockRowAndLook ==
  /\ main = "lock" /\ Used + 1 < MaxOpen
  /\ main' = "next" /\ current' = {}
  /\ \/ /\ \A p \in current : ~LockTaken(p)
        /\ locked' = locked \union current
        /\ sessions' = sessions \union current
        /\ UNCHANGED restoring
     \/ restoring' = restoring \union current /\ UNCHANGED <<locked, sessions>>
     \/ UNCHANGED <<locked, sessions, restoring>>
  /\ UNCHANGED <<mapped, listed, pc, holding, event, countVars>>

(* acquireBrokerLock without a deadline: granted, held elsewhere, or an error. *)
LockRow ==
  /\ main = "lock" /\ Room
  /\ main' = "next" /\ current' = {}
  /\ \/ /\ \A p \in current : ~LockTaken(p)
        /\ locked' = locked \union current
        /\ sessions' = sessions \union current
        /\ UNCHANGED restoring
     \/ restoring' = restoring \union current /\ UNCHANGED <<locked, sessions>>
     \/ UNCHANGED <<locked, sessions, restoring>>
  /\ UNCHANGED <<mapped, listed, pc, holding, event, countVars>>

DeleteRow ==
  /\ main = "delete" /\ Room
  /\ main' = "next" /\ current' = {}
  /\ mapped' = mapped \ current
  /\ UNCHANGED <<listed, sessions, locked, threadVars, event, countVars>>

CloseRows ==
  /\ main = "next" /\ listed = {}
  /\ main' = "up"
  /\ UNCHANGED <<mapped, listed, current, sessions, locked, threadVars, event, countVars>>

(* The process ends, its connections close; the rows stay. *)
Exit ==
  /\ main # "down"
  /\ main' = "down" /\ listed' = {} /\ current' = {}
  /\ sessions' = {} /\ locked' = {} /\ restoring' = {} /\ holding' = {}
  /\ pc' = [t \in Threads |-> "idle"]
  /\ event' = [p \in Phones |-> "none"]
  /\ UNCHANGED <<mapped, countVars>>

Main == NextRow \/ LockRow \/ DeleteRow \/ CloseRows

-----------------------------------------------------------------------------
(* startOrGet, for a request or for a restore goroutine. *)

UnchangedButThreads == UNCHANGED <<mapped, procVars, event, boots, events>>

(* Mutant: HTTP is served before the sessions are restored. *)
AskEarly(p) ==
  /\ main # "down" /\ p \notin sessions /\ requests < MaxRequests
  /\ pc[<<"request", p>>] = "idle"
  /\ pc' = [pc EXCEPT ![<<"request", p>>] = "acquire"]
  /\ requests' = requests + 1
  /\ UNCHANGED <<sessions, locked, restoring, holding>> /\ UnchangedButThreads

Ask(p) ==
  /\ main = "up" /\ p \notin sessions /\ requests < MaxRequests
  /\ pc[<<"request", p>>] = "idle"
  /\ pc' = [pc EXCEPT ![<<"request", p>>] = "acquire"]
  /\ requests' = requests + 1
  /\ UNCHANGED <<sessions, locked, restoring, holding>> /\ UnchangedButThreads

(* One turn of the restore loop: a session, a lookup, then startOrGet. *)
Retry(p) ==
  /\ p \in restoring /\ pc[Restorer(p)] = "idle"
  /\ IF p \in sessions
     THEN restoring' = restoring \ {p} /\ UNCHANGED pc
     ELSE /\ Room
          /\ IF p \in mapped
             THEN pc' = [pc EXCEPT ![Restorer(p)] = "acquire"] /\ UNCHANGED restoring
             ELSE restoring' = restoring \ {p} /\ UNCHANGED pc
  /\ UNCHANGED <<sessions, locked, holding, requests>> /\ UnchangedButThreads

(* Mutant: a start opens a connection of its own beyond the pool. *)
AcquireUnpooled(t) ==
  /\ pc[t] = "acquire"
  /\ \/ /\ ~LockTaken(t[2])
        /\ pc' = [pc EXCEPT ![t] = "look"]
        /\ holding' = holding \union {t}
     \/ pc' = [pc EXCEPT ![t] = "idle"] /\ UNCHANGED holding
  /\ UNCHANGED <<sessions, locked, restoring, requests>> /\ UnchangedButThreads

(* acquireBrokerLock: granted if free; another process may hold it. *)
Acquire(t) ==
  /\ pc[t] = "acquire" /\ Room
  /\ \/ /\ ~LockTaken(t[2])
        /\ pc' = [pc EXCEPT ![t] = "look"]
        /\ holding' = holding \union {t}
     \/ pc' = [pc EXCEPT ![t] = "idle"] /\ UNCHANGED holding
  /\ UNCHANGED <<sessions, locked, restoring, requests>> /\ UnchangedButThreads

(* Mutant: the lookup uses the connection that holds the lock. *)
LookOnLockConn(t) ==
  /\ pc[t] = "look"
  /\ pc' = [pc EXCEPT ![t] = "install"]
  /\ UNCHANGED <<sessions, locked, restoring, holding, requests>> /\ UnchangedButThreads

(* lookupDeviceJID, on a second connection. *)
Look(t) ==
  /\ pc[t] = "look" /\ Room
  /\ pc' = [pc EXCEPT ![t] = "install"]
  /\ UNCHANGED <<sessions, locked, restoring, holding, requests>> /\ UnchangedButThreads

(* Mutant: the error path returns without releaseBrokerLockConn. *)
GiveUpLeaky(t) ==
  /\ pc[t] \in {"acquire", "look"}
  /\ pc' = [pc EXCEPT ![t] = "idle"]
  /\ UNCHANGED <<sessions, locked, restoring, holding, requests>> /\ UnchangedButThreads

(* Mutant: only a start without its lock has a deadline. *)
GiveUpEarly(t) ==
  /\ pc[t] = "acquire"
  /\ pc' = [pc EXCEPT ![t] = "idle"]
  /\ holding' = holding \ {t}
  /\ UNCHANGED <<sessions, locked, restoring, requests>> /\ UnchangedButThreads

(* Eight seconds have passed, or a call failed. *)
GiveUp(t) ==
  /\ pc[t] \in {"acquire", "look"}
  /\ pc' = [pc EXCEPT ![t] = "idle"]
  /\ holding' = holding \ {t}
  /\ UNCHANGED <<sessions, locked, restoring, requests>> /\ UnchangedButThreads

(* The session keeps the connection, unless another one was installed. *)
Install(t) ==
  /\ pc[t] = "install"
  /\ pc' = [pc EXCEPT ![t] = "idle"]
  /\ holding' = holding \ {t}
  /\ \/ t[2] \in sessions /\ UNCHANGED <<sessions, locked>>
     \/ /\ t[2] \notin sessions
        /\ sessions' = sessions \union {t[2]}
        /\ locked' = locked \union {t[2]}
  /\ UNCHANGED <<restoring, requests>> /\ UnchangedButThreads

Start(t) == Acquire(t) \/ Look(t) \/ GiveUp(t) \/ Install(t)

-----------------------------------------------------------------------------
(* Sessions: their events, their end; and the handlers that end them. *)

(* A handler starts that will need a connection. *)
Happen(p) ==
  /\ p \in sessions /\ event[p] = "none" /\ events < MaxEvents
  /\ \E e \in IF p \in mapped THEN {"message", "unlink"} ELSE {"pair"} :
       event' = [event EXCEPT ![p] = e]
  /\ events' = events + 1
  /\ UNCHANGED <<mapped, procVars, sessions, locked, threadVars, boots, requests>>

(* It gets one, without a deadline; its statements may fail. *)
Handle(p) ==
  /\ event[p] # "none" /\ Room
  /\ event' = [event EXCEPT ![p] = "none"]
  /\ \/ event[p] = "pair" /\ mapped' = mapped \union {p}
     \/ event[p] = "unlink" /\ mapped' = mapped \ {p}
     \/ UNCHANGED mapped
  /\ UNCHANGED <<procVars, sessions, locked, threadVars, countVars>>

(* runSession panics: its lock is released, and it runs on without. *)
Panic(p) ==
  /\ p \in locked /\ events < MaxEvents
  /\ locked' = locked \ {p}
  /\ events' = events + 1
  /\ UNCHANGED <<mapped, procVars, sessions, threadVars, event, boots, requests>>

(* Remove, or a code pairing that failed and is discarded. *)
Remove(p) ==
  /\ main = "up" /\ p \in sessions /\ requests < MaxRequests
  /\ sessions' = sessions \ {p}
  /\ locked' = locked \ {p}
  /\ requests' = requests + 1
  /\ UNCHANGED <<mapped, procVars, threadVars, event, boots, events>>

(* deleteDeviceMapping, for a reset or a delete. *)
Unmap(p) ==
  /\ main = "up" /\ p \in mapped /\ Room /\ requests < MaxRequests
  /\ mapped' = mapped \ {p}
  /\ requests' = requests + 1
  /\ UNCHANGED <<procVars, sessions, locked, threadVars, event, boots, events>>

Next ==
  \/ Boot \/ Main \/ Exit
  \/ \E t \in Threads : Start(t)
  \/ \E p \in Phones :
       Ask(p) \/ Retry(p) \/ Happen(p) \/ Handle(p) \/ Panic(p) \/ Remove(p) \/ Unmap(p)

Spec == Init /\ [][Next]_vars

(* main and the threads run; time passes, so a deadline expires. A handler *)
(* that waits is picked from the waiters at random when a connection is    *)
(* returned, so one that could be served again and again is served.        *)
Fairness ==
  /\ WF_vars(Main)
  /\ \A t \in Threads : WF_vars(Start(t))
  /\ \A p \in Phones : SF_vars(Handle(p))
FairSpec == Spec /\ Fairness

-----------------------------------------------------------------------------
(* Types, and the pool's own promise: it opens no more than MaxOpen. *)
TypeOK ==
  /\ mapped \subseteq Phones
  /\ main \in {"down", "up"} \union Restoring
  /\ listed \subseteq Phones /\ current \subseteq Phones
  /\ sessions \subseteq Phones /\ locked \subseteq Phones /\ restoring \subseteq Phones
  /\ pc \in [Threads -> Places]
  /\ holding \subseteq Threads
  /\ event \in [Phones -> Events]
  /\ boots \in Nat /\ requests \in Nat /\ events \in Nat
  /\ Used <= MaxOpen

(* A connection is always left for messages: the connections that running  *)
(* sessions keep, or that starts past their last database call are about   *)
(* to hand to one, never fill the pool. Nothing counts them; it is because *)
(* startOrGet looks the mapping up on a second connection, and because     *)
(* main's cursor is open while it takes locks, that the last one stays     *)
(* free. insertRawMessage has no deadline, so a full pool would stop the   *)
(* ingest of every phone.                                                  *)
Installing == {t \in holding : pc[t] = "install"}
RoomForMessages == Cardinality(locked) + Cardinality(Installing) < MaxOpen

(* While main waits for a connection without a deadline, there is one, as  *)
(* long as this process has fewer phones than connections: nobody else     *)
(* keeps one during the restore, because HTTP starts after it. With as     *)
(* many phones as connections this is false: cursor and locks fill the     *)
(* pool, and main waits for itself.                                        *)
StartupHasRoom == main \in {"lock", "delete"} /\ Cardinality(InPlay) < MaxOpen => Room

(* Under the same condition restoring the sessions ends and HTTP starts.   *)
StartupCompletes ==
  (main \in Restoring /\ Cardinality(InPlay) < MaxOpen) ~> main \notin Restoring

(* Once the process is up, a handler that needs the database gets it, with *)
(* every number of phones, starts and retries under way.                   *)
EventsAreHandled == \A p \in Phones : (event[p] # "none" /\ main = "up") ~> event[p] = "none"

(* "A stalled database must fail this broker's attempt": a request leaves  *)
(* startOrGet, also when all starts keep one connection and wait for the   *)
(* other's.                                                                *)
AttemptEnds == \A t \in Requests : pc[t] # "idle" ~> pc[t] = "idle"
=============================================================================
