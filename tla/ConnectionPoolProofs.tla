------------------------- MODULE ConnectionPoolProofs -------------------------
(***************************************************************************)
(* Theorems of ConnectionPool, for every set of phones and every pool.     *)
(***************************************************************************)
EXTENDS ConnectionPool, FiniteSetTheorems, TLAPS

(* A start that has its lock keeps a connection; nothing runs without a    *)
(* process.                                                                *)
StartsHold == \A t \in Threads : pc[t] \in {"look", "install"} => t \in holding
DownIsEmpty ==
  main = "down" => /\ locked = {} /\ holding = {} /\ restoring = {}
                   /\ \A t \in Threads : pc[t] = "idle"
OneRow == \A p, q \in current : p = q

PoolInv == TypeOK /\ StartsHold /\ DownIsEmpty /\ OneRow /\ RoomForMessages

(* Sets of phones and threads are finite, so their sizes are numbers. *)
LEMMA Finite ==
  ASSUME TypeOK
  PROVE  /\ IsFiniteSet(locked) /\ Cardinality(locked) \in Nat
         /\ IsFiniteSet(holding) /\ Cardinality(holding) \in Nat
         /\ IsFiniteSet(Installing) /\ Cardinality(Installing) \in Nat
         /\ Cardinality(Installing) <= Cardinality(holding)
         /\ Cursor \in {0, 1} /\ MaxOpen \in Nat \ {0}
<1>1. IsFiniteSet(Threads)
  <2>1. IsFiniteSet({"request"}) /\ IsFiniteSet({"restore"})
    BY FS_Singleton
  <2>2. IsFiniteSet(Phones)
    BY PoolAssumption
  <2>3. IsFiniteSet(Requests) /\ IsFiniteSet(Restorers)
    BY <2>1, <2>2, FS_Product DEF Requests, Restorers
  <2> QED
    BY <2>3, FS_Union DEF Threads
<1>2. IsFiniteSet(locked) /\ Cardinality(locked) \in Nat
  BY PoolAssumption, FS_Subset, FS_CardinalityType DEF TypeOK
<1>3. IsFiniteSet(holding) /\ Cardinality(holding) \in Nat
  BY <1>1, FS_Subset, FS_CardinalityType DEF TypeOK
<1>4. Installing \in SUBSET holding
  BY DEF Installing
<1>5. /\ IsFiniteSet(Installing) /\ Cardinality(Installing) \in Nat
      /\ Cardinality(Installing) <= Cardinality(holding)
  BY <1>3, <1>4, FS_Subset, FS_CardinalityType
<1> QED
  BY <1>2, <1>3, <1>5, PoolAssumption DEF Cursor

(* A set grows by at most one element, and shrinks by one that is in it. *)
LEMMA Grow ==
  ASSUME NEW S, IsFiniteSet(S), NEW T, \A p, q \in T : p = q
  PROVE  IsFiniteSet(S \union T) /\ Cardinality(S \union T) \in Nat
         /\ Cardinality(S) \in Nat
         /\ Cardinality(S \union T) <= Cardinality(S) + 1
<1>1. CASE T = {}
  <2>1. S \union T = S
    BY <1>1
  <2>2. Cardinality(S) \in Nat /\ Cardinality(S) <= Cardinality(S) + 1
    BY FS_CardinalityType
  <2> QED
    BY <2>1, <2>2, Zenon
<1>2. CASE T # {}
  <2>1. PICK x : T = {x}
    BY <1>2
  <2> QED
    BY <2>1, FS_AddElement, FS_CardinalityType
<1> QED
  BY <1>1, <1>2

(* A smaller set of connections leaves both bounds as they are. *)
LEMMA Shrink ==
  ASSUME NEW S, IsFiniteSet(S), NEW T, T \subseteq S
  PROVE  IsFiniteSet(T) /\ Cardinality(T) \in Nat /\ Cardinality(S) \in Nat
         /\ Cardinality(T) <= Cardinality(S)
BY FS_Subset, FS_CardinalityType

(***************************************************************************)
(* A connection is always left for messages.                               *)
(***************************************************************************)
LEMMA PoolInit == Init => PoolInv
<1> SUFFICES ASSUME Init PROVE PoolInv
  OBVIOUS
<1>1. Installing = {}
  BY DEF Init, Installing
<1>2. Cardinality({}) = 0 /\ MaxOpen \in Nat \ {0}
  BY FS_EmptySet, PoolAssumption
<1>3. Used = 0
  BY <1>2 DEF Init, Used, Cursor, Restoring
<1>4. TypeOK
  BY <1>2, <1>3 DEF Init, TypeOK, Places, Events, Threads
<1>5. RoomForMessages
  BY <1>1, <1>2 DEF Init, RoomForMessages
<1> QED
  BY <1>4, <1>5 DEF Init, PoolInv, StartsHold, DownIsEmpty, OneRow

(* Steps that leave every connection where it is. *)
LEMMA Quiet ==
  ASSUME PoolInv, locked' = locked, holding' = holding, Installing' = Installing,
         Cursor' = Cursor
  PROVE  RoomForMessages' /\ (Used <= MaxOpen)'
BY DEF PoolInv, TypeOK, RoomForMessages, Used

(* Steps by which connections are only given back. *)
LEMMA Release ==
  ASSUME PoolInv, locked' \subseteq locked, holding' \subseteq holding,
         Installing' \subseteq Installing, Cursor' <= Cursor, Cursor' \in {0, 1}
  PROVE  RoomForMessages' /\ (Used <= MaxOpen)'
<1>1. TypeOK
  BY DEF PoolInv
<1>2. /\ Cardinality(locked') <= Cardinality(locked) /\ Cardinality(locked') \in Nat
      /\ Cardinality(holding') <= Cardinality(holding) /\ Cardinality(holding') \in Nat
      /\ Cardinality(Installing') <= Cardinality(Installing) /\ Cardinality(Installing') \in Nat
  BY <1>1, Finite, Shrink
<1>3. /\ Cursor + Cardinality(locked) + Cardinality(holding) <= MaxOpen
      /\ Cardinality(locked) + Cardinality(Installing) < MaxOpen
  BY DEF PoolInv, TypeOK, RoomForMessages, Used
<1> QED
  BY <1>1, <1>2, <1>3, Finite DEF RoomForMessages, Used

(* Each action keeps the types, the bounds and the places. *)
LEMMA MainStep ==
  ASSUME PoolInv, Boot \/ Main \/ Exit
  PROVE  PoolInv'
<1> USE DEF Restoring
<1>0. TypeOK /\ StartsHold /\ DownIsEmpty /\ OneRow /\ RoomForMessages
  BY DEF PoolInv
<1>1. CASE Boot
  <2>1. locked = {} /\ holding = {} /\ locked' = {} /\ holding' = {}
    BY <1>0, <1>1 DEF Boot, DownIsEmpty, threadVars
  <2>2. Installing' = {}
    BY <2>1 DEF Installing
  <2>3. Cardinality({}) = 0 /\ MaxOpen \in Nat \ {0}
    BY FS_EmptySet, PoolAssumption
  <2>4. RoomForMessages' /\ (Used <= MaxOpen)'
    BY <1>1, <2>1, <2>2, <2>3 DEF RoomForMessages, Used, Cursor
  <2> QED
    BY <1>0, <1>1, <2>4
    DEF Boot, threadVars, PoolInv, TypeOK, StartsHold, DownIsEmpty, OneRow
<1>2. CASE NextRow
  <2>1. Installing' = Installing /\ Cursor' = Cursor
    BY <1>2 DEF NextRow, threadVars, Installing, Cursor
  <2>2. RoomForMessages' /\ (Used <= MaxOpen)'
    BY <1>2, <2>1, Quiet DEF NextRow, threadVars
  <2>3. main' \in Restoring /\ main = "next" /\ OneRow'
    BY <1>0, <1>2 DEF NextRow, OneRow
  <2> QED
    BY <1>0, <1>2, <2>2, <2>3
    DEF NextRow, threadVars, countVars, PoolInv, TypeOK, StartsHold, DownIsEmpty
<1>3. CASE LockRow
  <2>1. /\ holding' = holding /\ Installing' = Installing /\ Cursor' = Cursor /\ Cursor = 1
        /\ locked' \in {locked, locked \union current}
    BY <1>3 DEF LockRow, Installing, Cursor
  <2>2. Cursor + Cardinality(locked) + Cardinality(holding) < MaxOpen
    BY <1>3 DEF LockRow, Room, Used
  <2>3. Cardinality(locked') \in Nat /\ Cardinality(locked') <= Cardinality(locked) + 1
    BY <1>0, <2>1, Finite, Grow DEF OneRow
  <2>4. RoomForMessages' /\ (Used <= MaxOpen)'
    BY <1>0, <2>1, <2>2, <2>3, Finite DEF RoomForMessages, Used
  <2> QED
    BY <1>0, <1>3, <2>4
    DEF LockRow, countVars, PoolInv, TypeOK, StartsHold, DownIsEmpty, OneRow
<1>4. CASE DeleteRow
  <2>1. Installing' = Installing /\ Cursor' = Cursor
    BY <1>4 DEF DeleteRow, threadVars, Installing, Cursor
  <2>2. RoomForMessages' /\ (Used <= MaxOpen)'
    BY <1>4, <2>1, Quiet DEF DeleteRow, threadVars
  <2> QED
    BY <1>0, <1>4, <2>2
    DEF DeleteRow, threadVars, countVars, PoolInv, TypeOK, StartsHold, DownIsEmpty, OneRow
<1>5. CASE CloseRows
  <2>1. Installing' = Installing /\ Cursor' = 0 /\ Cursor \in {0, 1}
    BY <1>5 DEF CloseRows, threadVars, Installing, Cursor
  <2>2. RoomForMessages' /\ (Used <= MaxOpen)'
    BY <1>5, <2>1, Release DEF CloseRows, threadVars
  <2> QED
    BY <1>0, <1>5, <2>2
    DEF CloseRows, threadVars, countVars, PoolInv, TypeOK, StartsHold, DownIsEmpty, OneRow
<1>6. CASE Exit
  <2>1. Installing' = {} /\ Cursor' = 0 /\ Cursor \in {0, 1} /\ locked' = {} /\ holding' = {}
    BY <1>6 DEF Exit, Installing, Cursor
  <2>2. RoomForMessages' /\ (Used <= MaxOpen)'
    BY <2>1, Release
  <2> QED
    BY <1>0, <1>6, <2>2
    DEF Exit, countVars, Places, Events, PoolInv, TypeOK, StartsHold, DownIsEmpty, OneRow
<1> QED
  BY <1>1, <1>2, <1>3, <1>4, <1>5, <1>6 DEF Main

LEMMA StartStep ==
  ASSUME PoolInv, NEW t \in Threads, Start(t)
  PROVE  PoolInv'
<1> USE DEF UnchangedButThreads, procVars
<1>0. TypeOK /\ StartsHold /\ DownIsEmpty /\ OneRow /\ RoomForMessages
  BY DEF PoolInv
<1>a. Cursor' = Cursor /\ pc[t] # "idle" /\ main # "down"
  BY <1>0 DEF Start, Acquire, Look, GiveUp, Install, Cursor, DownIsEmpty
<1>b. t[2] \in Phones
  BY DEF Threads, Requests, Restorers
<1>c. Used <= MaxOpen
  BY <1>0 DEF TypeOK
<1>1. CASE Acquire(t)
  <2>1. /\ locked' = locked /\ Installing' = Installing
        /\ holding' \in {holding, holding \union {t}}
    BY <1>0, <1>1 DEF Acquire, Installing, TypeOK, Places, StartsHold
  <2>2. Cursor + Cardinality(locked) + Cardinality(holding) < MaxOpen
    BY <1>1 DEF Acquire, Room, Used
  <2>3. Cardinality(holding') \in Nat /\ Cardinality(holding') <= Cardinality(holding) + 1
    BY <1>0, <2>1, Finite, FS_AddElement
  <2>4. RoomForMessages' /\ (Used <= MaxOpen)'
    BY <1>0, <1>a, <2>1, <2>2, <2>3, Finite DEF RoomForMessages, Used
  <2> QED
    BY <1>0, <1>1, <1>a, <2>4
    DEF Acquire, Places, PoolInv, TypeOK, StartsHold, DownIsEmpty, OneRow
<1>2. CASE Look(t)
  <2>1. locked' = locked /\ holding' = holding /\ Installing' \subseteq holding
    BY <1>2 DEF Look, Installing
  <2>2. Cursor + Cardinality(locked) + Cardinality(holding) < MaxOpen
    BY <1>2 DEF Look, Room, Used
  <2>3. Cardinality(Installing') \in Nat /\ Cardinality(Installing') <= Cardinality(holding)
    BY <1>0, <2>1, Finite, Shrink
  <2>4. RoomForMessages' /\ (Used <= MaxOpen)'
    BY <1>0, <1>a, <2>1, <2>2, <2>3, Finite DEF RoomForMessages, Used
  <2> QED
    BY <1>0, <1>2, <1>a, <2>4
    DEF Look, Places, PoolInv, TypeOK, StartsHold, DownIsEmpty, OneRow
<1>3. CASE GiveUp(t)
  <2>1. locked' = locked /\ holding' \subseteq holding /\ Installing' \subseteq Installing
    BY <1>0, <1>3 DEF GiveUp, Installing, TypeOK, Places
  <2>2. Cursor \in {0, 1} /\ Cursor' <= Cursor
    BY <1>a DEF Cursor
  <2>3. RoomForMessages' /\ (Used <= MaxOpen)'
    BY <1>a, <2>1, <2>2, Release
  <2> QED
    BY <1>0, <1>3, <1>a, <2>3
    DEF GiveUp, Places, PoolInv, TypeOK, StartsHold, DownIsEmpty, OneRow
<1>4. CASE Install(t)
  <2>1. t \in Installing /\ t \in holding
    BY <1>0, <1>4 DEF Install, Installing, StartsHold
  <2>2. holding' = holding \ {t} /\ Installing' = Installing \ {t}
    BY <1>0, <1>4 DEF Install, Installing, TypeOK, Places
  <2>3. locked' \in {locked, locked \union {t[2]}}
    BY <1>4 DEF Install
  <2>4. /\ Cardinality(holding') = Cardinality(holding) - 1
        /\ Cardinality(Installing') = Cardinality(Installing) - 1
    BY <1>0, <2>1, <2>2, Finite, FS_RemoveElement
  <2>5. Cardinality(locked') \in Nat /\ Cardinality(locked') <= Cardinality(locked) + 1
    <3>1. /\ IsFiniteSet(locked) /\ Cardinality(locked) \in Nat
      BY <1>0, Finite
    <3>2. Cardinality(locked \union {t[2]}) \in {Cardinality(locked), Cardinality(locked) + 1}
      BY <3>1, FS_AddElement
    <3>3. CASE locked' = locked
      BY <3>1, <3>3
    <3>4. CASE locked' = locked \union {t[2]}
      <4>1. Cardinality(locked') = Cardinality(locked \union {t[2]})
        BY <3>4, Zenon
      <4> QED
        BY <3>1, <3>2, <4>1
    <3> QED
      BY <2>3, <3>3, <3>4
  <2>6. RoomForMessages' /\ (Used <= MaxOpen)'
    BY <1>0, <1>a, <1>c, <2>4, <2>5, Finite DEF RoomForMessages, Used
  <2> QED
    BY <1>0, <1>4, <1>a, <1>b, <2>6
    DEF Install, Places, PoolInv, TypeOK, StartsHold, DownIsEmpty, OneRow
<1> QED
  BY <1>1, <1>2, <1>3, <1>4 DEF Start

LEMMA PhoneStep ==
  ASSUME PoolInv, NEW p \in Phones,
         Ask(p) \/ Retry(p) \/ Happen(p) \/ Handle(p) \/ Panic(p) \/ Remove(p) \/ Unmap(p)
  PROVE  PoolInv'
<1> USE DEF UnchangedButThreads, procVars, threadVars, countVars
<1>0. TypeOK /\ StartsHold /\ DownIsEmpty /\ OneRow /\ RoomForMessages
  BY DEF PoolInv
<1>a. Restorer(p) \in Threads /\ <<"request", p>> \in Threads
  BY DEF Restorer, Threads, Requests, Restorers
<1>1. CASE Ask(p)
  <2>1. /\ locked' = locked /\ holding' = holding /\ Cursor' = Cursor
        /\ pc' = [pc EXCEPT ![<<"request", p>>] = "acquire"] /\ pc[<<"request", p>>] = "idle"
    BY <1>1 DEF Ask, Cursor
  <2>2. Installing' = Installing
    BY <1>0, <1>a, <2>1 DEF Installing, TypeOK
  <2>3. RoomForMessages' /\ (Used <= MaxOpen)'
    BY <2>1, <2>2, Quiet
  <2> QED
    BY <1>0, <1>1, <1>a, <2>3 DEF Ask, Places, PoolInv, TypeOK, StartsHold, DownIsEmpty, OneRow
<1>2. CASE Retry(p)
  <2>1. /\ locked' = locked /\ holding' = holding /\ Cursor' = Cursor
        /\ pc' \in {pc, [pc EXCEPT ![Restorer(p)] = "acquire"]} /\ pc[Restorer(p)] = "idle"
    BY <1>2 DEF Retry, Cursor
  <2>2. Installing' = Installing
    BY <1>0, <1>a, <2>1 DEF Installing, TypeOK
  <2>3. RoomForMessages' /\ (Used <= MaxOpen)'
    BY <2>1, <2>2, Quiet
  <2>4. main # "down"
    BY <1>0, <1>2 DEF Retry, DownIsEmpty
  <2>5. pc' \in [Threads -> Places] /\ StartsHold'
    BY <1>0, <1>a, <2>1 DEF TypeOK, Places, StartsHold
  <2>6. restoring' \subseteq Phones
    BY <1>0, <1>2 DEF Retry, TypeOK
  <2> QED
    BY <1>0, <1>2, <2>1, <2>3, <2>4, <2>5, <2>6 DEF Retry, PoolInv, TypeOK, DownIsEmpty, OneRow
<1>3. CASE Happen(p) \/ Handle(p) \/ Unmap(p)
  <2>1. /\ locked' = locked /\ holding' = holding
        /\ Cursor' = Cursor /\ Installing' = Installing
    BY <1>3 DEF Happen, Handle, Unmap, Cursor, Installing
  <2>2. RoomForMessages' /\ (Used <= MaxOpen)'
    BY <2>1, Quiet
  <2>3. mapped' \subseteq Phones /\ event' \in [Phones -> Events]
    BY <1>0, <1>3 DEF Happen, Handle, Unmap, TypeOK, Events
  <2>4. boots' \in Nat /\ requests' \in Nat /\ events' \in Nat
    BY <1>0, <1>3 DEF Happen, Handle, Unmap, TypeOK
  <2> QED
    BY <1>0, <1>3, <2>2, <2>3, <2>4
    DEF Happen, Handle, Unmap, PoolInv, TypeOK, StartsHold, DownIsEmpty, OneRow
<1>4. CASE Panic(p) \/ Remove(p)
  <2>1. /\ locked' \subseteq locked /\ holding' = holding
        /\ Cursor' = Cursor /\ Installing' = Installing /\ Cursor \in {0, 1}
    BY <1>4 DEF Panic, Remove, Cursor, Installing
  <2>2. RoomForMessages' /\ (Used <= MaxOpen)'
    BY <2>1, Release
  <2>3. boots' \in Nat /\ requests' \in Nat /\ events' \in Nat
    BY <1>0, <1>4 DEF Panic, Remove, TypeOK
  <2>4. locked' \subseteq Phones /\ sessions' \subseteq Phones /\ (locked = {} => locked' = {})
    BY <1>0, <1>4 DEF Panic, Remove, TypeOK
  <2> QED
    BY <1>0, <1>4, <2>2, <2>3, <2>4
    DEF Panic, Remove, PoolInv, TypeOK, StartsHold, DownIsEmpty, OneRow
<1> QED
  BY <1>1, <1>2, <1>3, <1>4

(* No connection is counted twice or forgotten, in any behaviour. *)
THEOREM Invariant == Spec => []PoolInv
<1>1. Init => PoolInv
  BY PoolInit
<1>2. PoolInv /\ [Next]_vars => PoolInv'
  <2> SUFFICES ASSUME PoolInv, [Next]_vars PROVE PoolInv'
    OBVIOUS
  <2>1. CASE Next
    BY <2>1, MainStep, StartStep, PhoneStep DEF Next
  <2>2. CASE UNCHANGED vars
    <3>1. Installing' = Installing /\ Cursor' = Cursor
      BY <2>2 DEF vars, procVars, threadVars, countVars, Installing, Cursor
    <3>2. RoomForMessages' /\ (Used <= MaxOpen)'
      BY <2>2, <3>1, Quiet DEF vars, threadVars
    <3> QED
      BY <2>2, <3>2
      DEF vars, procVars, threadVars, countVars, PoolInv, TypeOK, StartsHold, DownIsEmpty, OneRow
  <2> QED
    BY <2>1, <2>2
<1> QED
  BY <1>1, <1>2, PTL DEF Spec

(* The variables have their types and the pool its bound. *)
THEOREM TypeCorrect == Spec => []TypeOK
<1>1. PoolInv => TypeOK
  BY DEF PoolInv
<1> QED
  BY <1>1, Invariant, PTL

(* Sessions never fill the pool: one connection is left for messages. *)
THEOREM Messages == Spec => []RoomForMessages
<1>1. PoolInv => RoomForMessages
  BY DEF PoolInv
<1> QED
  BY <1>1, Invariant, PTL

(***************************************************************************)
(* While main restores, only the rows it has been through, their sessions  *)
(* and their restore goroutines keep connections, one each.                *)
(***************************************************************************)
HoldersStart == \A t \in holding : pc[t] \in {"look", "install"}
RowAtHand == (main \in {"lock", "delete"} => current # {}) /\ (main \in {"down", "next"} => current = {})
OnlyRestorers ==
  main \in Restoring =>
    \A t \in Threads : pc[t] # "idle" => t \in Restorers /\ t[2] \in restoring
HoldersUnlocked == \A t \in holding : t[2] \notin locked
RowsApart ==
  main \in Restoring => /\ listed \intersect (current \union locked \union restoring) = {}
                        /\ current \intersect (locked \union restoring) = {}

BootInv == HoldersStart /\ RowAtHand /\ OnlyRestorers /\ RowsApart
             /\ (main \in Restoring => HoldersUnlocked)

LEMMA BootInit == Init => BootInv
BY DEF Init, BootInv, HoldersStart, RowAtHand, OnlyRestorers, RowsApart, HoldersUnlocked, Restoring

LEMMA BootMain ==
  ASSUME PoolInv, BootInv, Boot \/ Main \/ Exit
  PROVE  BootInv'
<1> USE DEF Restoring, threadVars, countVars
<1>0. /\ TypeOK /\ DownIsEmpty /\ HoldersStart /\ RowAtHand /\ OnlyRestorers /\ RowsApart
      /\ (main \in Restoring => HoldersUnlocked)
  BY DEF PoolInv, BootInv
<1>1. CASE Boot
  BY <1>0, <1>1 DEF Boot, BootInv, DownIsEmpty, HoldersStart, RowAtHand, OnlyRestorers, RowsApart, HoldersUnlocked
<1>2. CASE NextRow
  <2>1. HoldersStart' /\ OnlyRestorers' /\ HoldersUnlocked'
    BY <1>0, <1>2 DEF NextRow, HoldersStart, OnlyRestorers, HoldersUnlocked
  <2>2. RowAtHand' /\ RowsApart'
    BY <1>0, <1>2 DEF NextRow, RowAtHand, RowsApart
  <2> QED
    BY <2>1, <2>2 DEF BootInv
<1>3. CASE LockRow
  <2>1. HoldersStart' /\ OnlyRestorers'
    BY <1>0, <1>3 DEF LockRow, HoldersStart, OnlyRestorers
  <2>2. \A t \in holding : t \in Threads /\ t[2] \in restoring
    BY <1>0, <1>3 DEF LockRow, TypeOK, HoldersStart, OnlyRestorers
  <2>3. HoldersUnlocked'
    BY <1>0, <1>3, <2>2 DEF LockRow, HoldersUnlocked, RowsApart
  <2>4. RowAtHand' /\ RowsApart'
    BY <1>0, <1>3 DEF LockRow, RowAtHand, RowsApart
  <2> QED
    BY <2>1, <2>3, <2>4 DEF BootInv
<1>4. CASE DeleteRow
  BY <1>0, <1>4 DEF DeleteRow, BootInv, HoldersStart, RowAtHand, OnlyRestorers, RowsApart, HoldersUnlocked
<1>5. CASE CloseRows
  BY <1>0, <1>5 DEF CloseRows, BootInv, HoldersStart, RowAtHand, OnlyRestorers, RowsApart, HoldersUnlocked
<1>6. CASE Exit
  BY <1>0, <1>6 DEF Exit, BootInv, HoldersStart, RowAtHand, OnlyRestorers, RowsApart, HoldersUnlocked
<1> QED
  BY <1>1, <1>2, <1>3, <1>4, <1>5, <1>6 DEF Main

LEMMA BootStart ==
  ASSUME PoolInv, BootInv, NEW t \in Threads, Start(t)
  PROVE  BootInv'
<1> USE DEF UnchangedButThreads, procVars
<1>0. /\ TypeOK /\ DownIsEmpty /\ HoldersStart /\ RowAtHand /\ OnlyRestorers /\ RowsApart
      /\ (main \in Restoring => HoldersUnlocked)
  BY DEF PoolInv, BootInv
<1>1. /\ main' = main /\ listed' = listed /\ current' = current /\ restoring' = restoring
      /\ pc[t] # "idle" /\ pc' = [pc EXCEPT ![t] = pc'[t]] /\ RowAtHand'
  BY <1>0 DEF Start, Acquire, Look, GiveUp, Install, RowAtHand, TypeOK
<1>2. OnlyRestorers'
  BY <1>0, <1>1 DEF OnlyRestorers, TypeOK
<1>3. CASE Acquire(t)
  BY <1>0, <1>1, <1>2, <1>3
  DEF Acquire, LockTaken, BootInv, HoldersStart, HoldersUnlocked, RowsApart, TypeOK
<1>4. CASE Look(t) \/ GiveUp(t)
  BY <1>0, <1>1, <1>2, <1>4
  DEF Look, GiveUp, BootInv, HoldersStart, HoldersUnlocked, RowsApart, TypeOK
<1>5. CASE Install(t)
  <2>1. locked' \subseteq locked \union {t[2]} /\ holding' = holding \ {t} /\ pc' = [pc EXCEPT ![t] = "idle"]
    BY <1>5 DEF Install
  <2>2. HoldersStart'
    BY <1>0, <2>1 DEF HoldersStart, TypeOK
  <2>3. RowsApart'
    BY <1>0, <1>1, <2>1 DEF RowsApart, OnlyRestorers
  <2>4. ASSUME main \in Restoring
        PROVE  HoldersUnlocked'
    <3>1. \A u \in holding : u \in Restorers /\ t \in Restorers
      BY <1>0, <1>1, <2>4 DEF HoldersStart, OnlyRestorers, TypeOK
    <3>2. \A u \in holding \ {t} : u[2] # t[2]
      BY <3>1 DEF Restorers
    <3> QED
      BY <1>0, <2>1, <2>4, <3>2 DEF HoldersUnlocked
  <2> QED
    BY <1>1, <1>2, <2>2, <2>3, <2>4 DEF BootInv
<1> QED
  BY <1>3, <1>4, <1>5 DEF Start

LEMMA BootPhone ==
  ASSUME PoolInv, BootInv, NEW p \in Phones,
         Ask(p) \/ Retry(p) \/ Happen(p) \/ Handle(p) \/ Panic(p) \/ Remove(p) \/ Unmap(p)
  PROVE  BootInv'
<1> USE DEF UnchangedButThreads, procVars, threadVars, countVars
<1>0. /\ TypeOK /\ DownIsEmpty /\ HoldersStart /\ RowAtHand /\ OnlyRestorers /\ RowsApart
      /\ (main \in Restoring => HoldersUnlocked)
  BY DEF PoolInv, BootInv
<1>a. Restorer(p) \in Restorers /\ Restorer(p) \in Threads /\ <<"request", p>> \in Threads
      /\ Restorer(p)[2] = p /\ \A t \in Restorers : t[2] = p => t = Restorer(p)
  BY DEF Restorer, Threads, Requests, Restorers
<1>1. CASE Ask(p)
  <2>1. HoldersStart'
    BY <1>0, <1>1, <1>a DEF Ask, HoldersStart, TypeOK
  <2> QED
    BY <1>0, <1>1, <2>1 DEF Ask, BootInv, RowAtHand, OnlyRestorers, RowsApart, HoldersUnlocked, Restoring
<1>2. CASE Retry(p)
  <2>1. /\ pc[Restorer(p)] = "idle" /\ p \in restoring /\ main' = main /\ holding' = holding
        /\ \/ pc' = pc /\ restoring' = restoring \ {p}
           \/ pc' = [pc EXCEPT ![Restorer(p)] = "acquire"] /\ restoring' = restoring
    BY <1>2 DEF Retry
  <2>2. HoldersStart'
    BY <1>0, <1>a, <2>1 DEF HoldersStart, TypeOK
  <2>3. OnlyRestorers'
    BY <1>0, <1>a, <2>1 DEF OnlyRestorers, TypeOK
  <2> QED
    BY <1>0, <1>2, <2>2, <2>3 DEF Retry, BootInv, RowAtHand, RowsApart, HoldersUnlocked
<1>3. CASE Happen(p) \/ Handle(p) \/ Unmap(p)
  BY <1>0, <1>3
  DEF Happen, Handle, Unmap, BootInv, HoldersStart, RowAtHand, OnlyRestorers, RowsApart, HoldersUnlocked
<1>4. CASE Panic(p) \/ Remove(p)
  <2>1. locked' = locked \ {p}
    BY <1>4 DEF Panic, Remove
  <2> QED
    BY <1>0, <1>4, <2>1
    DEF Panic, Remove, BootInv, HoldersStart, RowAtHand, OnlyRestorers, RowsApart, HoldersUnlocked
<1> QED
  BY <1>1, <1>2, <1>3, <1>4

(* The connections kept during the restore fit the phones in play. *)
LEMMA BootCount ==
  ASSUME PoolInv, BootInv
  PROVE  StartupHasRoom
<1> SUFFICES ASSUME main \in {"lock", "delete"}, Cardinality(InPlay) < MaxOpen
             PROVE  Room
  BY DEF StartupHasRoom
<1>0. /\ TypeOK /\ HoldersStart /\ RowAtHand /\ OnlyRestorers /\ RowsApart /\ HoldersUnlocked
  BY DEF PoolInv, BootInv, Restoring
<1> DEFINE Waiting == restoring \ locked
           phone == [t \in holding |-> t[2]]
<1>1. IsFiniteSet(Phones) /\ IsFiniteSet(holding) /\ IsFiniteSet(locked)
      /\ Cardinality(locked) \in Nat /\ Cardinality(holding) \in Nat
  BY <1>0, Finite, PoolAssumption
<1>2. IsFiniteSet(Waiting) /\ Cardinality(Waiting) \in Nat
  <2>1. Waiting \in SUBSET Phones
    BY <1>0 DEF TypeOK
  <2> QED
    BY <1>1, <2>1, FS_Subset, FS_CardinalityType
<1>3. Cardinality(holding) <= Cardinality(Waiting)
  <2>1. \A t \in holding : t \in Restorers /\ t[2] \in Waiting
    BY <1>0 DEF HoldersStart, OnlyRestorers, HoldersUnlocked, TypeOK, Restoring
  <2>2. phone \in [holding -> Waiting]
    BY <2>1
  <2>3. \A t, u \in holding : phone[t] = phone[u] => t = u
    BY <2>1 DEF Restorers
  <2>4. phone \in Injection(holding, Waiting)
    BY <2>2, <2>3 DEF Injection, IsInjective
  <2> QED
    BY <1>2, <2>4, FS_Injection
<1>4. PICK c : c \in current
  BY <1>0 DEF RowAtHand
<1>5. c \notin locked \union Waiting /\ locked \intersect Waiting = {}
  BY <1>0, <1>4 DEF RowsApart, Restoring
<1> DEFINE Kept == locked \union Waiting
<1>6. IsFiniteSet(Kept) /\ Cardinality(Kept) = Cardinality(locked) + Cardinality(Waiting)
  <2>1. /\ IsFiniteSet(locked \union Waiting)
        /\ Cardinality(locked \union Waiting)
              = Cardinality(locked) + Cardinality(Waiting) - Cardinality(locked \intersect Waiting)
    BY <1>1, <1>2, FS_Union
  <2>2. Cardinality(locked \intersect Waiting) = 0
    BY <1>5, FS_EmptySet
  <2> QED
    BY <1>1, <1>2, <2>1, <2>2
<1>7. Cardinality(Kept \union {c}) = Cardinality(Kept) + 1
  BY <1>5, <1>6, FS_AddElement
<1>8. Cardinality(Kept \union {c}) <= Cardinality(InPlay)
  <2>1. IsFiniteSet(InPlay)
    <3>1. InPlay \in SUBSET Phones
      BY <1>0 DEF TypeOK, InPlay
    <3> QED
      BY <1>1, <3>1, FS_Subset
  <2>2. (Kept \union {c}) \in SUBSET InPlay
    BY <1>4 DEF InPlay
  <2> QED
    BY <2>1, <2>2, FS_Subset
<1>9. Cardinality(InPlay) \in Nat
  <2>1. InPlay \in SUBSET Phones
    BY <1>0 DEF TypeOK, InPlay
  <2> QED
    BY <1>1, <2>1, FS_Subset, FS_CardinalityType
<1>10. Cursor = 1 /\ MaxOpen \in Nat
  BY PoolAssumption DEF Cursor, Restoring
<1> HIDE DEF Kept, Waiting
<1> QED
  BY <1>1, <1>2, <1>3, <1>6, <1>7, <1>8, <1>9, <1>10 DEF Room, Used

(* With fewer phones than connections, main finds one each time it waits.  *)
THEOREM Startup == Spec => []StartupHasRoom
<1>1. Init => BootInv
  BY BootInit
<1>2. PoolInv /\ BootInv /\ [Next]_vars => BootInv'
  <2> SUFFICES ASSUME PoolInv, BootInv, [Next]_vars PROVE BootInv'
    OBVIOUS
  <2>1. CASE Next
    BY <2>1, BootMain, BootStart, BootPhone DEF Next
  <2>2. CASE UNCHANGED vars
    BY <2>2 DEF vars, procVars, threadVars, countVars, BootInv, HoldersStart, RowAtHand,
      OnlyRestorers, RowsApart, HoldersUnlocked
  <2> QED
    BY <2>1, <2>2
<1>3. PoolInv /\ BootInv => StartupHasRoom
  BY BootCount
<1> QED
  BY <1>1, <1>2, <1>3, Invariant, PTL DEF Spec
=============================================================================
