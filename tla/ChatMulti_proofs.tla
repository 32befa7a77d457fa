--------------------------- MODULE ChatMulti_proofs ---------------------------
(***************************************************************************)
(* Proofs about ChatMulti, for any number of workers, slots and sectors, and *)
(* with an account of its own for each session (~Shared; a second login is   *)
(* in AnySpec, after which two sessions share a key).                       *)
(*                                                                         *)
(* The lists are right because only one thread at a time is busy with a      *)
(* player: the handler that took its receive (Handlers), or, once the last   *)
(* count is back and no receive is left, the thread that closes it           *)
(* (Closers).  A broadcast may close one of its listeners in the middle of   *)
(* its walk, and then is both: Casting says so.  While it has the locks of   *)
(* the sectors around it (Locks), no other thread can change their lists     *)
(* (CastsRest), so the listeners it has not come to yet stay (Broadcasts).   *)
(* No circle of waits: a thread wants only locks that come after those it    *)
(* has (InOrder), except to close a listener, and then it has the lock of    *)
(* the listener's sector already.                                          *)
(*                                                                         *)
(* XDoes says, field by field, what action X does, and the lemmas XKept say  *)
(* that each part of the invariant is kept by every action.                 *)
(***************************************************************************)
EXTENDS ChatMulti, FiniteSetTheorems, WellFoundedInduction, TLAPS

(* A set of numbers has a least one, and a bounded one a greatest.         *)
LEMMA Least ==
    ASSUME NEW S \in SUBSET Nat, S # {}
    PROVE  \E n \in S : \A m \in S : n <= m
  <1>1. PICK n \in S : \A m \in S : ~(<<m, n>> \in OpToRel(<, Nat))
    BY NatLessThanWellFounded, WFMin
  <1>2. \A m \in S : ~(m < n)
    BY <1>1 DEF OpToRel
  <1>3. \A m \in S : n <= m
    BY <1>2
  <1> QED
    BY <1>3

LEMMA Greatest ==
    ASSUME NEW S \in SUBSET Nat, S # {}, NEW b \in Nat, \A n \in S : n <= b
    PROVE  \E n \in S : \A m \in S : m <= n
  <1> DEFINE T == {k \in Nat : b - k \in S}
  <1>1. \A n \in S : b - n \in T /\ b - (b - n) = n
    OBVIOUS
  <1>2. PICK k \in T : \A j \in T : k <= j
    BY <1>1, Least
  <1>3. b - k \in S /\ \A m \in S : m <= b - k
    BY <1>1, <1>2
  <1> QED
    BY <1>3

LEMMA Coordinates ==
    ASSUME NEW p \in Sector
    PROVE  /\ p = <<p[1], p[2]>>
           /\ p[1] \in Nat /\ p[1] < XMax /\ p[2] \in Nat /\ p[2] < YMax
  BY ChatMultiAssumption DEF Sector

(* Sectors are ordered: each set of them has a first one and a last one.    *)
LEMMA FirstSector ==
    ASSUME NEW S \in SUBSET Sector, S # {}
    PROVE  \E p \in S : \A q \in S : Before(p, q)
  <1> DEFINE X == {p[1] : p \in S}
  <1>1. X \in SUBSET Nat /\ X # {}
    BY Coordinates
  <1>2. PICK x \in X : \A m \in X : x <= m
    BY <1>1, Least
  <1> DEFINE Y == {p[2] : p \in {r \in S : r[1] = x}}
  <1>3. Y \in SUBSET Nat /\ Y # {}
    BY <1>2, Coordinates
  <1>4. PICK y \in Y : \A m \in Y : y <= m
    BY <1>3, Least
  <1>5. PICK p \in S : p[1] = x /\ p[2] = y
    BY <1>4
  <1>6. ASSUME NEW q \in S PROVE Before(p, q)
    <2>1. q[1] \in X /\ q[1] \in Nat /\ q[2] \in Nat /\ x \in Nat
      BY <1>1, <1>2, Coordinates
    <2>2. CASE q[1] = x
      <3>1. q[2] \in Y
        BY <2>2
      <3> QED
        BY <2>2, <3>1, <1>4, <1>5 DEF Before
    <2>3. CASE q[1] # x
      BY <2>1, <2>3, <1>2, <1>5 DEF Before
    <2> QED
      BY <2>2, <2>3
  <1> QED
    BY <1>6

LEMMA LastSector ==
    ASSUME NEW S \in SUBSET Sector, S # {}
    PROVE  \E p \in S : \A q \in S : Before(q, p)
  <1> DEFINE X == {p[1] : p \in S}
  <1>1. X \in SUBSET Nat /\ X # {} /\ \A n \in X : n <= XMax
    BY Coordinates, ChatMultiAssumption
  <1>2. PICK x \in X : \A m \in X : m <= x
    BY <1>1, Greatest, ChatMultiAssumption
  <1> DEFINE Y == {p[2] : p \in {r \in S : r[1] = x}}
  <1>3. Y \in SUBSET Nat /\ Y # {} /\ \A n \in Y : n <= YMax
    BY <1>2, Coordinates, ChatMultiAssumption
  <1>4. PICK y \in Y : \A m \in Y : m <= y
    BY <1>3, Greatest, ChatMultiAssumption
  <1>5. PICK p \in S : p[1] = x /\ p[2] = y
    BY <1>4
  <1>6. ASSUME NEW q \in S PROVE Before(q, p)
    <2>1. q[1] \in X /\ q[1] \in Nat /\ q[2] \in Nat /\ x \in Nat
      BY <1>1, <1>2, Coordinates
    <2>2. CASE q[1] = x
      <3>1. q[2] \in Y
        BY <2>2
      <3> QED
        BY <2>2, <3>1, <1>4, <1>5 DEF Before
    <2>3. CASE q[1] # x
      BY <2>1, <2>3, <1>2, <1>5 DEF Before
    <2> QED
      BY <2>2, <2>3
  <1> QED
    BY <1>6

LEMMA BeforeOrders ==
    ASSUME NEW p \in Sector, NEW q \in Sector, Before(p, q), Before(q, p)
    PROVE  p = q
  <1>1. p[1] = q[1] /\ p[2] = q[2]
    BY Coordinates DEF Before
  <1>2. p = <<p[1], p[2]>> /\ q = <<q[1], q[2]>>
    BY Coordinates
  <1> QED
    BY <1>1, <1>2, Zenon

LEMMA KeyLockApart == KeyLock \notin Sector
  BY Coordinates DEF KeyLock, Sector

LEMMA Neighbours ==
    ASSUME NEW p \in Sector
    PROVE  Around(p) \subseteq Sector /\ p \in Around(p)
  <1>1. p[1] - p[1] = 0 /\ p[2] - p[2] = 0 /\ 0 \in -1 .. 1
    BY Coordinates
  <1> QED
    BY <1>1 DEF Around

-----------------------------------------------------------------------------
(* In a handler, on behalf of the session it took the receive of; closing a *)
(* session; and in a broadcast, closing a listener in the middle of it too. *)
Closing(t) == thread[t].pc \in {"ondisconnect", "leavesector", "deletekey"}

Casting(t) ==
    \/ thread[t].pc \in {"cast", "sent"}
    \/ Closing(t) /\ thread[t].ret = "cast"

Handling(t) ==
    \/ thread[t].pc \in {"finish", "insert", "login", "enter", "locksync",
                         "sync", "lockall", "listen"}
    \/ Casting(t)

Moving(t, s) == thread[t].me = s /\ thread[t].pc \in {"locksync", "sync"}

Senders(s) == {t \in Worker : thread[t].pc = "sent" /\ thread[t].who = s}

(* Whether thread t has the lock of sector p.                              *)
HasLock(t, p) ==
    \/ /\ thread[t].pc = "locksync"
       /\ p \in {thread[t].from, player[thread[t].me].at} \ thread[t].todo
    \/ /\ thread[t].pc = "sync"
       /\ p \in {thread[t].from, player[thread[t].me].at}
    \/ /\ thread[t].pc = "lockall"
       /\ p \in Around(thread[t].from) \ thread[t].todo
    \/ /\ thread[t].pc = "listen" \/ Casting(t)
       /\ p \in Around(thread[t].from)

(* Whether the list of sector p is where player s belongs.                 *)
InList(s, p) ==
    /\ player[s].status = "PLAYER"
    /\ \A t \in Worker : thread[t].me = s => thread[t].pc # "enter"
    /\ \A t \in Worker : thread[t].who = s => thread[t].pc # "deletekey"
    /\ \A t \in Worker : Moving(t, s) => p = thread[t].from
    /\ (\E t \in Worker : Moving(t, s)) \/ p = player[s].at

Players ==
    {s \in Slot :
        /\ player[s].status \in {"PENDING_SECTOR", "PLAYER"}
        /\ \A t \in Worker :
              ~ /\ thread[t].who = s
                /\ thread[t].pc \in {"leavesector", "deletekey"}}

-----------------------------------------------------------------------------
(* The inductive invariant.                                                *)
SessType == [id : 0 .. MaxSessions, io : Nat, released : BOOLEAN,
             marked : BOOLEAN, recv : {"none", "pending", "taken", "failed"},
             sent : Nat]
PlayerType == [status : {"IDLE", "SESSION", "PENDING_SECTOR", "PLAYER"},
               account : 0 .. MaxSessions, at : Sector]
KeyType == [id : 0 .. MaxSessions, slot : Slot \cup {Nobody}]
ThreadType == [pc : Place, me : Slot \cup {Nobody},
               todo : SUBSET (Slot \cup Sector), heard : SUBSET Slot,
               from : Sector, who : Slot \cup {Nobody}, ret : {"idle", "cast"}]

Types ==
    /\ sess \in [Slot -> SessType]
    /\ nextID \in 1 .. MaxSessions + 1
    /\ player \in [Slot -> PlayerType]
    /\ sector \in [Sector -> SUBSET Slot]
    /\ keys \in [Account -> KeyType]
    /\ owner \in [Sector \cup {KeyLock} -> Worker \cup {Nobody}]
    /\ loggedIn \in Int
    /\ thread \in [Worker -> ThreadType]

(* One handler for each session, one thread that closes it.                *)
Handlers ==
    /\ \A t \in Worker :
          Handling(t) => /\ thread[t].me \in Slot
                         /\ sess[thread[t].me].recv = "taken"
    /\ \A t, u \in Worker :
          Handling(t) /\ Handling(u) /\ thread[t].me = thread[u].me => t = u

Closers ==
    /\ \A t \in Worker :
          /\ thread[t].pc = "sent" => thread[t].who \in Slot
          /\ Closing(t) => /\ thread[t].who \in Slot
                           /\ sess[thread[t].who].released
                           /\ sess[thread[t].who].id # 0
          /\ thread[t].pc \in {"leavesector", "deletekey"} =>
                player[thread[t].who].status = "PLAYER"
    /\ \A t, u \in Worker :
          Closing(t) /\ Closing(u) /\ thread[t].who = thread[u].who => t = u

(* Where a handler is tells the state of its player.                       *)
PlaceOf(t) ==
    /\ thread[t].pc \notin {"evict", "replace"}
    /\ Handling(t) /\ sess[thread[t].me].marked => thread[t].pc = "finish"
    /\ thread[t].pc \in {"insert", "login"} =>
          player[thread[t].me].status = "SESSION"
    /\ thread[t].pc \in {"enter", "locksync", "sync"} =>
          player[thread[t].me].status = "PLAYER"
    /\ thread[t].pc \in {"locksync", "sync"} =>
          thread[t].from # player[thread[t].me].at
    /\ thread[t].pc = "locksync" =>
          /\ thread[t].todo # {}
          /\ thread[t].todo \subseteq {thread[t].from, player[thread[t].me].at}
    /\ thread[t].pc = "lockall" =>
          /\ thread[t].todo # {}
          /\ thread[t].todo \subseteq Around(thread[t].from)

Places == \A t \in Worker : PlaceOf(t)

SessionOf(s) ==
    /\ sess[s].released => sess[s].recv = "none"
    /\ sess[s].id = 0 => sess[s].released
    /\ sess[s].id = 0 <=> player[s].status = "IDLE"
    /\ sess[s].id < nextID
    /\ sess[s].marked => sess[s].recv \in {"taken", "none"}
    /\ player[s].status \in {"PENDING_SECTOR", "PLAYER"} =>
          player[s].account = sess[s].id

Sessions ==
    /\ \A s \in Slot : SessionOf(s)
    /\ \A r, s \in Slot : sess[r].id = sess[s].id /\ sess[s].id # 0 => r = s

(* ioCount counts the receive and the sends of the broadcasts.             *)
Counts ==
    \A s \in Slot :
        sess[s].io = (IF sess[s].recv = "none" THEN 0 ELSE 1)
                       + Cardinality(Senders(s))

Locks ==
    /\ owner[KeyLock] = Nobody
    /\ \A t \in Worker, p \in Sector : owner[p] = t <=> HasLock(t, p)

(* The locks a thread has come before those it still wants.                *)
InOrder ==
    \A t \in Worker :
        thread[t].pc \in {"locksync", "lockall"} =>
            \A p \in Sector, q \in thread[t].todo :
               HasLock(t, p) => Before(p, q)

Lists == \A s \in Slot, p \in Sector : s \in sector[p] <=> InList(s, p)

CastOf(t) ==
    Casting(t) =>
        /\ thread[t].todo \subseteq Listeners(t)
        /\ Listeners(t) \subseteq thread[t].todo \cup thread[t].heard
        /\ thread[t].pc # "cast" => thread[t].who \notin thread[t].todo
        /\ thread[t].pc \in {"sent", "ondisconnect", "leavesector"} =>
              thread[t].who \in Listeners(t)

Broadcasts == \A t \in Worker : CastOf(t)

Logging(s) == \E t \in Worker : thread[t].me = s /\ thread[t].pc = "login"

KeyOf(s) ==
    /\ player[s].status = "SESSION" /\ ~sess[s].marked =>
          keys[sess[s].id] = NoID \/ Logging(s)
    /\ player[s].status \in {"PENDING_SECTOR", "PLAYER"} \/ Logging(s) =>
          keys[sess[s].id] = [id |-> sess[s].id, slot |-> s]

KeysHeld ==
    /\ \A a \in Account : a >= nextID => keys[a] = NoID
    /\ \A s \in Slot : KeyOf(s)

Logged == loggedIn = Cardinality(Players)

IInv ==
    /\ Types /\ Handlers /\ Closers /\ Places /\ Sessions /\ Counts
    /\ Locks /\ InOrder /\ Lists /\ Broadcasts /\ KeysHeld /\ Logged

-----------------------------------------------------------------------------
(* The steps, with the choices they make named: the lock a thread takes is  *)
(* the first it wants, the listener it sends to one of those left, and an   *)
(* account is never there already.                                         *)
Locking(t, l) ==
    /\ thread[t].pc \in {"locksync", "lockall"}
    /\ l \in Sector /\ owner[l] \in {Nobody, t}
    /\ \A q \in thread[t].todo : Before(l, q)
    /\ owner' = [owner EXCEPT ![l] = t]
    /\ thread' = [thread EXCEPT ![t] =
                    [thread[t] EXCEPT
                       !.todo = @ \ {l},
                       !.pc = IF thread[t].todo # {l} THEN @
                              ELSE IF @ = "locksync" THEN "sync"
                              ELSE "listen"]]
    /\ UNCHANGED <<sess, nextID, player, sector, keys, loggedIn>>

Sending(t, d) ==
    /\ thread[t].pc = "cast"
    /\ sess' = [sess EXCEPT ![d] = [sess[d] EXCEPT !.io = @ + 1]]
    /\ thread' = [thread EXCEPT ![t] =
                    [thread[t] EXCEPT
                       !.todo = @ \ {d}, !.heard = @ \cup {d},
                       !.who = d, !.pc = "sent"]]
    /\ UNCHANGED <<nextID, player, sector, keys, owner, loggedIn>>

Inserts(t) ==
    LET s == thread[t].me
        id == sess[s].id
    IN  /\ thread[t].pc = "insert"
        /\ keys[id] = NoID
        /\ keys' = [keys EXCEPT ![id] = [id |-> id, slot |-> s]]
        /\ Goto(t, "login")
        /\ UNCHANGED <<sess, nextID, player, sector, owner, loggedIn>>

(* A step, in that form. *)
Change ==
    \/ \E s \in Slot : OnAccept(s)
    \/ \E s \in Slot : ClientLeaves(s)
    \/ \E t \in Worker, s \in Slot : TakeFailed(t, s)
    \/ \E t \in Worker, s \in Slot : HandleBadMessage(t, s)
    \/ \E t \in Worker, s \in Slot : HandleLoginMessage(t, s)
    \/ \E t \in Worker, s \in Slot, p \in Sector : HandleFirstMove(t, s, p)
    \/ \E t \in Worker, s \in Slot, p \in Sector :
          HandleSectorMoveMessage(t, s, p)
    \/ \E t \in Worker, s \in Slot : HandleChatMessage(t, s)
    \/ \E t \in Worker : Finish(t)
    \/ \E t \in Worker : Inserts(t)
    \/ \E t \in Worker : Login(t)
    \/ \E t \in Worker : BadName(t)
    \/ \E t \in Worker : EnterSector(t)
    \/ \E t \in Worker : \E l \in thread[t].todo : Locking(t, l)
    \/ \E t \in Worker : SyncSector(t)
    \/ \E t \in Worker : Listen(t)
    \/ \E t \in Worker : \E d \in thread[t].todo : Sending(t, d)
    \/ \E t \in Worker : SendEnd(t)
    \/ \E t \in Worker : UnlockAll(t)
    \/ \E t \in Worker : OnDisConnect(t)
    \/ \E t \in Worker : LeaveSector(t)
    \/ \E t \in Worker : DeleteID(t)
    \/ UNCHANGED server

LEMMA Todo ==
    ASSUME IInv, NEW t \in Worker
    PROVE  /\ thread[t].pc \in {"locksync", "lockall"} =>
                thread[t].todo # {} /\ thread[t].todo \subseteq Sector
           /\ Casting(t) => thread[t].todo \subseteq Slot
  <1>1. /\ thread[t] \in ThreadType
        /\ thread[t].me \in Slot => player[thread[t].me] \in PlayerType
    BY DEF IInv, Types
  <1>2. CASE thread[t].pc = "locksync"
    <2>1. thread[t].me \in Slot
      BY <1>2 DEF IInv, Handlers, Handling
    <2> QED
      BY <1>1, <1>2, <2>1
      DEF IInv, Places, PlaceOf, ThreadType, PlayerType, Casting, Closing
  <1>3. CASE thread[t].pc = "lockall"
    BY <1>1, <1>3, Neighbours
    DEF IInv, Places, PlaceOf, ThreadType, Casting, Closing
  <1>4. CASE Casting(t)
    <2>1. thread[t].from \in Sector
      BY <1>1 DEF ThreadType
    <2>2. Listeners(t) \subseteq Slot
      BY <2>1, Neighbours DEF IInv, Types, Listeners
    <2> QED
      BY <1>4, <2>2 DEF IInv, Broadcasts, CastOf, Casting, Closing
  <1> QED
    BY <1>2, <1>3, <1>4

LEMMA FirstLock ==
    ASSUME NEW t, thread[t].todo # {}, thread[t].todo \subseteq Sector
    PROVE  /\ NextLock(t) \in thread[t].todo
           /\ \A q \in thread[t].todo : Before(NextLock(t), q)
  BY FirstSector DEF NextLock

LEMMA LockForm ==
    ASSUME IInv, NEW t \in Worker, LockSync(t) \/ LockAll(t)
    PROVE  \E l \in thread[t].todo : Locking(t, l)
  <1> DEFINE l == NextLock(t)
  <1>1. /\ thread[t].pc \in {"locksync", "lockall"}
        /\ thread[t].todo # {} /\ thread[t].todo \subseteq Sector
    BY Todo DEF LockSync, LockAll, Lock
  <1>2. /\ l \in thread[t].todo /\ l \in Sector
        /\ \A q \in thread[t].todo : Before(l, q)
    BY <1>1, FirstLock
  <1>3. thread \in [Worker -> ThreadType]
    BY DEF IInv, Types
  <1> HIDE DEF l
  <1>4. Locking(t, l)
    <2>1. /\ owner[l] \in {Nobody, t} /\ owner' = [owner EXCEPT ![l] = t]
          /\ UNCHANGED <<sess, nextID, player, sector, keys, loggedIn>>
      BY DEF LockSync, LockAll, Lock, CanLock, l
    <2>2. ASSUME NEW from, NEW place, thread[t].pc = from,
                 thread' = [thread EXCEPT
                              ![t].todo = @ \ {l},
                              ![t].pc = IF thread[t].todo = {l}
                                        THEN place ELSE from]
          PROVE  thread' = [thread EXCEPT ![t] =
                              [thread[t] EXCEPT
                                 !.todo = @ \ {l},
                                 !.pc = IF thread[t].todo # {l} THEN @
                                        ELSE place]]
      BY <1>3, <2>2 DEF ThreadType
    <2>3. CASE LockSync(t)
      <3>1. /\ thread[t].pc = "locksync"
            /\ thread' = [thread EXCEPT
                            ![t].todo = @ \ {l},
                            ![t].pc = IF thread[t].todo = {l}
                                      THEN "sync" ELSE "locksync"]
        BY <2>3, Zenon DEF LockSync, Lock, l
      <3> QED
        BY <1>2, <2>1, <2>2, <3>1 DEF Locking
    <2>4. CASE LockAll(t)
      <3>1. /\ thread[t].pc = "lockall"
            /\ thread' = [thread EXCEPT
                            ![t].todo = @ \ {l},
                            ![t].pc = IF thread[t].todo = {l}
                                      THEN "listen" ELSE "lockall"]
        BY <2>4, Zenon DEF LockAll, Lock, l
      <3> QED
        BY <1>2, <2>1, <2>2, <3>1 DEF Locking
    <2> QED
      BY <2>3, <2>4
  <1> QED
    BY <1>2, <1>4

LEMMA SendForm ==
    ASSUME IInv, NEW t \in Worker, SendBegin(t)
    PROVE  \E d \in thread[t].todo : Sending(t, d)
  <1> DEFINE d == CHOOSE s \in thread[t].todo : TRUE
  <1>1. thread[t].pc = "cast" /\ thread[t].todo # {}
    BY DEF SendBegin
  <1>2. d \in thread[t].todo
    BY <1>1
  <1>3. thread[t].todo \subseteq Slot
    BY <1>1, Todo DEF Casting
  <1>4. thread \in [Worker -> ThreadType] /\ sess \in [Slot -> SessType]
    BY DEF IInv, Types
  <1>5. /\ sess' = [sess EXCEPT ![d].io = @ + 1]
        /\ thread' = [thread EXCEPT ![t].todo = @ \ {d},
                                    ![t].heard = @ \cup {d},
                                    ![t].who = d, ![t].pc = "sent"]
        /\ UNCHANGED <<nextID, player, sector, keys, owner, loggedIn>>
    BY DEF SendBegin
  <1> HIDE DEF d
  <1>6. Sending(t, d)
    BY <1>1, <1>2, <1>3, <1>4, <1>5 DEF Sending, ThreadType, SessType
  <1> QED
    BY <1>2, <1>6

LEMMA InsertForm ==
    ASSUME ~Shared, IInv, NEW t \in Worker, InsertID(t)
    PROVE  Inserts(t)
  <1> DEFINE s == thread[t].me
  <1>1. thread[t].pc = "insert"
    BY DEF InsertID
  <1>2. s \in Slot /\ player[s].status = "SESSION" /\ ~sess[s].marked
    BY <1>1 DEF IInv, Handlers, Places, PlaceOf, Handling
  <1>3. ~ \E u \in Worker : thread[u].me = s /\ thread[u].pc = "login"
    <2> SUFFICES ASSUME NEW u \in Worker, thread[u].me = s,
                        thread[u].pc = "login"
                 PROVE  FALSE
      OBVIOUS
    <2>1. Handling(u) /\ Handling(t)
      BY <1>1 DEF Handling
    <2> QED
      BY <1>1, <2>1 DEF IInv, Handlers
  <1>4. keys[sess[s].id] = NoID
    BY <1>2, <1>3 DEF IInv, KeysHeld, KeyOf, Logging
  <1> QED
    BY <1>1, <1>4 DEF InsertID, Inserts, AccountOf

LEMMA StepForm ==
    ASSUME ~Shared, IInv, [Next]_vars
    PROVE  Change
  BY LockForm, SendForm, InsertForm
  DEF Next, Running, MoveTooEarly, Step, Handle, Change, vars, server

(* A count that is given back was there.                                    *)
LEMMA Counted ==
    ASSUME IInv, NEW s \in Slot,
           \/ sess[s].recv # "none"
           \/ \E t \in Worker : thread[t].pc = "sent" /\ thread[t].who = s
    PROVE  sess[s].io \in Nat \ {0}
  <1>1. Senders(s) \subseteq Worker /\ IsFiniteSet(Senders(s))
    BY ChatMultiAssumption, FS_Subset DEF Senders
  <1>2. Cardinality(Senders(s)) \in Nat
    BY <1>1, FS_CardinalityType
  <1>3. CASE sess[s].recv # "none"
    BY <1>2, <1>3 DEF IInv, Counts
  <1>4. ASSUME NEW t \in Worker, thread[t].pc = "sent", thread[t].who = s
        PROVE  sess[s].io \in Nat \ {0}
    <2>1. Senders(s) # {}
      BY <1>4 DEF Senders
    <2>2. Cardinality(Senders(s)) # 0
      BY <1>1, <2>1, FS_EmptySet
    <2> QED
      BY <1>2, <2>2 DEF IInv, Counts
  <1> QED
    BY <1>3, <1>4

LEMMA Corner == <<0, 0>> \in Sector
  BY ChatMultiAssumption DEF Sector

-----------------------------------------------------------------------------
(* What a step does, field by field.                                       *)
OtherSess(s) == \A r \in Slot : r # s => sess'[r] = sess[r]
OtherPlayers(s) == \A r \in Slot : r # s => player'[r] = player[r]
OtherThreads(t) == \A u \in Worker : u # t => thread'[u] = thread[u]

SameSess(s) ==
    /\ OtherSess(s)
    /\ sess'[s].id = sess[s].id /\ sess'[s].released = sess[s].released

GoesTo(t, pc) ==
    /\ OtherThreads(t)
    /\ thread'[t].pc = pc
    /\ thread'[t].me = thread[t].me /\ thread'[t].from = thread[t].from
    /\ thread'[t].who = thread[t].who /\ thread'[t].ret = thread[t].ret
    /\ thread'[t].todo = thread[t].todo /\ thread'[t].heard = thread[t].heard

GoesIdle(t) ==
    /\ OtherThreads(t)
    /\ thread'[t].pc = "idle" /\ thread'[t].me = Nobody
    /\ thread'[t].who = Nobody

Closes(t, s, ret) ==
    /\ OtherThreads(t)
    /\ thread'[t].pc = "ondisconnect"
    /\ thread'[t].who = s /\ thread'[t].ret = ret
    /\ thread'[t].me = thread[t].me /\ thread'[t].from = thread[t].from
    /\ thread'[t].todo = thread[t].todo /\ thread'[t].heard = thread[t].heard

Last(s) == sess[s].io = 1 /\ ~sess[s].released

Lowers(t, s, recv, ret) ==
    /\ OtherSess(s)
    /\ sess'[s].id = sess[s].id /\ sess'[s].marked = sess[s].marked
    /\ sess'[s].io = sess[s].io - 1
    /\ sess'[s].released = (sess[s].released \/ Last(s))
    /\ sess'[s].recv = recv
    /\ IF Last(s) THEN Closes(t, s, ret)
       ELSE IF ret = "idle" THEN GoesIdle(t) ELSE GoesTo(t, "cast")

Takes(t, s, place) ==
    /\ thread[t].pc = "idle"
    /\ sess[s].recv = "pending" /\ sess'[s].recv = "taken"
    /\ SameSess(s) /\ sess'[s].io = sess[s].io
    /\ OtherThreads(t)
    /\ thread'[t].pc = place /\ thread'[t].me = s
    /\ thread'[t].who = Nobody /\ thread'[t].ret = "idle"

Erases(s) ==
    /\ OtherSess(s) /\ OtherPlayers(s)
    /\ sess'[s].id = 0 /\ sess'[s].io = sess[s].io /\ sess'[s].released
    /\ ~sess'[s].marked /\ sess'[s].recv = "none"
    /\ player'[s].status = "IDLE"

LEMMA GotoDoes ==
    ASSUME thread \in [Worker -> ThreadType], NEW t \in Worker,
           NEW pc \in Place \ {"idle"}, Goto(t, pc)
    PROVE  thread' \in [Worker -> ThreadType] /\ GoesTo(t, pc)
  <1>1. thread' = [thread EXCEPT ![t].pc = pc]
    BY DEF Goto, On
  <1> QED
    BY <1>1 DEF ThreadType, GoesTo, OtherThreads

LEMMA IdleIn == Idle \in ThreadType
  BY Corner DEF Idle, ThreadType, Place

LEMMA GotoIdleDoes ==
    ASSUME thread \in [Worker -> ThreadType], NEW t \in Worker,
           thread' = [thread EXCEPT ![t] = Idle]
    PROVE  thread' \in [Worker -> ThreadType] /\ GoesIdle(t)
  <1>2. Idle.pc = "idle" /\ Idle.me = Nobody /\ Idle.who = Nobody
    BY DEF Idle
  <1> QED
    BY <1>2, IdleIn DEF GoesIdle, OtherThreads

LEMMA LowersDoes ==
    ASSUME thread \in [Worker -> ThreadType], sess \in [Slot -> SessType],
           NEW t \in Worker, NEW s \in Slot, NEW r \in SessType,
           NEW ret \in {"idle", "cast"}, Decrement(t, s, r, ret),
           r = [sess[s] EXCEPT !.recv = r.recv], sess[s].io \in Nat \ {0}
    PROVE  /\ sess' \in [Slot -> SessType]
           /\ thread' \in [Worker -> ThreadType]
           /\ Lowers(t, s, r.recv, ret)
  <1>1. /\ r.io = sess[s].io /\ r.released = sess[s].released
        /\ r.id = sess[s].id /\ r.marked = sess[s].marked
    BY DEF SessType
  <1> DEFINE n == sess[s].io - 1
             b == r.released \/ Last(s)
             q == [r EXCEPT !.io = n, !.released = b]
  <1>2. sess' = [sess EXCEPT ![s] = q]
    BY <1>1, Zenon DEF Decrement, Last
  <1>b. b \in BOOLEAN
    OBVIOUS
  <1>n. n \in Nat
    BY <1>1
  <1> HIDE DEF b, n
  <1>3. /\ q \in SessType
        /\ q.id = r.id /\ q.marked = r.marked /\ q.recv = r.recv
        /\ q.io = n /\ q.released = b
    BY <1>b, <1>n DEF SessType
  <1> HIDE DEF q
  <1>4. /\ sess' \in [Slot -> SessType] /\ sess'[s] = q
        /\ OtherSess(s)
    BY <1>2, <1>3 DEF OtherSess
  <1>5. CASE Last(s)
    <2>1. thread' = [thread EXCEPT ![t] =
                       [thread[t] EXCEPT !.pc = "ondisconnect", !.who = s,
                                         !.ret = ret]]
      BY <1>1, <1>5 DEF Decrement, Last
    <2>2. /\ thread' \in [Worker -> ThreadType] /\ Closes(t, s, ret)
      BY ZenonT(40), <2>1 DEF Closes, OtherThreads, ThreadType, Place
    <2> QED
      BY <1>1, <1>3, <1>4, <1>5, <2>2 DEF Lowers, b, n
  <1>6. CASE ~Last(s)
    <2>1. thread' = [thread EXCEPT ![t] = On(t, ret)]
      BY <1>1, <1>6 DEF Decrement, Last
    <2>2. CASE ret = "idle"
      <3>1. thread' \in [Worker -> ThreadType] /\ GoesIdle(t)
        BY <2>1, <2>2, GotoIdleDoes DEF On
      <3> QED
        BY <1>1, <1>3, <1>4, <1>6, <2>2, <3>1 DEF Lowers, b, n
    <2>3. CASE ret = "cast"
      <3>1. thread' \in [Worker -> ThreadType] /\ GoesTo(t, "cast")
        BY <2>1, <2>3, GotoDoes DEF Goto, Place
      <3> QED
        BY <1>1, <1>3, <1>4, <1>6, <2>3, <3>1 DEF Lowers, b, n
    <2> QED
      BY <2>2, <2>3
  <1> QED
    BY <1>5, <1>6

(* A message is taken; a bad one marks the session.                        *)
LEMMA SessTaken ==
    ASSUME sess \in [Slot -> SessType], NEW s \in Slot,
           sess' = [sess EXCEPT ![s].recv = "taken", ![s].sent = @ + 1]
    PROVE  /\ sess' \in [Slot -> SessType] /\ SameSess(s)
           /\ sess'[s].recv = "taken" /\ sess'[s].io = sess[s].io
           /\ sess'[s].marked = sess[s].marked
  <1> DEFINE n == sess[s].sent + 1
  <1>1. n \in Nat
    BY DEF SessType
  <1>2. sess' = [sess EXCEPT ![s].recv = "taken", ![s].sent = n]
    OBVIOUS
  <1> HIDE DEF n
  <1> QED
    BY <1>1, <1>2 DEF SessType, SameSess, OtherSess

LEMMA SessMarked ==
    ASSUME sess \in [Slot -> SessType], NEW s \in Slot,
           sess' = [sess EXCEPT ![s].recv = "taken", ![s].sent = @ + 1,
                                ![s].marked = TRUE]
    PROVE  /\ sess' \in [Slot -> SessType] /\ SameSess(s)
           /\ sess'[s].recv = "taken" /\ sess'[s].io = sess[s].io
           /\ sess'[s].marked
  <1> DEFINE n == sess[s].sent + 1
  <1>1. n \in Nat
    BY DEF SessType
  <1>2. sess' = [sess EXCEPT ![s].recv = "taken", ![s].sent = n,
                             ![s].marked = TRUE]
    OBVIOUS
  <1> HIDE DEF n
  <1> QED
    BY <1>1, <1>2 DEF SessType, SameSess, OtherSess

LEMMA ThreadDoes ==
    ASSUME thread \in [Worker -> ThreadType], NEW t \in Worker,
           NEW r \in ThreadType, thread' = [thread EXCEPT ![t] = r]
    PROVE  /\ thread' \in [Worker -> ThreadType] /\ OtherThreads(t)
           /\ thread'[t] = r
  BY DEF OtherThreads

LEMMA IdleBut ==
    ASSUME NEW pc \in Place, NEW s \in Slot
    PROVE  LET r == [Idle EXCEPT !.pc = pc, !.me = s]
           IN  /\ r \in ThreadType /\ r.pc = pc /\ r.me = s
               /\ r.who = Nobody /\ r.ret = "idle"
  <1>1. Idle.who = Nobody /\ Idle.ret = "idle"
    BY DEF Idle
  <1> QED
    BY <1>1, IdleIn DEF ThreadType

LEMMA FreedDoes ==
    ASSUME player \in [Slot -> PlayerType], sess \in [Slot -> SessType],
           NEW s \in Slot, Freed(s)
    PROVE  /\ player' \in [Slot -> PlayerType] /\ sess' \in [Slot -> SessType]
           /\ Erases(s)
  <1> DEFINE q == [NoSession EXCEPT !.io = sess[s].io]
  <1>1. sess' = [sess EXCEPT ![s] = q]
    BY DEF Freed
  <1>2. sess[s].io \in Nat
    BY DEF SessType
  <1>n. NoSession \in SessType
    BY ChatMultiAssumption DEF SessType, NoSession
  <1>3. q \in SessType
    BY <1>2, <1>n DEF SessType
  <1>6. /\ q.id = 0 /\ q.io = sess[s].io /\ q.released = TRUE
        /\ q.marked = FALSE /\ q.recv = "none"
    BY DEF NoSession
  <1> HIDE DEF q
  <1>5. sess' \in [Slot -> SessType] /\ OtherSess(s) /\ sess'[s] = q
    BY <1>1, <1>3 DEF OtherSess
  <1>4. player' \in [Slot -> PlayerType] /\ OtherPlayers(s)
        /\ player'[s].status = "IDLE"
    BY DEF PlayerType, Freed, OtherPlayers
  <1> QED
    BY <1>4, <1>5, <1>6 DEF Erases

-----------------------------------------------------------------------------
(* The same for each action, and that the variables keep their types.       *)
LEMMA Typed ==
    ASSUME IInv
    PROVE  /\ thread \in [Worker -> ThreadType] /\ sess \in [Slot -> SessType]
           /\ player \in [Slot -> PlayerType]
           /\ sector \in [Sector -> SUBSET Slot]
           /\ keys \in [Account -> KeyType]
           /\ owner \in [Sector \cup {KeyLock} -> Worker \cup {Nobody}]
           /\ nextID \in 1 .. MaxSessions + 1 /\ loggedIn \in Int
  BY DEF IInv, Types

LEMMA Fields ==
    /\ \A r \in ThreadType :
          /\ r.from \in Sector /\ r.pc \in Place /\ r.ret \in {"idle", "cast"}
          /\ r.todo \subseteq Slot \cup Sector /\ r.heard \subseteq Slot
    /\ \A r \in SessType :
          /\ r.id \in 0 .. MaxSessions /\ r.io \in Nat
          /\ r.released \in BOOLEAN /\ r.marked \in BOOLEAN
          /\ r.recv \in {"none", "pending", "taken", "failed"}
    /\ \A r \in PlayerType :
          /\ r.at \in Sector /\ r.account \in 0 .. MaxSessions
          /\ r.status \in {"IDLE", "SESSION", "PENDING_SECTOR", "PLAYER"}
  BY DEF ThreadType, SessType, PlayerType

LEMMA OnAcceptDoes ==
    ASSUME IInv, NEW s \in Slot, OnAccept(s)
    PROVE  /\ Types'
           /\ sess[s].id = 0 /\ sess[s].io = 0 /\ sess[s].recv = "none"
           /\ sess[s].released /\ ~sess[s].marked
           /\ OtherSess(s) /\ OtherPlayers(s)
           /\ sess'[s].id = nextID /\ sess'[s].io = 1
           /\ ~sess'[s].released /\ ~sess'[s].marked
           /\ sess'[s].recv = "pending" /\ player'[s].status = "SESSION"
           /\ nextID <= MaxSessions /\ nextID' = nextID + 1
           /\ UNCHANGED <<sector, keys, owner, loggedIn, thread>>
  <1> DEFINE q == [NoSession EXCEPT !.id = nextID, !.io = 1,
                                    !.released = FALSE, !.recv = "pending"]
             r == [NoPlayer EXCEPT !.status = "SESSION"]
  <1>1. /\ sess[s] = NoSession /\ nextID <= MaxSessions
        /\ nextID' = nextID + 1
        /\ sess' = [sess EXCEPT ![s] = q] /\ player' = [player EXCEPT ![s] = r]
        /\ UNCHANGED <<sector, keys, owner, loggedIn, thread>>
    BY DEF OnAccept
  <1>2. /\ NoSession.id = 0 /\ NoSession.io = 0 /\ NoSession.recv = "none"
        /\ NoSession.released = TRUE /\ NoSession.marked = FALSE
    BY DEF NoSession
  <1>3. nextID \in 0 .. MaxSessions
    BY <1>1, Typed, ChatMultiAssumption
  <1>4. NoSession \in SessType /\ NoPlayer \in PlayerType
    BY Corner, ChatMultiAssumption
    DEF NoSession, SessType, NoPlayer, PlayerType
  <1>5. q \in SessType
    BY <1>3, <1>4 DEF SessType
  <1>6. /\ q.id = nextID /\ q.io = 1 /\ q.released = FALSE
        /\ q.marked = FALSE /\ q.recv = "pending"
    BY DEF NoSession
  <1>7. r \in PlayerType /\ r.status = "SESSION"
    BY <1>4 DEF PlayerType
  <1> HIDE DEF q, r
  <1>8. /\ sess' \in [Slot -> SessType] /\ OtherSess(s) /\ sess'[s] = q
        /\ player' \in [Slot -> PlayerType] /\ OtherPlayers(s)
        /\ player'[s] = r
    BY <1>1, <1>5, <1>7, Typed DEF OtherSess, OtherPlayers
  <1>9. nextID' \in 1 .. MaxSessions + 1
    BY <1>1, Typed, ChatMultiAssumption
  <1>10. Types'
    BY <1>1, <1>8, <1>9, Typed DEF Types
  <1> QED
    BY <1>1, <1>2, <1>6, <1>7, <1>8, <1>10

LEMMA ClientLeavesDoes ==
    ASSUME IInv, NEW s \in Slot, ClientLeaves(s)
    PROVE  /\ Types'
           /\ sess[s].recv = "pending" /\ sess'[s].recv = "failed"
           /\ SameSess(s) /\ sess'[s].io = sess[s].io
           /\ sess'[s].marked = sess[s].marked
           /\ UNCHANGED <<nextID, player, sector, keys, owner, loggedIn,
                          thread>>
  <1>1. /\ sess[s].recv = "pending"
        /\ sess' = [sess EXCEPT ![s].recv = "failed"]
        /\ UNCHANGED <<nextID, player, sector, keys, owner, loggedIn, thread>>
    BY DEF ClientLeaves
  <1>2. /\ sess' \in [Slot -> SessType] /\ SameSess(s)
        /\ sess'[s].recv = "failed" /\ sess'[s].io = sess[s].io
        /\ sess'[s].marked = sess[s].marked
    BY <1>1, Typed DEF SessType, SameSess, OtherSess
  <1>3. Types'
    BY <1>1, <1>2, Typed DEF Types
  <1> QED
    BY <1>1, <1>2, <1>3

LEMMA TakeFailedDoes ==
    ASSUME IInv, NEW t \in Worker, NEW s \in Slot, TakeFailed(t, s)
    PROVE  /\ Types'
           /\ thread[t].pc = "idle" /\ sess[s].recv = "failed"
           /\ Lowers(t, s, "none", "idle")
           /\ UNCHANGED <<nextID, player, sector, keys, owner, loggedIn>>
  <1> DEFINE r == [sess[s] EXCEPT !.recv = "none"]
  <1>1. /\ thread[t].pc = "idle" /\ sess[s].recv = "failed"
        /\ Decrement(t, s, r, "idle")
        /\ UNCHANGED <<nextID, player, sector, keys, owner, loggedIn>>
    BY Zenon DEF TakeFailed, Waiting
  <1>2. r \in SessType /\ r.recv = "none"
    BY Typed DEF SessType
  <1>3. sess[s].io \in Nat \ {0}
    BY <1>1, Counted
  <1>4. r = [sess[s] EXCEPT !.recv = r.recv]
    BY <1>2
  <1> HIDE DEF r
  <1>5. /\ sess' \in [Slot -> SessType] /\ thread' \in [Worker -> ThreadType]
        /\ Lowers(t, s, "none", "idle")
    BY <1>1, <1>2, <1>3, <1>4, Typed, LowersDoes
  <1>6. Types'
    BY <1>1, <1>5, Typed DEF Types
  <1> QED
    BY <1>1, <1>5, <1>6

LEMMA BadMessageDoes ==
    ASSUME IInv, NEW t \in Worker, NEW s \in Slot, HandleBadMessage(t, s)
    PROVE  /\ Types' /\ Takes(t, s, "finish") /\ sess'[s].marked
           /\ UNCHANGED <<nextID, player, sector, keys, owner, loggedIn>>
  <1> DEFINE r == [Idle EXCEPT !.pc = "finish", !.me = s]
  <1>1. /\ thread[t].pc = "idle" /\ sess[s].recv = "pending"
        /\ sess' = [sess EXCEPT ![s].recv = "taken", ![s].sent = @ + 1,
                                ![s].marked = TRUE]
        /\ thread' = [thread EXCEPT ![t] = r]
        /\ UNCHANGED <<nextID, player, sector, keys, owner, loggedIn>>
    BY Zenon DEF HandleBadMessage, Waiting
  <1>2. /\ r \in ThreadType /\ r.pc = "finish" /\ r.me = s
        /\ r.who = Nobody /\ r.ret = "idle"
    BY IdleBut DEF Place
  <1> HIDE DEF r
  <1>3. /\ thread' \in [Worker -> ThreadType] /\ OtherThreads(t)
        /\ thread'[t] = r
    BY <1>1, <1>2, Typed, ThreadDoes
  <1>4. /\ sess' \in [Slot -> SessType] /\ SameSess(s)
        /\ sess'[s].recv = "taken" /\ sess'[s].io = sess[s].io
        /\ sess'[s].marked
    BY <1>1, Typed, SessMarked
  <1>5. Types'
    BY <1>1, <1>3, <1>4, Typed DEF Types
  <1> QED
    BY <1>1, <1>2, <1>3, <1>4, <1>5 DEF Takes

(* The other messages leave the mark alone.                                *)
LEMMA TakeMessage ==
    ASSUME IInv, NEW t \in Worker, NEW s \in Slot, NEW r \in ThreadType,
           thread[t].pc = "idle", sess[s].recv = "pending",
           r.me = s, r.who = Nobody, r.ret = "idle",
           sess' = [sess EXCEPT ![s].recv = "taken", ![s].sent = @ + 1],
           thread' = [thread EXCEPT ![t] = r]
    PROVE  /\ sess' \in [Slot -> SessType]
           /\ thread' \in [Worker -> ThreadType]
           /\ Takes(t, s, r.pc) /\ sess'[s].marked = sess[s].marked
           /\ thread'[t] = r
  <1>1. /\ thread' \in [Worker -> ThreadType] /\ OtherThreads(t)
        /\ thread'[t] = r
    BY Typed, ThreadDoes
  <1>2. /\ sess' \in [Slot -> SessType] /\ SameSess(s)
        /\ sess'[s].recv = "taken" /\ sess'[s].io = sess[s].io
        /\ sess'[s].marked = sess[s].marked
    BY Typed, SessTaken
  <1> QED
    BY <1>1, <1>2 DEF Takes

LEMMA TakeDoes ==
    ASSUME IInv, NEW t \in Worker, NEW s \in Slot, NEW pc \in Place,
           Take(t, s, pc)
    PROVE  /\ sess' \in [Slot -> SessType]
           /\ thread' \in [Worker -> ThreadType]
           /\ Takes(t, s, pc) /\ sess'[s].marked = sess[s].marked
  <1> DEFINE r == [Idle EXCEPT !.pc = pc, !.me = s]
  <1>1. /\ thread[t].pc = "idle" /\ sess[s].recv = "pending"
        /\ sess' = [sess EXCEPT ![s].recv = "taken", ![s].sent = @ + 1]
        /\ thread' = [thread EXCEPT ![t] = r]
    BY Zenon DEF Take, Waiting
  <1>2. /\ r \in ThreadType /\ r.pc = pc /\ r.me = s
        /\ r.who = Nobody /\ r.ret = "idle"
    BY IdleBut
  <1> HIDE DEF r
  <1> QED
    BY <1>1, <1>2, TakeMessage

LEMMA LoginMessageDoes ==
    ASSUME IInv, NEW t \in Worker, NEW s \in Slot, HandleLoginMessage(t, s)
    PROVE  /\ Types' /\ Takes(t, s, "insert")
           /\ sess'[s].marked = sess[s].marked /\ player[s].status = "SESSION"
           /\ UNCHANGED <<nextID, player, sector, keys, owner, loggedIn>>
  <1>1. /\ player[s].status = "SESSION" /\ Take(t, s, "insert")
        /\ UNCHANGED <<nextID, player, sector, keys, owner, loggedIn>>
    BY DEF HandleLoginMessage
  <1>2. "insert" \in Place
    BY DEF Place
  <1>3. /\ sess' \in [Slot -> SessType] /\ thread' \in [Worker -> ThreadType]
        /\ Takes(t, s, "insert") /\ sess'[s].marked = sess[s].marked
    BY <1>1, <1>2, TakeDoes
  <1>4. Types'
    BY <1>1, <1>3, Typed DEF Types
  <1> QED
    BY <1>1, <1>3, <1>4

LEMMA FirstMoveDoes ==
    ASSUME IInv, NEW t \in Worker, NEW s \in Slot, NEW p \in Sector,
           HandleFirstMove(t, s, p)
    PROVE  /\ Types' /\ Takes(t, s, "enter")
           /\ sess'[s].marked = sess[s].marked
           /\ player[s].status = "PENDING_SECTOR"
           /\ OtherPlayers(s) /\ player'[s].status = "PLAYER"
           /\ player'[s].at = p /\ player'[s].account = player[s].account
           /\ UNCHANGED <<nextID, sector, keys, owner, loggedIn>>
  <1>1. /\ player[s].status = "PENDING_SECTOR" /\ Take(t, s, "enter")
        /\ player' = [player EXCEPT ![s].status = "PLAYER", ![s].at = p]
        /\ UNCHANGED <<nextID, sector, keys, owner, loggedIn>>
    BY DEF HandleFirstMove
  <1>2. "enter" \in Place
    BY DEF Place
  <1>3. /\ sess' \in [Slot -> SessType] /\ thread' \in [Worker -> ThreadType]
        /\ Takes(t, s, "enter") /\ sess'[s].marked = sess[s].marked
    BY <1>1, <1>2, TakeDoes
  <1>4. /\ player' \in [Slot -> PlayerType]
        /\ OtherPlayers(s) /\ player'[s].status = "PLAYER"
        /\ player'[s].at = p /\ player'[s].account = player[s].account
    BY <1>1, Typed DEF PlayerType, OtherPlayers
  <1>5. Types'
    BY <1>1, <1>3, <1>4, Typed DEF Types
  <1> QED
    BY <1>1, <1>3, <1>4, <1>5

LEMMA SectorMoveDoes ==
    ASSUME IInv, NEW t \in Worker, NEW s \in Slot, NEW p \in Sector,
           HandleSectorMoveMessage(t, s, p)
    PROVE  /\ Types' /\ sess'[s].marked = sess[s].marked
           /\ player[s].status = "PLAYER"
           /\ OtherPlayers(s) /\ player'[s].status = "PLAYER"
           /\ player'[s].at = p /\ player'[s].account = player[s].account
           /\ \/ p = player[s].at /\ Takes(t, s, "finish")
              \/ /\ p # player[s].at /\ Takes(t, s, "locksync")
                 /\ thread'[t].from = player[s].at
                 /\ thread'[t].todo = {player[s].at, p}
           /\ UNCHANGED <<nextID, sector, keys, owner, loggedIn>>
  <1> DEFINE P == player[s].at
  <1>0. /\ thread[t].pc = "idle" /\ sess[s].recv = "pending"
        /\ sess' = [sess EXCEPT ![s].recv = "taken", ![s].sent = @ + 1]
    BY Zenon DEF HandleSectorMoveMessage, Waiting
  <1>1. /\ player[s].status = "PLAYER"
        /\ player' = [player EXCEPT ![s].at = p]
        /\ UNCHANGED <<nextID, sector, keys, owner, loggedIn>>
    BY Zenon DEF HandleSectorMoveMessage
  <1>2. /\ player' \in [Slot -> PlayerType]
        /\ OtherPlayers(s) /\ player'[s].status = "PLAYER"
        /\ player'[s].at = p /\ player'[s].account = player[s].account
        /\ P \in Sector
    BY <1>1, Typed DEF PlayerType, OtherPlayers
  <1>3. CASE p = P
    <2> DEFINE r == [Idle EXCEPT !.pc = "finish", !.me = s]
    <2>1. thread' = [thread EXCEPT ![t] = r]
      BY <1>3, Zenon DEF HandleSectorMoveMessage
    <2>2. /\ r \in ThreadType /\ r.pc = "finish" /\ r.me = s
          /\ r.who = Nobody /\ r.ret = "idle"
      BY IdleBut DEF Place
    <2> HIDE DEF r
    <2>3. /\ sess' \in [Slot -> SessType] /\ thread' \in [Worker -> ThreadType]
          /\ Takes(t, s, r.pc) /\ sess'[s].marked = sess[s].marked
      BY <1>0, <2>1, <2>2, TakeMessage
    <2>4. Types'
      BY <1>1, <1>2, <2>3, Typed DEF Types
    <2> QED
      BY <1>1, <1>2, <1>3, <2>2, <2>3, <2>4
  <1>4. CASE p # P
    <2> DEFINE S == {P, p}
               r == [Idle EXCEPT !.pc = "locksync", !.me = s,
                                 !.from = P, !.todo = S]
    <2>1. thread' = [thread EXCEPT ![t] = r]
      BY <1>4, Zenon DEF HandleSectorMoveMessage
    <2>2. S \in SUBSET Sector /\ "locksync" \in Place
      BY <1>2 DEF Place
    <2>3. /\ r \in ThreadType /\ r.pc = "locksync" /\ r.me = s
          /\ r.who = Nobody /\ r.ret = "idle"
          /\ r.from = P /\ r.todo = S
      <3> HIDE DEF S, P
      <3> QED
        BY <1>2, <2>2, IdleIn DEF Idle, ThreadType
    <2> HIDE DEF r
    <2>4. /\ sess' \in [Slot -> SessType] /\ thread' \in [Worker -> ThreadType]
          /\ Takes(t, s, r.pc) /\ sess'[s].marked = sess[s].marked
          /\ thread'[t] = r
      BY <1>0, <2>1, <2>3, TakeMessage
    <2>5. Types'
      BY <1>1, <1>2, <2>4, Typed DEF Types
    <2> QED
      BY <1>1, <1>2, <1>4, <2>3, <2>4, <2>5
  <1> QED
    BY <1>3, <1>4

LEMMA ChatMessageDoes ==
    ASSUME IInv, NEW t \in Worker, NEW s \in Slot, HandleChatMessage(t, s)
    PROVE  /\ Types' /\ Takes(t, s, "lockall")
           /\ sess'[s].marked = sess[s].marked
           /\ thread'[t].from = player[s].at
           /\ thread'[t].todo = Around(player[s].at)
           /\ UNCHANGED <<nextID, player, sector, keys, owner, loggedIn>>
  <1> DEFINE P == player[s].at
             A == Around(P)
             r == [Idle EXCEPT !.pc = "lockall", !.me = s,
                               !.from = P, !.todo = A]
  <1>1. /\ thread[t].pc = "idle" /\ sess[s].recv = "pending"
        /\ sess' = [sess EXCEPT ![s].recv = "taken", ![s].sent = @ + 1]
        /\ thread' = [thread EXCEPT ![t] = r]
    BY Zenon DEF HandleChatMessage, Waiting
  <1>u. UNCHANGED <<nextID, player, sector, keys, owner, loggedIn>>
    BY Zenon DEF HandleChatMessage
  <1>2. /\ P \in Sector /\ "lockall" \in Place
        /\ A \in SUBSET Sector
    BY Typed, Fields, Neighbours DEF Place
  <1>3. /\ r \in ThreadType /\ r.pc = "lockall" /\ r.me = s
        /\ r.who = Nobody /\ r.ret = "idle"
        /\ r.from = P /\ r.todo = A
    <2> HIDE DEF P, A
    <2> QED
      BY <1>2, IdleIn DEF Idle, ThreadType
  <1> HIDE DEF r
  <1>4. /\ sess' \in [Slot -> SessType] /\ thread' \in [Worker -> ThreadType]
        /\ Takes(t, s, r.pc) /\ sess'[s].marked = sess[s].marked
        /\ thread'[t] = r
    BY <1>1, <1>3, TakeMessage
  <1>5. Types'
    BY <1>u, <1>4, Typed DEF Types
  <1> QED
    BY <1>1, <1>u, <1>3, <1>4, <1>5

LEMMA Me ==
    ASSUME IInv, NEW t \in Worker, Handling(t)
    PROVE  /\ thread[t].me \in Slot /\ sess[thread[t].me].recv = "taken"
           /\ ~sess[thread[t].me].released /\ sess[thread[t].me].id # 0
           /\ sess[thread[t].me].id \in Account
  <1>1. thread[t].me \in Slot /\ sess[thread[t].me].recv = "taken"
    BY DEF IInv, Handlers
  <1>2. /\ ~sess[thread[t].me].released /\ sess[thread[t].me].id # 0
    BY <1>1 DEF IInv, Sessions, SessionOf
  <1>3. sess[thread[t].me].id \in 0 .. MaxSessions
    BY <1>1, Typed, Fields
  <1> QED
    BY <1>1, <1>2, <1>3, ChatMultiAssumption DEF Account

LEMMA Who ==
    ASSUME IInv, NEW t \in Worker, Closing(t)
    PROVE  /\ thread[t].who \in Slot /\ sess[thread[t].who].released
           /\ sess[thread[t].who].recv = "none"
           /\ sess[thread[t].who].id # 0
           /\ player[thread[t].who].status # "IDLE"
  BY DEF IInv, Closers, Sessions, SessionOf

LEMMA FinishDoes ==
    ASSUME IInv, NEW t \in Worker, Finish(t)
    PROVE  LET s == thread[t].me
           IN  /\ Types' /\ thread[t].pc = "finish" /\ s \in Slot
               /\ sess[s].recv = "taken"
               /\ \/ Lowers(t, s, "none", "idle")
                  \/ /\ ~sess[s].marked /\ ~sess'[s].marked /\ SameSess(s)
                     /\ sess'[s].recv = "pending" /\ sess'[s].io = sess[s].io
                     /\ GoesIdle(t)
               /\ UNCHANGED <<nextID, player, sector, keys, owner, loggedIn>>
  <1> DEFINE s == thread[t].me
             r == [sess[s] EXCEPT !.recv = "none"]
  <1>1. /\ thread[t].pc = "finish"
        /\ UNCHANGED <<nextID, player, sector, keys, owner, loggedIn>>
    BY DEF Finish
  <1>2. s \in Slot /\ sess[s].recv = "taken"
    BY <1>1, Me DEF Handling
  <1>3. CASE Decrement(t, s, r, "idle")
    <2>1. Decrement(t, s, r, "idle")
      BY <1>3
    <2> HIDE DEF s
    <2>2. r \in SessType /\ r.recv = "none"
      BY <1>2, Typed DEF SessType
    <2>3. sess[s].io \in Nat \ {0}
      BY <1>2, Counted
    <2>4. r = [sess[s] EXCEPT !.recv = r.recv]
      BY <2>2
    <2> HIDE DEF r
    <2>5. /\ sess' \in [Slot -> SessType] /\ thread' \in [Worker -> ThreadType]
          /\ Lowers(t, s, "none", "idle")
      BY <1>2, <2>1, <2>2, <2>3, <2>4, Typed, LowersDoes
    <2>6. Types'
      BY <1>1, <2>5, Typed DEF Types
    <2> QED
      BY <1>1, <1>2, <1>3, <2>5, <2>6 DEF s
  <1>4. CASE /\ ~sess[s].marked
             /\ sess' = [sess EXCEPT ![s].recv = "pending"]
             /\ thread' = [thread EXCEPT ![t] = Idle]
    <2>1. /\ sess' = [sess EXCEPT ![s].recv = "pending"]
          /\ thread' = [thread EXCEPT ![t] = Idle]
      BY <1>4
    <2> HIDE DEF s
    <2>2. /\ sess' \in [Slot -> SessType] /\ SameSess(s)
          /\ sess'[s].recv = "pending" /\ sess'[s].io = sess[s].io
          /\ sess'[s].marked = sess[s].marked
      BY <1>2, <2>1, Typed DEF SessType, SameSess, OtherSess
    <2>3. thread' \in [Worker -> ThreadType] /\ GoesIdle(t)
      BY <2>1, Typed, GotoIdleDoes
    <2>4. Types'
      BY <1>1, <2>2, <2>3, Typed DEF Types
    <2> QED
      BY <1>1, <1>2, <1>4, <2>2, <2>3, <2>4 DEF s
  <1>5. \/ Decrement(t, s, r, "idle")
        \/ /\ ~sess[s].marked
           /\ sess' = [sess EXCEPT ![s].recv = "pending"]
           /\ thread' = [thread EXCEPT ![t] = Idle]
    BY DEF Finish
  <1> QED
    BY <1>3, <1>4, <1>5

LEMMA InsertsDoes ==
    ASSUME IInv, NEW t \in Worker, Inserts(t)
    PROVE  LET s == thread[t].me
               id == sess[s].id
           IN  /\ Types' /\ thread[t].pc = "insert" /\ s \in Slot
               /\ GoesTo(t, "login") /\ id \in Account
               /\ keys[id] = NoID /\ keys'[id] = [id |-> id, slot |-> s]
               /\ \A a \in Account : a # id => keys'[a] = keys[a]
               /\ UNCHANGED <<sess, nextID, player, sector, owner, loggedIn>>
  <1> DEFINE s == thread[t].me
             id == sess[s].id
             k == [id |-> id, slot |-> s]
  <1>1. /\ thread[t].pc = "insert" /\ keys[id] = NoID
        /\ keys' = [keys EXCEPT ![id] = k] /\ Goto(t, "login")
        /\ UNCHANGED <<sess, nextID, player, sector, owner, loggedIn>>
    BY DEF Inserts
  <1>2. s \in Slot /\ id \in Account
    BY <1>1, Me DEF Handling
  <1>3. k \in KeyType
    BY <1>2, ChatMultiAssumption DEF KeyType, Account
  <1>4. thread' \in [Worker -> ThreadType] /\ GoesTo(t, "login")
    BY <1>1, Typed, GotoDoes DEF Place
  <1> HIDE DEF k, id
  <1>5. /\ keys' \in [Account -> KeyType] /\ keys'[id] = k
        /\ \A a \in Account : a # id => keys'[a] = keys[a]
    BY <1>1, <1>2, <1>3, Typed
  <1>6. Types'
    BY <1>1, <1>4, <1>5, Typed DEF Types
  <1> QED
    BY <1>1, <1>2, <1>4, <1>5, <1>6 DEF k, id

LEMMA LoginDoes ==
    ASSUME ~Shared, IInv, NEW t \in Worker, Login(t)
    PROVE  LET s == thread[t].me
           IN  /\ Types' /\ thread[t].pc = "login" /\ s \in Slot
               /\ GoesTo(t, "finish")
               /\ OtherPlayers(s) /\ player'[s].status = "PENDING_SECTOR"
               /\ player'[s].account = sess[s].id
               /\ loggedIn' = loggedIn + 1
               /\ UNCHANGED <<sess, nextID, sector, keys, owner>>
  <1> DEFINE s == thread[t].me
             a == sess[s].id
             r == [NoPlayer EXCEPT !.status = "PENDING_SECTOR", !.account = a]
  <1>1. /\ thread[t].pc = "login" /\ player' = [player EXCEPT ![s] = r]
        /\ loggedIn' = loggedIn + 1 /\ Goto(t, "finish")
        /\ UNCHANGED <<sess, nextID, sector, keys, owner>>
    BY DEF Login, AccountOf
  <1>2. s \in Slot /\ a \in 0 .. MaxSessions
    BY <1>1, Me, Typed, Fields DEF Handling
  <1> HIDE DEF a
  <1>3. NoPlayer \in PlayerType
    BY Corner, ChatMultiAssumption DEF NoPlayer, PlayerType
  <1>4. r \in PlayerType /\ r.status = "PENDING_SECTOR" /\ r.account = a
    BY <1>2, <1>3 DEF PlayerType
  <1>5. thread' \in [Worker -> ThreadType] /\ GoesTo(t, "finish")
    BY <1>1, Typed, GotoDoes DEF Place
  <1> HIDE DEF r
  <1>6. /\ player' \in [Slot -> PlayerType] /\ OtherPlayers(s)
        /\ player'[s] = r
    BY <1>1, <1>2, <1>4, Typed DEF OtherPlayers
  <1>7. loggedIn' \in Int
    BY <1>1, Typed
  <1>8. Types'
    BY <1>1, <1>5, <1>6, <1>7, Typed DEF Types
  <1> QED
    BY <1>1, <1>2, <1>4, <1>5, <1>6, <1>8 DEF a

LEMMA BadNameDoes ==
    ASSUME IInv, NEW t \in Worker, BadName(t)
    PROVE  LET s == thread[t].me
           IN  /\ Types' /\ thread[t].pc = "login" /\ s \in Slot
               /\ GoesTo(t, "finish") /\ SameSess(s)
               /\ sess'[s].recv = sess[s].recv /\ sess'[s].io = sess[s].io
               /\ sess'[s].marked
               /\ UNCHANGED <<nextID, player, sector, keys, owner, loggedIn>>
  <1> DEFINE s == thread[t].me
  <1>1. /\ thread[t].pc = "login" /\ sess' = [sess EXCEPT ![s].marked = TRUE]
        /\ Goto(t, "finish")
        /\ UNCHANGED <<nextID, player, sector, keys, owner, loggedIn>>
    BY DEF BadName
  <1>2. s \in Slot
    BY <1>1, Me DEF Handling
  <1>3. thread' \in [Worker -> ThreadType] /\ GoesTo(t, "finish")
    BY <1>1, Typed, GotoDoes DEF Place
  <1> HIDE DEF s
  <1>4. /\ sess' \in [Slot -> SessType] /\ SameSess(s)
        /\ sess'[s].recv = sess[s].recv /\ sess'[s].io = sess[s].io
        /\ sess'[s].marked
    BY <1>1, <1>2, Typed DEF SessType, SameSess, OtherSess
  <1>5. Types'
    BY <1>1, <1>3, <1>4, Typed DEF Types
  <1> QED
    BY <1>1, <1>2, <1>3, <1>4, <1>5 DEF s

LEMMA EnterSectorDoes ==
    ASSUME IInv, NEW t \in Worker, EnterSector(t)
    PROVE  LET s == thread[t].me
               p == player[s].at
           IN  /\ Types' /\ thread[t].pc = "enter" /\ s \in Slot
               /\ GoesTo(t, "finish") /\ p \in Sector /\ CanLock(t, p)
               /\ sector' = [sector EXCEPT ![p] = sector[p] \cup {s}]
               /\ UNCHANGED <<sess, nextID, player, keys, owner, loggedIn>>
  <1> DEFINE s == thread[t].me
             p == player[s].at
  <1>1. /\ thread[t].pc = "enter" /\ Goto(t, "finish") /\ CanLock(t, p)
        /\ sector' = [sector EXCEPT ![p] = sector[p] \cup {s}]
        /\ UNCHANGED <<sess, nextID, player, keys, owner, loggedIn>>
    BY DEF EnterSector
  <1>2. s \in Slot /\ p \in Sector
    BY <1>1, Me, Typed, Fields DEF Handling
  <1>3. thread' \in [Worker -> ThreadType] /\ GoesTo(t, "finish")
    BY <1>1, Typed, GotoDoes DEF Place
  <1>4. sector' \in [Sector -> SUBSET Slot]
    BY <1>1, <1>2, Typed
  <1>5. Types'
    BY <1>1, <1>3, <1>4, Typed DEF Types
  <1> QED
    BY <1>1, <1>2, <1>3, <1>5

(* The fields a thread keeps on its way through the locks and listeners.    *)
KeepsOn(t) ==
    /\ OtherThreads(t)
    /\ thread'[t].me = thread[t].me /\ thread'[t].from = thread[t].from
    /\ thread'[t].ret = thread[t].ret

LEMMA LockingDoes ==
    ASSUME IInv, NEW t \in Worker, NEW l \in thread[t].todo, Locking(t, l)
    PROVE  /\ Types' /\ thread[t].pc \in {"locksync", "lockall"}
           /\ l \in Sector /\ owner[l] \in {Nobody, t}
           /\ \A q \in thread[t].todo : Before(l, q)
           /\ owner' = [owner EXCEPT ![l] = t]
           /\ KeepsOn(t) /\ thread'[t].todo = thread[t].todo \ {l}
           /\ thread'[t].pc = IF thread[t].todo # {l} THEN thread[t].pc
                              ELSE IF thread[t].pc = "locksync" THEN "sync"
                              ELSE "listen"
           /\ UNCHANGED <<sess, nextID, player, sector, keys, loggedIn>>
  <1> DEFINE pc == IF thread[t].todo # {l} THEN thread[t].pc
                   ELSE IF thread[t].pc = "locksync" THEN "sync" ELSE "listen"
             S == thread[t].todo \ {l}
             r == [thread[t] EXCEPT !.todo = S, !.pc = pc]
  <1>1. /\ thread[t].pc \in {"locksync", "lockall"}
        /\ l \in Sector /\ owner[l] \in {Nobody, t}
        /\ \A q \in thread[t].todo : Before(l, q)
        /\ owner' = [owner EXCEPT ![l] = t]
        /\ thread' = [thread EXCEPT ![t] = r]
        /\ UNCHANGED <<sess, nextID, player, sector, keys, loggedIn>>
    BY DEF Locking
  <1>2. thread[t] \in ThreadType
    BY Typed
  <1>3. pc \in Place /\ S \in SUBSET (Slot \cup Sector)
    BY <1>1, <1>2, Fields DEF Place
  <1>4. r \in ThreadType
    <2> HIDE DEF pc, S
    <2> QED
      BY <1>2, <1>3 DEF ThreadType
  <1>5. /\ r.me = thread[t].me /\ r.from = thread[t].from
        /\ r.ret = thread[t].ret /\ r.todo = S /\ r.pc = pc
    <2> HIDE DEF pc, S
    <2> QED
      BY <1>2 DEF ThreadType
  <1> HIDE DEF r
  <1>6. /\ thread' \in [Worker -> ThreadType] /\ OtherThreads(t)
        /\ thread'[t] = r
    BY <1>1, <1>4, Typed, ThreadDoes
  <1>7. owner' \in [Sector \cup {KeyLock} -> Worker \cup {Nobody}]
    BY <1>1, Typed
  <1>8. Types'
    BY <1>1, <1>6, <1>7, Typed DEF Types
  <1> QED
    BY <1>1, <1>5, <1>6, <1>8 DEF KeepsOn

LEMMA SyncSectorDoes ==
    ASSUME IInv, NEW t \in Worker, SyncSector(t)
    PROVE  LET s == thread[t].me
               old == thread[t].from
               new == player[s].at
           IN  /\ Types' /\ thread[t].pc = "sync" /\ s \in Slot
               /\ GoesTo(t, "finish")
               /\ old \in Sector /\ new \in Sector /\ old # new
               /\ sector' = [sector EXCEPT ![old] = sector[old] \ {s},
                                           ![new] = sector[new] \cup {s}]
               /\ owner' = [owner EXCEPT ![old] = Nobody, ![new] = Nobody]
               /\ UNCHANGED <<sess, nextID, player, keys, loggedIn>>
  <1> DEFINE s == thread[t].me
             old == thread[t].from
             new == player[s].at
  <1>1. /\ thread[t].pc = "sync" /\ Goto(t, "finish")
        /\ owner' = [owner EXCEPT ![old] = Nobody, ![new] = Nobody]
        /\ sector' = [sector EXCEPT ![old] = @ \ {s}, ![new] = @ \cup {s}]
        /\ UNCHANGED <<sess, nextID, player, keys, loggedIn>>
    BY DEF SyncSector
  <1>2. s \in Slot /\ old \in Sector /\ new \in Sector /\ old # new
    BY <1>1, Me, Typed, Fields DEF Handling, IInv, Places, PlaceOf
  <1>3. thread' \in [Worker -> ThreadType] /\ GoesTo(t, "finish")
    BY <1>1, Typed, GotoDoes DEF Place
  <1> HIDE DEF s, old, new
  <1>4. sector' = [sector EXCEPT ![old] = sector[old] \ {s},
                                 ![new] = sector[new] \cup {s}]
    BY <1>1, <1>2, Typed
  <1>5. /\ sector' \in [Sector -> SUBSET Slot]
        /\ owner' \in [Sector \cup {KeyLock} -> Worker \cup {Nobody}]
    BY <1>1, <1>2, <1>4, Typed
  <1>6. Types'
    BY <1>1, <1>3, <1>5, Typed DEF Types
  <1> QED
    BY <1>1, <1>2, <1>3, <1>4, <1>6 DEF s, old, new

LEMMA ListensTo ==
    ASSUME IInv, NEW t \in Worker
    PROVE  Listeners(t) \subseteq Slot
  BY Typed, Fields, Neighbours DEF Listeners

LEMMA ListenDoes ==
    ASSUME IInv, NEW t \in Worker, Listen(t)
    PROVE  /\ Types' /\ thread[t].pc = "listen" /\ thread'[t].pc = "cast"
           /\ KeepsOn(t) /\ thread'[t].todo = Listeners(t)
           /\ thread'[t].who = thread[t].who
           /\ UNCHANGED <<sess, nextID, player, sector, keys, owner, loggedIn>>
  <1> DEFINE S == Listeners(t)
             r == [thread[t] EXCEPT !.todo = S, !.pc = "cast"]
  <1>1. /\ thread[t].pc = "listen"
        /\ thread' = [thread EXCEPT ![t].todo = S, ![t].pc = "cast"]
        /\ UNCHANGED <<sess, nextID, player, sector, keys, owner, loggedIn>>
    BY DEF Listen
  <1>2. S \in SUBSET (Slot \cup Sector)
    BY ListensTo
  <1>3. thread[t] \in ThreadType
    BY Typed
  <1> HIDE DEF S
  <1>4. thread' = [thread EXCEPT ![t] = r]
    BY <1>1, Typed DEF ThreadType
  <1>5. /\ r \in ThreadType /\ r.me = thread[t].me /\ r.from = thread[t].from
        /\ r.ret = thread[t].ret /\ r.todo = S /\ r.pc = "cast"
        /\ r.who = thread[t].who
    BY <1>2, <1>3 DEF ThreadType, Place
  <1> HIDE DEF r
  <1>6. /\ thread' \in [Worker -> ThreadType] /\ OtherThreads(t)
        /\ thread'[t] = r
    BY <1>4, <1>5, Typed, ThreadDoes
  <1>7. Types'
    BY <1>1, <1>6, Typed DEF Types
  <1> QED
    BY <1>1, <1>5, <1>6, <1>7 DEF KeepsOn, S

LEMMA SendingDoes ==
    ASSUME IInv, NEW t \in Worker, NEW d \in thread[t].todo, Sending(t, d)
    PROVE  /\ Types' /\ thread[t].pc = "cast" /\ thread'[t].pc = "sent"
           /\ d \in Slot /\ KeepsOn(t) /\ thread'[t].who = d
           /\ thread'[t].todo = thread[t].todo \ {d}
           /\ thread'[t].heard = thread[t].heard \cup {d}
           /\ SameSess(d) /\ sess'[d].io = sess[d].io + 1
           /\ sess'[d].recv = sess[d].recv /\ sess'[d].marked = sess[d].marked
           /\ UNCHANGED <<nextID, player, sector, keys, owner, loggedIn>>
  <1> DEFINE n == sess[d].io + 1
             q == [sess[d] EXCEPT !.io = n]
             S == thread[t].todo \ {d}
             H == thread[t].heard \cup {d}
             r == [thread[t] EXCEPT !.todo = S, !.heard = H, !.who = d,
                                    !.pc = "sent"]
  <1>1. /\ thread[t].pc = "cast"
        /\ sess' = [sess EXCEPT ![d] = q] /\ thread' = [thread EXCEPT ![t] = r]
        /\ UNCHANGED <<nextID, player, sector, keys, owner, loggedIn>>
    BY DEF Sending
  <1>2. d \in Slot
    BY <1>1, Todo DEF Casting
  <1>3. thread[t] \in ThreadType /\ sess[d] \in SessType
    BY <1>2, Typed
  <1>4. n \in Nat
    BY <1>3, Fields
  <1>5. S \in SUBSET (Slot \cup Sector) /\ H \in SUBSET Slot
    BY <1>2, <1>3, Fields
  <1>6. /\ q \in SessType /\ q.io = n /\ q.id = sess[d].id
        /\ q.released = sess[d].released /\ q.recv = sess[d].recv
        /\ q.marked = sess[d].marked
    <2> HIDE DEF n
    <2> QED
      BY <1>3, <1>4 DEF SessType
  <1>7. /\ r \in ThreadType /\ r.me = thread[t].me /\ r.from = thread[t].from
        /\ r.ret = thread[t].ret /\ r.todo = S /\ r.heard = H
        /\ r.pc = "sent" /\ r.who = d
    <2> HIDE DEF S, H
    <2> QED
      BY <1>2, <1>3, <1>5 DEF ThreadType, Place
  <1> HIDE DEF q, r
  <1>8. /\ thread' \in [Worker -> ThreadType] /\ OtherThreads(t)
        /\ thread'[t] = r
    BY <1>1, <1>7, Typed, ThreadDoes
  <1>9. sess' \in [Slot -> SessType] /\ OtherSess(d) /\ sess'[d] = q
    BY <1>1, <1>2, <1>6, Typed DEF OtherSess
  <1>10. Types'
    BY <1>1, <1>8, <1>9, Typed DEF Types
  <1> QED
    BY <1>1, <1>2, <1>6, <1>7, <1>8, <1>9, <1>10 DEF KeepsOn, SameSess

LEMMA SendEndDoes ==
    ASSUME IInv, NEW t \in Worker, SendEnd(t)
    PROVE  LET s == thread[t].who
           IN  /\ Types' /\ thread[t].pc = "sent" /\ s \in Slot
               /\ Lowers(t, s, sess[s].recv, "cast")
               /\ UNCHANGED <<nextID, player, sector, keys, owner, loggedIn>>
  <1> DEFINE s == thread[t].who
             r == sess[s]
  <1>1. /\ thread[t].pc = "sent" /\ Decrement(t, s, r, "cast")
        /\ UNCHANGED <<nextID, player, sector, keys, owner, loggedIn>>
    BY DEF SendEnd
  <1>2. s \in Slot
    BY <1>1 DEF IInv, Closers
  <1>3. r \in SessType /\ r.io \in Nat \ {0}
    BY <1>1, <1>2, Typed, Counted
  <1>4. r = [sess[s] EXCEPT !.recv = r.recv]
    BY <1>3 DEF SessType
  <1>5. /\ sess' \in [Slot -> SessType] /\ thread' \in [Worker -> ThreadType]
        /\ Lowers(t, s, r.recv, "cast")
    BY <1>1, <1>2, <1>3, <1>4, Typed, LowersDoes
  <1>6. Types'
    BY <1>1, <1>5, Typed DEF Types
  <1> QED
    BY <1>1, <1>2, <1>5, <1>6

LEMMA UnlockAllDoes ==
    ASSUME IInv, NEW t \in Worker, UnlockAll(t)
    PROVE  /\ Types' /\ thread[t].pc = "cast" /\ GoesTo(t, "finish")
           /\ \A l \in Sector \cup {KeyLock} :
                 owner'[l] = IF l \in Around(thread[t].from)
                             THEN Nobody ELSE owner[l]
           /\ UNCHANGED <<sess, nextID, player, sector, keys, loggedIn>>
  <1>1. /\ thread[t].pc = "cast" /\ Goto(t, "finish")
        /\ owner' = [l \in DOMAIN owner |->
                       IF l \in Around(thread[t].from)
                       THEN Nobody ELSE owner[l]]
        /\ UNCHANGED <<sess, nextID, player, sector, keys, loggedIn>>
    BY DEF UnlockAll
  <1>2. thread' \in [Worker -> ThreadType] /\ GoesTo(t, "finish")
    BY <1>1, Typed, GotoDoes DEF Place
  <1>3. /\ owner' \in [Sector \cup {KeyLock} -> Worker \cup {Nobody}]
        /\ \A l \in Sector \cup {KeyLock} :
              owner'[l] = IF l \in Around(thread[t].from)
                          THEN Nobody ELSE owner[l]
    BY <1>1, Typed
  <1>4. Types'
    BY <1>1, <1>2, <1>3, Typed DEF Types
  <1> QED
    BY <1>1, <1>2, <1>3, <1>4

(* Back to where the thread was when it gave the last count back.           *)
GoesBack(t) ==
    /\ OtherThreads(t)
    /\ IF thread[t].ret = "idle" THEN GoesIdle(t) ELSE GoesTo(t, "cast")

LEMMA BackDoes ==
    ASSUME IInv, NEW t \in Worker, Goto(t, thread[t].ret)
    PROVE  thread' \in [Worker -> ThreadType] /\ GoesBack(t)
  <1>1. thread[t].ret \in {"idle", "cast"}
    BY Typed, Fields
  <1>2. CASE thread[t].ret = "idle"
    <2>1. thread' = [thread EXCEPT ![t] = Idle]
      BY <1>2 DEF Goto, On
    <2> QED
      BY <1>2, <2>1, Typed, GotoIdleDoes DEF GoesBack, GoesIdle
  <1>3. CASE thread[t].ret = "cast"
    <2>1. Goto(t, "cast")
      BY <1>3
    <2>2. thread' \in [Worker -> ThreadType] /\ GoesTo(t, "cast")
      BY <2>1, Typed, GotoDoes DEF Place
    <2> QED
      BY <1>3, <2>2 DEF GoesBack, GoesTo
  <1> QED
    BY <1>1, <1>2, <1>3

LEMMA OnDisConnectDoes ==
    ASSUME IInv, NEW t \in Worker, OnDisConnect(t)
    PROVE  LET s == thread[t].who
           IN  /\ Types' /\ thread[t].pc = "ondisconnect" /\ s \in Slot
               /\ loggedIn' = IF player[s].status = "SESSION"
                              THEN loggedIn ELSE loggedIn - 1
               /\ \/ player[s].status # "PLAYER" /\ Erases(s) /\ GoesBack(t)
                  \/ /\ player[s].status = "PLAYER" /\ GoesTo(t, "leavesector")
                     /\ UNCHANGED <<player, sess>>
               /\ UNCHANGED <<nextID, sector, keys, owner>>
  <1> DEFINE s == thread[t].who
  <1>1. /\ thread[t].pc = "ondisconnect"
        /\ loggedIn' = IF player[s].status = "SESSION"
                       THEN loggedIn ELSE loggedIn - 1
        /\ UNCHANGED <<nextID, sector, keys, owner>>
    BY DEF OnDisConnect
  <1>2. s \in Slot
    BY <1>1, Who DEF Closing
  <1>3. loggedIn' \in Int
    BY <1>1, Typed
  <1>4. CASE player[s].status # "PLAYER"
    <2>1. Freed(s) /\ Goto(t, thread[t].ret)
      BY <1>4 DEF OnDisConnect
    <2>2. /\ player' \in [Slot -> PlayerType] /\ sess' \in [Slot -> SessType]
          /\ Erases(s)
      BY <1>2, <2>1, Typed, FreedDoes
    <2>3. thread' \in [Worker -> ThreadType] /\ GoesBack(t)
      BY <2>1, BackDoes
    <2>4. Types'
      BY <1>1, <1>3, <2>2, <2>3, Typed DEF Types
    <2> QED
      BY <1>1, <1>2, <1>4, <2>2, <2>3, <2>4
  <1>5. CASE player[s].status = "PLAYER"
    <2>1. Goto(t, "leavesector") /\ UNCHANGED <<player, sess>>
      BY <1>5 DEF OnDisConnect
    <2>2. thread' \in [Worker -> ThreadType] /\ GoesTo(t, "leavesector")
      BY <2>1, Typed, GotoDoes DEF Place
    <2>3. Types'
      BY <1>1, <1>3, <2>1, <2>2, Typed DEF Types
    <2> QED
      BY <1>1, <1>2, <1>5, <2>1, <2>2, <2>3
  <1> QED
    BY <1>4, <1>5

LEMMA LeaveSectorDoes ==
    ASSUME IInv, NEW t \in Worker, LeaveSector(t)
    PROVE  LET s == thread[t].who
               p == player[s].at
           IN  /\ Types' /\ thread[t].pc = "leavesector" /\ s \in Slot
               /\ GoesTo(t, "deletekey") /\ p \in Sector /\ CanLock(t, p)
               /\ sector' = [sector EXCEPT ![p] = sector[p] \ {s}]
               /\ UNCHANGED <<sess, nextID, player, keys, owner, loggedIn>>
  <1> DEFINE s == thread[t].who
             p == player[s].at
  <1>1. /\ thread[t].pc = "leavesector" /\ Goto(t, "deletekey")
        /\ CanLock(t, p)
        /\ sector' = [sector EXCEPT ![p] = sector[p] \ {s}]
        /\ UNCHANGED <<sess, nextID, player, keys, owner, loggedIn>>
    BY DEF LeaveSector
  <1>2. s \in Slot /\ p \in Sector
    BY <1>1, Who, Typed, Fields DEF Closing
  <1>3. thread' \in [Worker -> ThreadType] /\ GoesTo(t, "deletekey")
    BY <1>1, Typed, GotoDoes DEF Place
  <1>4. sector' \in [Sector -> SUBSET Slot]
    BY <1>1, <1>2, Typed
  <1>5. Types'
    BY <1>1, <1>3, <1>4, Typed DEF Types
  <1> QED
    BY <1>1, <1>2, <1>3, <1>5

LEMMA DeleteIDDoes ==
    ASSUME IInv, NEW t \in Worker, DeleteID(t)
    PROVE  LET s == thread[t].who
           IN  /\ Types' /\ thread[t].pc = "deletekey" /\ s \in Slot
               /\ Erases(s) /\ GoesBack(t)
               /\ sess[s].id \in Account /\ keys'[sess[s].id] = NoID
               /\ \A a \in Account : a # sess[s].id => keys'[a] = keys[a]
               /\ UNCHANGED <<nextID, sector, owner, loggedIn>>
  <1> DEFINE s == thread[t].who
             a == player[s].account
  <1>1. /\ thread[t].pc = "deletekey" /\ keys' = [keys EXCEPT ![a] = NoID]
        /\ Freed(s) /\ Goto(t, thread[t].ret)
        /\ UNCHANGED <<nextID, sector, owner, loggedIn>>
    BY DEF DeleteID
  <1>2. s \in Slot /\ sess[s].id # 0 /\ player[s].status = "PLAYER"
    BY <1>1, Who DEF Closing, IInv, Closers
  <1>3. a = sess[s].id
    BY <1>2 DEF IInv, Sessions, SessionOf
  <1>4. a \in Account
    BY <1>2, <1>3, Typed, Fields, ChatMultiAssumption DEF Account
  <1>5. NoID \in KeyType
    BY ChatMultiAssumption DEF NoID, KeyType
  <1>6. /\ player' \in [Slot -> PlayerType] /\ sess' \in [Slot -> SessType]
        /\ Erases(s)
    BY <1>1, <1>2, Typed, FreedDoes
  <1>7. thread' \in [Worker -> ThreadType] /\ GoesBack(t)
    BY <1>1, BackDoes
  <1> HIDE DEF a
  <1>8. /\ keys' \in [Account -> KeyType] /\ keys'[a] = NoID
        /\ \A b \in Account : b # a => keys'[b] = keys[b]
    BY <1>1, <1>4, <1>5, Typed
  <1>9. Types'
    BY <1>1, <1>6, <1>7, <1>8, Typed DEF Types
  <1> QED
    BY <1>1, <1>2, <1>3, <1>4, <1>6, <1>7, <1>8, <1>9

-----------------------------------------------------------------------------
(* Every step keeps every conjunct of the invariant.                       *)
LEMMA TypesKept ==
    ASSUME ~Shared, IInv, Change
    PROVE  Types'
<1>1. ASSUME NEW s \in Slot, OnAccept(s) PROVE Types'
  BY <1>1, OnAcceptDoes

<1>2. ASSUME NEW s \in Slot, ClientLeaves(s) PROVE Types'
  BY <1>2, ClientLeavesDoes

<1>3. ASSUME NEW t \in Worker, NEW s \in Slot, TakeFailed(t, s) PROVE Types'
  BY <1>3, TakeFailedDoes

<1>4. ASSUME NEW t \in Worker, NEW s \in Slot, HandleBadMessage(t, s)
      PROVE  Types'
  BY <1>4, BadMessageDoes

<1>5. ASSUME NEW t \in Worker, NEW s \in Slot, HandleLoginMessage(t, s)
      PROVE  Types'
  BY <1>5, LoginMessageDoes

<1>6. ASSUME NEW t \in Worker, NEW s \in Slot, NEW p \in Sector,
             HandleFirstMove(t, s, p) PROVE Types'
  BY <1>6, FirstMoveDoes

<1>7. ASSUME NEW t \in Worker, NEW s \in Slot, NEW p \in Sector,
             HandleSectorMoveMessage(t, s, p) PROVE Types'
  BY <1>7, SectorMoveDoes

<1>8. ASSUME NEW t \in Worker, NEW s \in Slot, HandleChatMessage(t, s)
      PROVE  Types'
  BY <1>8, ChatMessageDoes

<1>9. ASSUME NEW t \in Worker, Finish(t) PROVE Types'
  BY <1>9, FinishDoes

<1>10. ASSUME NEW t \in Worker, Inserts(t) PROVE Types'
  BY <1>10, InsertsDoes

<1>11. ASSUME NEW t \in Worker, Login(t) PROVE Types'
  BY <1>11, LoginDoes

<1>12. ASSUME NEW t \in Worker, BadName(t) PROVE Types'
  BY <1>12, BadNameDoes

<1>13. ASSUME NEW t \in Worker, EnterSector(t) PROVE Types'
  BY <1>13, EnterSectorDoes

<1>14. ASSUME NEW t \in Worker, NEW l \in thread[t].todo, Locking(t, l)
      PROVE  Types'
  BY <1>14, LockingDoes

<1>15. ASSUME NEW t \in Worker, SyncSector(t) PROVE Types'
  BY <1>15, SyncSectorDoes

<1>16. ASSUME NEW t \in Worker, Listen(t) PROVE Types'
  BY <1>16, ListenDoes

<1>17. ASSUME NEW t \in Worker, NEW d \in thread[t].todo, Sending(t, d)
      PROVE  Types'
  BY <1>17, SendingDoes

<1>18. ASSUME NEW t \in Worker, SendEnd(t) PROVE Types'
  BY <1>18, SendEndDoes

<1>19. ASSUME NEW t \in Worker, UnlockAll(t) PROVE Types'
  BY <1>19, UnlockAllDoes

<1>20. ASSUME NEW t \in Worker, OnDisConnect(t) PROVE Types'
  BY <1>20, OnDisConnectDoes

<1>21. ASSUME NEW t \in Worker, LeaveSector(t) PROVE Types'
  BY <1>21, LeaveSectorDoes

<1>22. ASSUME NEW t \in Worker, DeleteID(t) PROVE Types'
  BY <1>22, DeleteIDDoes

<1>23. ASSUME UNCHANGED server PROVE Types'
  BY <1>23 DEF IInv, Types, server, SessType, PlayerType, KeyType, ThreadType
<1> QED
  BY <1>1, <1>2, <1>3, <1>4, <1>5, <1>6, <1>7, <1>8, <1>9, <1>10, <1>11, <1>12,
     <1>13, <1>14, <1>15, <1>16, <1>17, <1>18, <1>19, <1>20, <1>21, <1>22,
     <1>23
  DEF Change

(* A session is in one handler at a time: it was waiting for a receive.    *)
LEMMA HandlersKept ==
    ASSUME ~Shared, IInv, Change
    PROVE  Handlers'
<1>1. ASSUME NEW s \in Slot, OnAccept(s) PROVE Handlers'
  BY <1>1, OnAcceptDoes
  DEF OtherSess, OtherPlayers, IInv, Handlers, Handling, Casting, Closing
<1>2. ASSUME NEW s \in Slot, ClientLeaves(s) PROVE Handlers'
  BY <1>2, ClientLeavesDoes
  DEF SameSess, OtherSess, IInv, Handlers, Handling, Casting, Closing
<1>3. ASSUME NEW t \in Worker, NEW s \in Slot, TakeFailed(t, s) PROVE Handlers'
  BY <1>3, TakeFailedDoes
  DEF Lowers, Closes, Last, GoesIdle, GoesTo, OtherSess, OtherThreads, IInv,
      Handlers, Handling, Casting, Closing
<1>4. ASSUME NEW t \in Worker, NEW s \in Slot, HandleBadMessage(t, s)
      PROVE  Handlers'
  BY <1>4, BadMessageDoes
  DEF Takes, SameSess, OtherSess, OtherThreads, IInv, Handlers, Handling,
      Casting, Closing
<1>5. ASSUME NEW t \in Worker, NEW s \in Slot, HandleLoginMessage(t, s)
      PROVE  Handlers'
  BY <1>5, LoginMessageDoes
  DEF Takes, SameSess, OtherSess, OtherThreads, IInv, Handlers, Handling,
      Casting, Closing
<1>6. ASSUME NEW t \in Worker, NEW s \in Slot, NEW p \in Sector,
             HandleFirstMove(t, s, p) PROVE Handlers'
  BY <1>6, FirstMoveDoes
  DEF Takes, SameSess, OtherSess, OtherThreads, OtherPlayers, IInv, Handlers,
      Handling, Casting, Closing
<1>7. ASSUME NEW t \in Worker, NEW s \in Slot, NEW p \in Sector,
             HandleSectorMoveMessage(t, s, p) PROVE Handlers'
  BY <1>7, SectorMoveDoes
  DEF Takes, SameSess, OtherSess, OtherThreads, OtherPlayers, IInv, Handlers,
      Handling, Casting, Closing
<1>8. ASSUME NEW t \in Worker, NEW s \in Slot, HandleChatMessage(t, s)
      PROVE  Handlers'
  BY <1>8, ChatMessageDoes
  DEF Takes, SameSess, OtherSess, OtherThreads, IInv, Handlers, Handling,
      Casting, Closing
<1>9. ASSUME NEW t \in Worker, Finish(t) PROVE Handlers'
  BY <1>9, FinishDoes
  DEF Lowers, Closes, Last, GoesIdle, GoesTo, OtherSess, OtherThreads,
      SameSess, IInv, Handlers, Handling, Casting, Closing
<1>10. ASSUME NEW t \in Worker, Inserts(t) PROVE Handlers'
  <2>1. /\ thread[t].pc = "insert" /\ GoesTo(t, "login")
        /\ UNCHANGED <<sess, nextID, player, sector, owner, loggedIn>>
    BY <1>10, InsertsDoes
  <2> QED
    BY <2>1
    DEF IInv, Handlers, Handling, Casting, Closing, GoesTo, OtherThreads
<1>11. ASSUME NEW t \in Worker, Login(t) PROVE Handlers'
  BY <1>11, LoginDoes
  DEF GoesTo, OtherThreads, OtherPlayers, IInv, Handlers, Handling, Casting,
      Closing
<1>12. ASSUME NEW t \in Worker, BadName(t) PROVE Handlers'
  BY <1>12, BadNameDoes
  DEF GoesTo, OtherThreads, SameSess, OtherSess, IInv, Handlers, Handling,
      Casting, Closing
<1>13. ASSUME NEW t \in Worker, EnterSector(t) PROVE Handlers'
  BY <1>13, EnterSectorDoes
  DEF GoesTo, OtherThreads, IInv, Handlers, Handling, Casting, Closing
<1>14. ASSUME NEW t \in Worker, NEW l \in thread[t].todo, Locking(t, l)
      PROVE  Handlers'
  BY <1>14, LockingDoes
  DEF KeepsOn, OtherThreads, IInv, Handlers, Handling, Casting, Closing
<1>15. ASSUME NEW t \in Worker, SyncSector(t) PROVE Handlers'
  BY <1>15, SyncSectorDoes
  DEF GoesTo, OtherThreads, IInv, Handlers, Handling, Casting, Closing
<1>16. ASSUME NEW t \in Worker, Listen(t) PROVE Handlers'
  BY <1>16, ListenDoes
  DEF KeepsOn, OtherThreads, IInv, Handlers, Handling, Casting, Closing
<1>17. ASSUME NEW t \in Worker, NEW d \in thread[t].todo, Sending(t, d)
      PROVE  Handlers'
  BY <1>17, SendingDoes
  DEF KeepsOn, OtherThreads, SameSess, OtherSess, IInv, Handlers, Handling,
      Casting, Closing
<1>18. ASSUME NEW t \in Worker, SendEnd(t) PROVE Handlers'
  BY <1>18, SendEndDoes
  DEF Lowers, Closes, Last, GoesIdle, GoesTo, OtherSess, OtherThreads, IInv,
      Handlers, Handling, Casting, Closing
<1>19. ASSUME NEW t \in Worker, UnlockAll(t) PROVE Handlers'
  BY <1>19, UnlockAllDoes
  DEF GoesTo, OtherThreads, IInv, Handlers, Handling, Casting, Closing
<1>20. ASSUME NEW t \in Worker, OnDisConnect(t) PROVE Handlers'
  <2>1. Closing(t)
    BY <1>20, OnDisConnectDoes DEF Closing
  <2>2. /\ GoesBack(t) \/ GoesTo(t, "leavesector")
        /\ \A s \in Slot : s # thread[t].who => sess'[s] = sess[s]
        /\ Erases(thread[t].who) \/ sess' = sess
    BY <1>20, OnDisConnectDoes DEF Erases, OtherSess
  <2>3. \A u \in Worker : Handling(u) => thread[u].me # thread[t].who
    BY <2>1, Who, Me
  <2>r. thread[t].ret \in {"idle", "cast"}
    BY Typed, Fields
  <2>4. ASSUME NEW u \in Worker, Handling(u)'
        PROVE  Handling(u) /\ thread'[u].me = thread[u].me
    BY <2>1, <2>2, <2>r, <2>4
    DEF Handling, Casting, Closing, GoesBack, GoesTo, GoesIdle, OtherThreads
  <2> QED
    BY <2>2, <2>3, <2>4 DEF IInv, Handlers
<1>21. ASSUME NEW t \in Worker, LeaveSector(t) PROVE Handlers'
  BY <1>21, LeaveSectorDoes
  DEF GoesTo, OtherThreads, IInv, Handlers, Handling, Casting, Closing
<1>22. ASSUME NEW t \in Worker, DeleteID(t) PROVE Handlers'
  <2>1. Closing(t)
    BY <1>22, DeleteIDDoes DEF Closing
  <2>2. /\ GoesBack(t)
        /\ \A s \in Slot : s # thread[t].who => sess'[s] = sess[s]
    BY <1>22, DeleteIDDoes DEF Erases, OtherSess
  <2>3. \A u \in Worker : Handling(u) => thread[u].me # thread[t].who
    BY <2>1, Who, Me
  <2>r. thread[t].ret \in {"idle", "cast"}
    BY Typed, Fields
  <2>4. ASSUME NEW u \in Worker, Handling(u)'
        PROVE  Handling(u) /\ thread'[u].me = thread[u].me
    BY <2>1, <2>2, <2>r, <2>4
    DEF Handling, Casting, Closing, GoesBack, GoesTo, GoesIdle, OtherThreads
  <2> QED
    BY <2>2, <2>3, <2>4 DEF IInv, Handlers
<1>23. ASSUME UNCHANGED server PROVE Handlers'
  BY <1>23 DEF server, IInv, Handlers, Handling, Casting, Closing
<1> QED
  BY <1>1, <1>2, <1>3, <1>4, <1>5, <1>6, <1>7, <1>8, <1>9, <1>10, <1>11, <1>12,
     <1>13, <1>14, <1>15, <1>16, <1>17, <1>18, <1>19, <1>20, <1>21, <1>22,
     <1>23
  DEF Change

LEMMA LowersClosers ==
    ASSUME IInv, NEW t \in Worker, ~Closing(t), NEW s \in Slot, NEW recv,
           NEW ret \in {"idle", "cast"}, Lowers(t, s, recv, ret),
           UNCHANGED player, sess' \in [Slot -> SessType]
    PROVE  Closers'
  <1>1. \A r \in Slot : /\ sess'[r].id = sess[r].id
                        /\ sess[r].released => sess'[r].released
    BY DEF Lowers, OtherSess
  <1>2. CASE Last(s)
    <2>1. ~sess[s].released /\ sess'[s].released /\ sess[s].id # 0
      BY <1>2 DEF Lowers, Last, IInv, Sessions, SessionOf
    <2>2. Closes(t, s, ret)
      BY <1>2 DEF Lowers
    <2>3. \A u \in Worker : Closing(u) => thread[u].who # s
      BY <2>1 DEF IInv, Closers
    <2> QED
      BY <1>1, <2>1, <2>2, <2>3
      DEF IInv, Closers, Closing, Closes, OtherThreads
  <1>3. CASE ~Last(s)
    <2>1. /\ OtherThreads(t) /\ thread'[t].pc \in {"idle", "cast"}
      BY <1>3 DEF Lowers, GoesIdle, GoesTo
    <2> QED
      BY <1>1, <2>1 DEF IInv, Closers, Closing, OtherThreads
  <1> QED
    BY <1>2, <1>3

(* One thread closes a session: the one that gave the last count back.     *)
LEMMA ClosersKept ==
    ASSUME ~Shared, IInv, Change
    PROVE  Closers'
<1>1. ASSUME NEW s \in Slot, OnAccept(s) PROVE Closers'
  BY <1>1, OnAcceptDoes DEF OtherSess, OtherPlayers, IInv, Closers, Closing
<1>2. ASSUME NEW s \in Slot, ClientLeaves(s) PROVE Closers'
  BY <1>2, ClientLeavesDoes DEF SameSess, OtherSess, IInv, Closers, Closing
<1>3. ASSUME NEW t \in Worker, NEW s \in Slot, TakeFailed(t, s) PROVE Closers'
  <2>1. Types' /\ ~Closing(t) /\ UNCHANGED player
    BY <1>3, TakeFailedDoes DEF Closing
  <2> QED
    BY <1>3, <2>1, TakeFailedDoes, LowersClosers DEF Types
<1>4. ASSUME NEW t \in Worker, NEW s \in Slot, HandleBadMessage(t, s)
      PROVE  Closers'
  BY <1>4, BadMessageDoes
  DEF Takes, SameSess, OtherSess, OtherThreads, IInv, Closers, Closing
<1>5. ASSUME NEW t \in Worker, NEW s \in Slot, HandleLoginMessage(t, s)
      PROVE  Closers'
  BY <1>5, LoginMessageDoes
  DEF Takes, SameSess, OtherSess, OtherThreads, IInv, Closers, Closing
<1>6. ASSUME NEW t \in Worker, NEW s \in Slot, NEW p \in Sector,
             HandleFirstMove(t, s, p) PROVE Closers'
  BY <1>6, FirstMoveDoes
  DEF Takes, SameSess, OtherSess, OtherThreads, OtherPlayers, IInv, Closers,
      Closing
<1>7. ASSUME NEW t \in Worker, NEW s \in Slot, NEW p \in Sector,
             HandleSectorMoveMessage(t, s, p) PROVE Closers'
  BY <1>7, SectorMoveDoes
  DEF Takes, SameSess, OtherSess, OtherThreads, OtherPlayers, IInv, Closers,
      Closing
<1>8. ASSUME NEW t \in Worker, NEW s \in Slot, HandleChatMessage(t, s)
      PROVE  Closers'
  BY <1>8, ChatMessageDoes
  DEF Takes, SameSess, OtherSess, OtherThreads, IInv, Closers, Closing
<1>9. ASSUME NEW t \in Worker, Finish(t) PROVE Closers'
  <2>1. Types' /\ ~Closing(t) /\ thread[t].me \in Slot /\ UNCHANGED player
    BY <1>9, FinishDoes DEF Closing
  <2>2. CASE Lowers(t, thread[t].me, "none", "idle")
    BY <2>1, <2>2, LowersClosers DEF Types
  <2>3. CASE SameSess(thread[t].me) /\ GoesIdle(t)
    BY <2>1, <2>3
    DEF IInv, Closers, Closing, SameSess, OtherSess, GoesIdle, OtherThreads
  <2> QED
    BY <1>9, <2>2, <2>3, FinishDoes
<1>10. ASSUME NEW t \in Worker, Inserts(t) PROVE Closers'
  <2>1. /\ thread[t].pc = "insert" /\ GoesTo(t, "login")
        /\ UNCHANGED <<sess, nextID, player, sector, owner, loggedIn>>
    BY <1>10, InsertsDoes
  <2> QED
    BY <2>1 DEF IInv, Closers, Closing, GoesTo, OtherThreads
<1>11. ASSUME NEW t \in Worker, Login(t) PROVE Closers'
  <2>1. /\ thread[t].pc = "login" /\ GoesTo(t, "finish")
        /\ OtherPlayers(thread[t].me) /\ UNCHANGED sess
    BY <1>11, LoginDoes
  <2>2. Handling(t)
    BY <2>1 DEF Handling
  <2>3. \A u \in Worker : Closing(u) => thread[u].who # thread[t].me
    BY <2>2, Me, Who
  <2> QED
    BY <2>1, <2>3
    DEF IInv, Closers, Closing, GoesTo, OtherThreads, OtherPlayers
<1>12. ASSUME NEW t \in Worker, BadName(t) PROVE Closers'
  BY <1>12, BadNameDoes
  DEF GoesTo, OtherThreads, SameSess, OtherSess, IInv, Closers, Closing
<1>13. ASSUME NEW t \in Worker, EnterSector(t) PROVE Closers'
  BY <1>13, EnterSectorDoes DEF GoesTo, OtherThreads, IInv, Closers, Closing
<1>14. ASSUME NEW t \in Worker, NEW l \in thread[t].todo, Locking(t, l)
      PROVE  Closers'
  BY <1>14, LockingDoes DEF KeepsOn, OtherThreads, IInv, Closers, Closing
<1>15. ASSUME NEW t \in Worker, SyncSector(t) PROVE Closers'
  BY <1>15, SyncSectorDoes DEF GoesTo, OtherThreads, IInv, Closers, Closing
<1>16. ASSUME NEW t \in Worker, Listen(t) PROVE Closers'
  BY <1>16, ListenDoes DEF KeepsOn, OtherThreads, IInv, Closers, Closing
<1>17. ASSUME NEW t \in Worker, NEW d \in thread[t].todo, Sending(t, d)
      PROVE  Closers'
  BY <1>17, SendingDoes
  DEF KeepsOn, OtherThreads, SameSess, OtherSess, IInv, Closers, Closing
<1>18. ASSUME NEW t \in Worker, SendEnd(t) PROVE Closers'
  <2>1. Types' /\ ~Closing(t) /\ UNCHANGED player
    BY <1>18, SendEndDoes DEF Closing
  <2> QED
    BY <1>18, <2>1, SendEndDoes, LowersClosers DEF Types
<1>19. ASSUME NEW t \in Worker, UnlockAll(t) PROVE Closers'
  BY <1>19, UnlockAllDoes DEF GoesTo, OtherThreads, IInv, Closers, Closing
<1>20. ASSUME NEW t \in Worker, OnDisConnect(t) PROVE Closers'
  BY <1>20, OnDisConnectDoes
  DEF Erases, GoesBack, GoesIdle, GoesTo, OtherSess, OtherPlayers,
      OtherThreads, IInv, Closers, Closing
<1>21. ASSUME NEW t \in Worker, LeaveSector(t) PROVE Closers'
  BY <1>21, LeaveSectorDoes DEF GoesTo, OtherThreads, IInv, Closers, Closing
<1>22. ASSUME NEW t \in Worker, DeleteID(t) PROVE Closers'
  BY <1>22, DeleteIDDoes
  DEF Erases, GoesBack, GoesIdle, GoesTo, OtherSess, OtherPlayers,
      OtherThreads, IInv, Closers, Closing
<1>23. ASSUME UNCHANGED server PROVE Closers'
  BY <1>23 DEF server, IInv, Closers, Closing
<1> QED
  BY <1>1, <1>2, <1>3, <1>4, <1>5, <1>6, <1>7, <1>8, <1>9, <1>10, <1>11, <1>12,
     <1>13, <1>14, <1>15, <1>16, <1>17, <1>18, <1>19, <1>20, <1>21, <1>22,
     <1>23
  DEF Change

(* No handler works for a session that waits, is closed or is handled by     *)
(* another.                                                                *)
LEMMA Apart ==
    ASSUME IInv, NEW s \in Slot,
           \/ sess[s].recv # "taken" \/ sess[s].id = 0 \/ sess[s].released
    PROVE  \A u \in Worker : Handling(u) => thread[u].me # s
  BY Me

LEMMA OneHandler ==
    ASSUME IInv, NEW t \in Worker, Handling(t)
    PROVE  \A u \in Worker :
              Handling(u) /\ thread[u].me = thread[t].me => u = t
  BY DEF IInv, Handlers

(* A handler is left alone by a step of another thread.                    *)
LEMMA PlacesRest ==
    ASSUME IInv, NEW t, OtherThreads(t), t \in Worker => PlaceOf(t)',
           \A u \in Worker :
              u # t /\ Handling(u) =>
                 /\ sess'[thread[u].me].marked = sess[thread[u].me].marked
                 /\ player'[thread[u].me] = player[thread[u].me]
    PROVE  Places'
  <1> SUFFICES ASSUME NEW u \in Worker, u # t
               PROVE  PlaceOf(u)'
    BY DEF Places
  <1>1. PlaceOf(u) /\ thread'[u] = thread[u]
    BY DEF IInv, Places, OtherThreads
  <1>2. Handling(u)' = Handling(u)
    BY <1>1 DEF Handling, Casting, Closing
  <1>3. CASE Handling(u)
    BY <1>1, <1>2, <1>3 DEF PlaceOf
  <1>4. CASE ~Handling(u)
    BY <1>1, <1>2, <1>4 DEF PlaceOf, Handling
  <1> QED
    BY <1>3, <1>4

(* A handler's player is in the state that handler works on.               *)
LEMMA PlacesKept ==
    ASSUME ~Shared, IInv, Change
    PROVE  Places'
<1>1. ASSUME NEW s \in Slot, OnAccept(s) PROVE Places'
  <2>1. \A u \in Worker :
           u # Nobody /\ Handling(u) =>
              /\ sess'[thread[u].me].marked = sess[thread[u].me].marked
              /\ player'[thread[u].me] = player[thread[u].me]
    BY <1>1, OnAcceptDoes, Apart, Me DEF OtherSess, OtherPlayers
  <2>3. OtherThreads(Nobody)
    BY <1>1, OnAcceptDoes DEF OtherThreads
  <2> QED
    BY <2>1, <2>3, PlacesRest, ChatMultiAssumption
<1>2. ASSUME NEW s \in Slot, ClientLeaves(s) PROVE Places'
  <2>1. \A u \in Worker :
           u # Nobody /\ Handling(u) =>
              /\ sess'[thread[u].me].marked = sess[thread[u].me].marked
              /\ player'[thread[u].me] = player[thread[u].me]
    BY <1>2, ClientLeavesDoes, Me DEF SameSess, OtherSess
  <2>3. OtherThreads(Nobody)
    BY <1>2, ClientLeavesDoes DEF OtherThreads
  <2> QED
    BY <2>1, <2>3, PlacesRest, ChatMultiAssumption
<1>3. ASSUME NEW t \in Worker, NEW s \in Slot, TakeFailed(t, s) PROVE Places'
  <2>1. \A u \in Worker :
           u # t /\ Handling(u) =>
              /\ sess'[thread[u].me].marked = sess[thread[u].me].marked
              /\ player'[thread[u].me] = player[thread[u].me]
    BY <1>3, TakeFailedDoes, Me DEF Lowers, OtherSess
  <2>2. PlaceOf(t)'
    BY <1>3, TakeFailedDoes
    DEF Lowers, Closes, GoesIdle, GoesTo, PlaceOf, Handling, Casting, Closing
  <2>3. OtherThreads(t)
    BY <1>3, TakeFailedDoes DEF Lowers, Closes, GoesIdle, GoesTo, OtherThreads
  <2> QED
    BY <2>1, <2>2, <2>3, PlacesRest
<1>4. ASSUME NEW t \in Worker, NEW s \in Slot, HandleBadMessage(t, s)
      PROVE  Places'
  <2>1. \A u \in Worker :
           u # t /\ Handling(u) =>
              /\ sess'[thread[u].me].marked = sess[thread[u].me].marked
              /\ player'[thread[u].me] = player[thread[u].me]
    BY <1>4, BadMessageDoes, Apart, Me
    DEF Takes, SameSess, OtherSess, OtherPlayers
  <2>2. PlaceOf(t)'
    BY <1>4, BadMessageDoes
    DEF Takes, SameSess, IInv, Sessions, SessionOf, PlaceOf, Handling, Casting,
        Closing
  <2>3. OtherThreads(t)
    BY <1>4, BadMessageDoes DEF Takes
  <2> QED
    BY <2>1, <2>2, <2>3, PlacesRest
<1>5. ASSUME NEW t \in Worker, NEW s \in Slot, HandleLoginMessage(t, s)
      PROVE  Places'
  <2>1. \A u \in Worker :
           u # t /\ Handling(u) =>
              /\ sess'[thread[u].me].marked = sess[thread[u].me].marked
              /\ player'[thread[u].me] = player[thread[u].me]
    BY <1>5, LoginMessageDoes, Apart, Me
    DEF Takes, SameSess, OtherSess, OtherPlayers
  <2>2. PlaceOf(t)'
    BY <1>5, LoginMessageDoes
    DEF Takes, SameSess, IInv, Sessions, SessionOf, PlaceOf, Handling, Casting,
        Closing
  <2>3. OtherThreads(t)
    BY <1>5, LoginMessageDoes DEF Takes
  <2> QED
    BY <2>1, <2>2, <2>3, PlacesRest
<1>6. ASSUME NEW t \in Worker, NEW s \in Slot, NEW p \in Sector,
             HandleFirstMove(t, s, p) PROVE Places'
  <2>1. \A u \in Worker :
           u # t /\ Handling(u) =>
              /\ sess'[thread[u].me].marked = sess[thread[u].me].marked
              /\ player'[thread[u].me] = player[thread[u].me]
    BY <1>6, FirstMoveDoes, Apart, Me
    DEF Takes, SameSess, OtherSess, OtherPlayers
  <2>2. PlaceOf(t)'
    BY <1>6, FirstMoveDoes
    DEF Takes, SameSess, IInv, Sessions, SessionOf, PlaceOf, Handling, Casting,
        Closing
  <2>3. OtherThreads(t)
    BY <1>6, FirstMoveDoes DEF Takes
  <2> QED
    BY <2>1, <2>2, <2>3, PlacesRest
<1>7. ASSUME NEW t \in Worker, NEW s \in Slot, NEW p \in Sector,
             HandleSectorMoveMessage(t, s, p) PROVE Places'
  <2>1. \A u \in Worker :
           u # t /\ Handling(u) =>
              /\ sess'[thread[u].me].marked = sess[thread[u].me].marked
              /\ player'[thread[u].me] = player[thread[u].me]
    BY <1>7, SectorMoveDoes, Apart, Me
    DEF Takes, SameSess, OtherSess, OtherPlayers
  <2>2. PlaceOf(t)'
    BY <1>7, SectorMoveDoes
    DEF Takes, SameSess, IInv, Sessions, SessionOf, PlaceOf, Handling, Casting,
        Closing
  <2>3. OtherThreads(t)
    BY <1>7, SectorMoveDoes DEF Takes
  <2> QED
    BY <2>1, <2>2, <2>3, PlacesRest
<1>8. ASSUME NEW t \in Worker, NEW s \in Slot, HandleChatMessage(t, s)
      PROVE  Places'
  <2>1. \A u \in Worker :
           u # t /\ Handling(u) =>
              /\ sess'[thread[u].me].marked = sess[thread[u].me].marked
              /\ player'[thread[u].me] = player[thread[u].me]
    BY <1>8, ChatMessageDoes, Apart, Me DEF Takes, SameSess, OtherSess
  <2>2. PlaceOf(t)'
    BY <1>8, ChatMessageDoes, Typed, Fields, Neighbours
    DEF Takes, SameSess, IInv, Sessions, SessionOf, PlaceOf, Handling, Casting,
        Closing
  <2>3. OtherThreads(t)
    BY <1>8, ChatMessageDoes DEF Takes
  <2> QED
    BY <2>1, <2>2, <2>3, PlacesRest
<1>9. ASSUME NEW t \in Worker, Finish(t) PROVE Places'
  <2>1. \A u \in Worker :
           u # t /\ Handling(u) =>
              /\ sess'[thread[u].me].marked = sess[thread[u].me].marked
              /\ player'[thread[u].me] = player[thread[u].me]
    BY <1>9, FinishDoes, Me, OneHandler
    DEF Handling, Lowers, SameSess, OtherSess
  <2>2. PlaceOf(t)'
    BY <1>9, FinishDoes
    DEF Lowers, Closes, GoesIdle, GoesTo, PlaceOf, Handling, Casting, Closing
  <2>3. OtherThreads(t)
    BY <1>9, FinishDoes DEF Lowers, Closes, GoesIdle, GoesTo, OtherThreads
  <2> QED
    BY <2>1, <2>2, <2>3, PlacesRest
<1>10. ASSUME NEW t \in Worker, Inserts(t) PROVE Places'
  <2>1. \A u \in Worker :
           u # t /\ Handling(u) =>
              /\ sess'[thread[u].me].marked = sess[thread[u].me].marked
              /\ player'[thread[u].me] = player[thread[u].me]
    BY <1>10, InsertsDoes
  <2>2. PlaceOf(t)'
    BY <1>10, InsertsDoes
    DEF GoesTo, IInv, Places, PlaceOf, Handling, Casting, Closing
  <2>3. OtherThreads(t)
    BY <1>10, InsertsDoes DEF GoesTo
  <2> QED
    BY <2>1, <2>2, <2>3, PlacesRest
<1>11. ASSUME NEW t \in Worker, Login(t) PROVE Places'
  <2>1. \A u \in Worker :
           u # t /\ Handling(u) =>
              /\ sess'[thread[u].me].marked = sess[thread[u].me].marked
              /\ player'[thread[u].me] = player[thread[u].me]
    BY <1>11, LoginDoes, OneHandler, Me DEF Handling, OtherPlayers
  <2>2. PlaceOf(t)'
    BY <1>11, LoginDoes DEF GoesTo, PlaceOf, Handling, Casting, Closing
  <2>3. OtherThreads(t)
    BY <1>11, LoginDoes DEF GoesTo
  <2> QED
    BY <2>1, <2>2, <2>3, PlacesRest
<1>12. ASSUME NEW t \in Worker, BadName(t) PROVE Places'
  <2>1. \A u \in Worker :
           u # t /\ Handling(u) =>
              /\ sess'[thread[u].me].marked = sess[thread[u].me].marked
              /\ player'[thread[u].me] = player[thread[u].me]
    BY <1>12, BadNameDoes, OneHandler, Me DEF Handling, SameSess, OtherSess
  <2>2. PlaceOf(t)'
    BY <1>12, BadNameDoes DEF GoesTo, PlaceOf, Handling, Casting, Closing
  <2>3. OtherThreads(t)
    BY <1>12, BadNameDoes DEF GoesTo
  <2> QED
    BY <2>1, <2>2, <2>3, PlacesRest
<1>13. ASSUME NEW t \in Worker, EnterSector(t) PROVE Places'
  <2>1. \A u \in Worker :
           u # t /\ Handling(u) =>
              /\ sess'[thread[u].me].marked = sess[thread[u].me].marked
              /\ player'[thread[u].me] = player[thread[u].me]
    BY <1>13, EnterSectorDoes
  <2>2. PlaceOf(t)'
    BY <1>13, EnterSectorDoes
    DEF GoesTo, IInv, Places, PlaceOf, Handling, Casting, Closing
  <2>3. OtherThreads(t)
    BY <1>13, EnterSectorDoes DEF GoesTo
  <2> QED
    BY <2>1, <2>2, <2>3, PlacesRest
<1>14. ASSUME NEW t \in Worker, NEW l \in thread[t].todo, Locking(t, l)
      PROVE  Places'
  <2>1. \A u \in Worker :
           u # t /\ Handling(u) =>
              /\ sess'[thread[u].me].marked = sess[thread[u].me].marked
              /\ player'[thread[u].me] = player[thread[u].me]
    BY <1>14, LockingDoes
  <2>2. PlaceOf(t)'
    BY <1>14, LockingDoes
    DEF KeepsOn, IInv, Places, PlaceOf, Handling, Casting, Closing
  <2>3. OtherThreads(t)
    BY <1>14, LockingDoes DEF KeepsOn
  <2> QED
    BY <2>1, <2>2, <2>3, PlacesRest
<1>15. ASSUME NEW t \in Worker, SyncSector(t) PROVE Places'
  <2>1. \A u \in Worker :
           u # t /\ Handling(u) =>
              /\ sess'[thread[u].me].marked = sess[thread[u].me].marked
              /\ player'[thread[u].me] = player[thread[u].me]
    BY <1>15, SyncSectorDoes
  <2>2. PlaceOf(t)'
    BY <1>15, SyncSectorDoes
    DEF GoesTo, IInv, Places, PlaceOf, Handling, Casting, Closing
  <2>3. OtherThreads(t)
    BY <1>15, SyncSectorDoes DEF GoesTo
  <2> QED
    BY <2>1, <2>2, <2>3, PlacesRest
<1>16. ASSUME NEW t \in Worker, Listen(t) PROVE Places'
  <2>1. \A u \in Worker :
           u # t /\ Handling(u) =>
              /\ sess'[thread[u].me].marked = sess[thread[u].me].marked
              /\ player'[thread[u].me] = player[thread[u].me]
    BY <1>16, ListenDoes
  <2>2. PlaceOf(t)'
    BY <1>16, ListenDoes
    DEF KeepsOn, IInv, Places, PlaceOf, Handling, Casting, Closing
  <2>3. OtherThreads(t)
    BY <1>16, ListenDoes DEF KeepsOn
  <2> QED
    BY <2>1, <2>2, <2>3, PlacesRest
<1>17. ASSUME NEW t \in Worker, NEW d \in thread[t].todo, Sending(t, d)
      PROVE  Places'
  <2>1. \A u \in Worker :
           u # t /\ Handling(u) =>
              /\ sess'[thread[u].me].marked = sess[thread[u].me].marked
              /\ player'[thread[u].me] = player[thread[u].me]
    BY <1>17, SendingDoes, Me DEF SameSess, OtherSess
  <2>2. PlaceOf(t)'
    BY <1>17, SendingDoes, Me
    DEF KeepsOn, SameSess, OtherSess, IInv, Places, PlaceOf, Handling, Casting,
        Closing
  <2>3. OtherThreads(t)
    BY <1>17, SendingDoes DEF KeepsOn
  <2> QED
    BY <2>1, <2>2, <2>3, PlacesRest
<1>18. ASSUME NEW t \in Worker, SendEnd(t) PROVE Places'
  <2>1. \A u \in Worker :
           u # t /\ Handling(u) =>
              /\ sess'[thread[u].me].marked = sess[thread[u].me].marked
              /\ player'[thread[u].me] = player[thread[u].me]
    BY <1>18, SendEndDoes, Me DEF Lowers, OtherSess
  <2>2. PlaceOf(t)'
    BY <1>18, SendEndDoes, Me
    DEF Lowers, Closes, GoesIdle, GoesTo, OtherSess, IInv, Places, PlaceOf,
        Handling, Casting, Closing
  <2>3. OtherThreads(t)
    BY <1>18, SendEndDoes DEF Lowers, Closes, GoesIdle, GoesTo, OtherThreads
  <2> QED
    BY <2>1, <2>2, <2>3, PlacesRest
<1>19. ASSUME NEW t \in Worker, UnlockAll(t) PROVE Places'
  <2>1. \A u \in Worker :
           u # t /\ Handling(u) =>
              /\ sess'[thread[u].me].marked = sess[thread[u].me].marked
              /\ player'[thread[u].me] = player[thread[u].me]
    BY <1>19, UnlockAllDoes
  <2>2. PlaceOf(t)'
    BY <1>19, UnlockAllDoes
    DEF GoesTo, IInv, Places, PlaceOf, Handling, Casting, Closing
  <2>3. OtherThreads(t)
    BY <1>19, UnlockAllDoes DEF GoesTo
  <2> QED
    BY <2>1, <2>2, <2>3, PlacesRest
<1>20. ASSUME NEW t \in Worker, OnDisConnect(t) PROVE Places'
  <2>1. \A u \in Worker :
           u # t /\ Handling(u) =>
              /\ sess'[thread[u].me].marked = sess[thread[u].me].marked
              /\ player'[thread[u].me] = player[thread[u].me]
    BY <1>20, OnDisConnectDoes, Who, Apart, Me
    DEF Closing, Erases, OtherSess, OtherPlayers
  <2>2. PlaceOf(t)'
    BY <1>20, OnDisConnectDoes, Who, Apart, Me, Typed, Fields
    DEF GoesBack, GoesIdle, GoesTo, Erases, OtherSess, OtherPlayers, IInv,
        Places, PlaceOf, Handling, Casting, Closing
  <2>3. OtherThreads(t)
    BY <1>20, OnDisConnectDoes DEF GoesBack, GoesIdle, GoesTo
  <2> QED
    BY <2>1, <2>2, <2>3, PlacesRest
<1>21. ASSUME NEW t \in Worker, LeaveSector(t) PROVE Places'
  <2>1. \A u \in Worker :
           u # t /\ Handling(u) =>
              /\ sess'[thread[u].me].marked = sess[thread[u].me].marked
              /\ player'[thread[u].me] = player[thread[u].me]
    BY <1>21, LeaveSectorDoes
  <2>2. PlaceOf(t)'
    BY <1>21, LeaveSectorDoes
    DEF GoesTo, IInv, Places, PlaceOf, Handling, Casting, Closing
  <2>3. OtherThreads(t)
    BY <1>21, LeaveSectorDoes DEF GoesTo
  <2> QED
    BY <2>1, <2>2, <2>3, PlacesRest
<1>22. ASSUME NEW t \in Worker, DeleteID(t) PROVE Places'
  <2>1. \A u \in Worker :
           u # t /\ Handling(u) =>
              /\ sess'[thread[u].me].marked = sess[thread[u].me].marked
              /\ player'[thread[u].me] = player[thread[u].me]
    BY <1>22, DeleteIDDoes, Who, Apart, Me
    DEF Closing, Erases, OtherSess, OtherPlayers
  <2>2. PlaceOf(t)'
    BY <1>22, DeleteIDDoes, Who, Apart, Me, Typed, Fields
    DEF GoesBack, GoesIdle, GoesTo, Erases, OtherSess, OtherPlayers, IInv,
        Places, PlaceOf, Handling, Casting, Closing
  <2>3. OtherThreads(t)
    BY <1>22, DeleteIDDoes DEF GoesBack, GoesIdle, GoesTo
  <2> QED
    BY <2>1, <2>2, <2>3, PlacesRest
<1>23. ASSUME UNCHANGED server PROVE Places'
  BY <1>23 DEF IInv, Places, PlaceOf, Handling, Casting, Closing, server
<1> QED
  BY <1>1, <1>2, <1>3, <1>4, <1>5, <1>6, <1>7, <1>8, <1>9, <1>10, <1>11, <1>12,
     <1>13, <1>14, <1>15, <1>16, <1>17, <1>18, <1>19, <1>20, <1>21, <1>22,
     <1>23
  DEF Change

(* A step touches one session, and gives it no ID but a new one.           *)
LEMMA SessionsRest ==
    ASSUME IInv, NEW s \in Slot, OtherSess(s), OtherPlayers(s),
           nextID' \in {nextID, nextID + 1}, SessionOf(s)',
           \/ sess'[s].id \in {0, sess[s].id}
           \/ sess'[s].id = nextID
    PROVE  Sessions'
  <1>1. /\ nextID \in Nat /\ nextID' \in Nat /\ nextID <= nextID'
        /\ \A r \in Slot : sess[r].id \in Nat
    BY ChatMultiAssumption, Typed, Fields
  <1>2. \A r \in Slot : SessionOf(r)
    BY DEF IInv, Sessions
  <1>3. ASSUME NEW r \in Slot, r # s PROVE SessionOf(r)'
    <2>1. sess'[r] = sess[r] /\ player'[r] = player[r]
      BY <1>3 DEF OtherSess, OtherPlayers
    <2>2. sess[r].id < nextID'
      BY <1>1, <1>2 DEF SessionOf
    <2> QED
      BY <1>2, <2>1, <2>2 DEF SessionOf
  <1>4. \A r, q \in Slot :
           sess'[r].id = sess'[q].id /\ sess'[q].id # 0 => r = q
    BY <1>1, <1>2 DEF IInv, Sessions, SessionOf, OtherSess
  <1> QED
    BY <1>3, <1>4 DEF Sessions

(* The last count is a send's only when there is no receive.               *)
LEMMA LastSent ==
    ASSUME IInv, NEW t \in Worker, thread[t].pc = "sent",
           Last(thread[t].who)
    PROVE  sess[thread[t].who].recv = "none"
  <1> DEFINE s == thread[t].who
  <1>1. s \in Slot
    BY DEF IInv, Closers
  <1>2. Senders(s) \subseteq Worker /\ IsFiniteSet(Senders(s))
    BY ChatMultiAssumption, FS_Subset DEF Senders
  <1>3. Senders(s) # {}
    BY DEF Senders
  <1>4. Cardinality(Senders(s)) \in Nat /\ Cardinality(Senders(s)) # 0
    BY <1>2, <1>3, FS_CardinalityType, FS_EmptySet
  <1> QED
    BY <1>1, <1>4 DEF IInv, Counts, Last

(* A closed session has no receive, and no two have the same ID.           *)
LEMMA SessionsKept ==
    ASSUME ~Shared, IInv, Change
    PROVE  Sessions'
<1>1. ASSUME NEW s \in Slot, OnAccept(s) PROVE Sessions'
  <2>1. s \in Slot /\ OtherSess(s) /\ OtherPlayers(s)
    BY <1>1, OnAcceptDoes
    DEF SameSess, OtherSess, OtherPlayers, Takes, Lowers, Erases
  <2>2. SessionOf(s)
    BY <2>1 DEF IInv, Sessions
  <2>3. SessionOf(s)'
    BY <1>1, <2>2, OnAcceptDoes, ChatMultiAssumption, Typed DEF SessionOf
  <2> QED
    BY <1>1, <2>1, <2>3, SessionsRest, OnAcceptDoes
    DEF SameSess, Takes, Lowers, Erases
<1>2. ASSUME NEW s \in Slot, ClientLeaves(s) PROVE Sessions'
  <2>1. s \in Slot /\ OtherSess(s) /\ OtherPlayers(s)
    BY <1>2, ClientLeavesDoes
    DEF SameSess, OtherSess, OtherPlayers, Takes, Lowers, Erases
  <2>2. SessionOf(s)
    BY <2>1 DEF IInv, Sessions
  <2>3. SessionOf(s)'
    BY <1>2, <2>2, ClientLeavesDoes, Typed, Fields DEF SessionOf, SameSess
  <2> QED
    BY <1>2, <2>1, <2>3, SessionsRest, ClientLeavesDoes
    DEF SameSess, Takes, Lowers, Erases
<1>3. ASSUME NEW t \in Worker, NEW s \in Slot, TakeFailed(t, s) PROVE Sessions'
  <2>1. s \in Slot /\ OtherSess(s) /\ OtherPlayers(s)
    BY <1>3, TakeFailedDoes
    DEF SameSess, OtherSess, OtherPlayers, Takes, Lowers, Erases
  <2>2. SessionOf(s)
    BY <2>1 DEF IInv, Sessions
  <2>3. SessionOf(s)'
    BY <1>3, <2>2, TakeFailedDoes, Typed, Fields DEF SessionOf, Lowers
  <2> QED
    BY <1>3, <2>1, <2>3, SessionsRest, TakeFailedDoes
    DEF SameSess, Takes, Lowers, Erases
<1>4. ASSUME NEW t \in Worker, NEW s \in Slot, HandleBadMessage(t, s)
      PROVE  Sessions'
  <2>1. s \in Slot /\ OtherSess(s) /\ OtherPlayers(s)
    BY <1>4, BadMessageDoes
    DEF SameSess, OtherSess, OtherPlayers, Takes, Lowers, Erases
  <2>2. SessionOf(s)
    BY <2>1 DEF IInv, Sessions
  <2>3. SessionOf(s)'
    BY <1>4, <2>2, BadMessageDoes DEF SessionOf, Takes, SameSess
  <2> QED
    BY <1>4, <2>1, <2>3, SessionsRest, BadMessageDoes
    DEF SameSess, Takes, Lowers, Erases
<1>5. ASSUME NEW t \in Worker, NEW s \in Slot, HandleLoginMessage(t, s)
      PROVE  Sessions'
  <2>1. s \in Slot /\ OtherSess(s) /\ OtherPlayers(s)
    BY <1>5, LoginMessageDoes
    DEF SameSess, OtherSess, OtherPlayers, Takes, Lowers, Erases
  <2>2. SessionOf(s)
    BY <2>1 DEF IInv, Sessions
  <2>3. SessionOf(s)'
    BY <1>5, <2>2, LoginMessageDoes DEF SessionOf, Takes, SameSess
  <2> QED
    BY <1>5, <2>1, <2>3, SessionsRest, LoginMessageDoes
    DEF SameSess, Takes, Lowers, Erases
<1>6. ASSUME NEW t \in Worker, NEW s \in Slot, NEW p \in Sector,
             HandleFirstMove(t, s, p) PROVE Sessions'
  <2>1. s \in Slot /\ OtherSess(s) /\ OtherPlayers(s)
    BY <1>6, FirstMoveDoes
    DEF SameSess, OtherSess, OtherPlayers, Takes, Lowers, Erases
  <2>2. SessionOf(s)
    BY <2>1 DEF IInv, Sessions
  <2>3. SessionOf(s)'
    BY <1>6, <2>2, FirstMoveDoes DEF SessionOf, Takes, SameSess
  <2> QED
    BY <1>6, <2>1, <2>3, SessionsRest, FirstMoveDoes
    DEF SameSess, Takes, Lowers, Erases
<1>7. ASSUME NEW t \in Worker, NEW s \in Slot, NEW p \in Sector,
             HandleSectorMoveMessage(t, s, p) PROVE Sessions'
  <2>1. s \in Slot /\ OtherSess(s) /\ OtherPlayers(s)
    BY <1>7, SectorMoveDoes
    DEF SameSess, OtherSess, OtherPlayers, Takes, Lowers, Erases
  <2>2. SessionOf(s)
    BY <2>1 DEF IInv, Sessions
  <2>3. SessionOf(s)'
    BY <1>7, <2>2, SectorMoveDoes DEF SessionOf, Takes, SameSess
  <2> QED
    BY <1>7, <2>1, <2>3, SessionsRest, SectorMoveDoes
    DEF SameSess, Takes, Lowers, Erases
<1>8. ASSUME NEW t \in Worker, NEW s \in Slot, HandleChatMessage(t, s)
      PROVE  Sessions'
  <2>1. s \in Slot /\ OtherSess(s) /\ OtherPlayers(s)
    BY <1>8, ChatMessageDoes
    DEF SameSess, OtherSess, OtherPlayers, Takes, Lowers, Erases
  <2>2. SessionOf(s)
    BY <2>1 DEF IInv, Sessions
  <2>3. SessionOf(s)'
    BY <1>8, <2>2, ChatMessageDoes DEF SessionOf, Takes, SameSess
  <2> QED
    BY <1>8, <2>1, <2>3, SessionsRest, ChatMessageDoes
    DEF SameSess, Takes, Lowers, Erases
<1>9. ASSUME NEW t \in Worker, Finish(t) PROVE Sessions'
  <2>s. PICK s \in Slot : s = thread[t].me
    BY <1>9, FinishDoes
  <2>1. s \in Slot /\ OtherSess(s) /\ OtherPlayers(s)
    BY <1>9, FinishDoes, <2>s
    DEF SameSess, OtherSess, OtherPlayers, Takes, Lowers, Erases
  <2>2. SessionOf(s)
    BY <2>1 DEF IInv, Sessions
  <2>3. SessionOf(s)'
    BY <1>9, <2>2, FinishDoes, <2>s, Typed, Fields
    DEF SessionOf, Lowers, SameSess
  <2> QED
    BY <1>9, <2>1, <2>3, SessionsRest, FinishDoes, <2>s
    DEF SameSess, Takes, Lowers, Erases
<1>10. ASSUME NEW t \in Worker, Inserts(t) PROVE Sessions'
  <2>1. UNCHANGED <<sess, nextID, player>>
    BY <1>10, InsertsDoes
  <2> QED
    BY <2>1 DEF IInv, Sessions, SessionOf
<1>11. ASSUME NEW t \in Worker, Login(t) PROVE Sessions'
  <2>s. PICK s \in Slot : s = thread[t].me
    BY <1>11, LoginDoes
  <2>1. s \in Slot /\ OtherSess(s) /\ OtherPlayers(s)
    BY <1>11, LoginDoes, <2>s
    DEF SameSess, OtherSess, OtherPlayers, Takes, Lowers, Erases
  <2>2. SessionOf(s)
    BY <2>1 DEF IInv, Sessions
  <2>3. SessionOf(s)'
    BY <1>11, <2>2, LoginDoes, <2>s, Me DEF SessionOf, Handling
  <2> QED
    BY <1>11, <2>1, <2>3, SessionsRest, LoginDoes, <2>s
    DEF SameSess, Takes, Lowers, Erases
<1>12. ASSUME NEW t \in Worker, BadName(t) PROVE Sessions'
  <2>s. PICK s \in Slot : s = thread[t].me
    BY <1>12, BadNameDoes
  <2>1. s \in Slot /\ OtherSess(s) /\ OtherPlayers(s)
    BY <1>12, BadNameDoes, <2>s
    DEF SameSess, OtherSess, OtherPlayers, Takes, Lowers, Erases
  <2>2. SessionOf(s)
    BY <2>1 DEF IInv, Sessions
  <2>3. SessionOf(s)'
    BY <1>12, <2>2, BadNameDoes, <2>s, Me DEF SessionOf, SameSess, Handling
  <2> QED
    BY <1>12, <2>1, <2>3, SessionsRest, BadNameDoes, <2>s
    DEF SameSess, Takes, Lowers, Erases
<1>13. ASSUME NEW t \in Worker, EnterSector(t) PROVE Sessions'
  BY <1>13, EnterSectorDoes DEF IInv, Sessions, SessionOf
<1>14. ASSUME NEW t \in Worker, NEW l \in thread[t].todo, Locking(t, l)
      PROVE  Sessions'
  BY <1>14, LockingDoes DEF IInv, Sessions, SessionOf
<1>15. ASSUME NEW t \in Worker, SyncSector(t) PROVE Sessions'
  BY <1>15, SyncSectorDoes DEF IInv, Sessions, SessionOf
<1>16. ASSUME NEW t \in Worker, Listen(t) PROVE Sessions'
  BY <1>16, ListenDoes DEF IInv, Sessions, SessionOf
<1>17. ASSUME NEW t \in Worker, NEW d \in thread[t].todo, Sending(t, d)
      PROVE  Sessions'
  <2>1. d \in Slot /\ OtherSess(d) /\ OtherPlayers(d)
    BY <1>17, SendingDoes
    DEF SameSess, OtherSess, OtherPlayers, Takes, Lowers, Erases
  <2>2. SessionOf(d)
    BY <2>1 DEF IInv, Sessions
  <2>3. SessionOf(d)'
    BY <1>17, <2>2, SendingDoes DEF SessionOf, SameSess
  <2> QED
    BY <1>17, <2>1, <2>3, SessionsRest, SendingDoes
    DEF SameSess, Takes, Lowers, Erases
<1>18. ASSUME NEW t \in Worker, SendEnd(t) PROVE Sessions'
  <2>0. Last(thread[t].who) => sess[thread[t].who].recv = "none"
    BY <1>18, SendEndDoes, LastSent
  <2>s. PICK s \in Slot : s = thread[t].who
    BY <1>18, SendEndDoes
  <2>1. s \in Slot /\ OtherSess(s) /\ OtherPlayers(s)
    BY <1>18, SendEndDoes, <2>s
    DEF SameSess, OtherSess, OtherPlayers, Takes, Lowers, Erases
  <2>2. SessionOf(s)
    BY <2>1 DEF IInv, Sessions
  <2>3. SessionOf(s)'
    BY <1>18, <2>2, SendEndDoes, <2>s, <2>0 DEF SessionOf, Lowers
  <2> QED
    BY <1>18, <2>1, <2>3, SessionsRest, SendEndDoes, <2>s
    DEF SameSess, Takes, Lowers, Erases
<1>19. ASSUME NEW t \in Worker, UnlockAll(t) PROVE Sessions'
  BY <1>19, UnlockAllDoes DEF IInv, Sessions, SessionOf
<1>20. ASSUME NEW t \in Worker, OnDisConnect(t) PROVE Sessions'
  <2>s. PICK s \in Slot : s = thread[t].who
    BY <1>20, OnDisConnectDoes
  <2>1. s \in Slot /\ OtherSess(s) /\ OtherPlayers(s)
    BY <1>20, OnDisConnectDoes, <2>s
    DEF SameSess, OtherSess, OtherPlayers, Takes, Lowers, Erases
  <2>2. SessionOf(s)
    BY <2>1 DEF IInv, Sessions
  <2>3. SessionOf(s)'
    BY <1>20, <2>2, OnDisConnectDoes, <2>s, Typed DEF SessionOf, Erases
  <2> QED
    BY <1>20, <2>1, <2>3, SessionsRest, OnDisConnectDoes, <2>s
    DEF SameSess, Takes, Lowers, Erases
<1>21. ASSUME NEW t \in Worker, LeaveSector(t) PROVE Sessions'
  BY <1>21, LeaveSectorDoes DEF IInv, Sessions, SessionOf
<1>22. ASSUME NEW t \in Worker, DeleteID(t) PROVE Sessions'
  <2>s. PICK s \in Slot : s = thread[t].who
    BY <1>22, DeleteIDDoes
  <2>1. s \in Slot /\ OtherSess(s) /\ OtherPlayers(s)
    BY <1>22, DeleteIDDoes, <2>s
    DEF SameSess, OtherSess, OtherPlayers, Takes, Lowers, Erases
  <2>2. SessionOf(s)
    BY <2>1 DEF IInv, Sessions
  <2>3. SessionOf(s)'
    BY <1>22, <2>2, DeleteIDDoes, <2>s, Typed DEF SessionOf, Erases
  <2> QED
    BY <1>22, <2>1, <2>3, SessionsRest, DeleteIDDoes, <2>s
    DEF SameSess, Takes, Lowers, Erases
<1>23. ASSUME UNCHANGED server PROVE Sessions'
  BY <1>23 DEF IInv, Sessions, SessionOf, server
<1> QED
  BY <1>1, <1>2, <1>3, <1>4, <1>5, <1>6, <1>7, <1>8, <1>9, <1>10, <1>11, <1>12,
     <1>13, <1>14, <1>15, <1>16, <1>17, <1>18, <1>19, <1>20, <1>21, <1>22,
     <1>23
  DEF Change

(* A lock is kept, and the order of the locks, by all but the thread that    *)
(* takes it or gives it up.                                                *)
LEMMA LockStays ==
    ASSUME NEW u \in Worker, NEW p, thread'[u] = thread[u],
           Handling(u) => player'[thread[u].me] = player[thread[u].me]
    PROVE  HasLock(u, p)' <=> HasLock(u, p)
  <1>1. CASE Handling(u)
    BY <1>1 DEF HasLock, Casting, Closing
  <1>2. CASE ~Handling(u)
    BY <1>2 DEF HasLock, Casting, Closing, Handling
  <1> QED
    BY <1>1, <1>2

LEMMA LocksRest ==
    ASSUME IInv, NEW t, OtherThreads(t), UNCHANGED owner,
           t \in Worker => \A p \in Sector : HasLock(t, p)' <=> HasLock(t, p),
           \A u \in Worker :
              u # t /\ Handling(u) =>
                 player'[thread[u].me] = player[thread[u].me]
    PROVE  Locks'
  <1>1. ASSUME NEW u \in Worker, NEW p \in Sector
        PROVE  HasLock(u, p)' <=> HasLock(u, p)
    BY LockStays DEF OtherThreads
  <1> QED
    BY <1>1 DEF IInv, Locks

(* The locks are with the threads that are in the middle of using them.    *)
LEMMA LocksKept ==
    ASSUME ~Shared, IInv, Change
    PROVE  Locks'
<1>1. ASSUME NEW s \in Slot, OnAccept(s) PROVE Locks'
  <2>1. \A u \in Worker :
           u # Nobody /\ Handling(u) =>
              player'[thread[u].me] = player[thread[u].me]
    BY <1>1, OnAcceptDoes, Apart, Me DEF OtherPlayers
  <2>3. OtherThreads(Nobody) /\ UNCHANGED owner
    BY <1>1, OnAcceptDoes DEF OtherThreads
  <2> QED
    BY <2>1, <2>3, LocksRest, ChatMultiAssumption
<1>2. ASSUME NEW s \in Slot, ClientLeaves(s) PROVE Locks'
  <2>1. \A u \in Worker :
           u # Nobody /\ Handling(u) =>
              player'[thread[u].me] = player[thread[u].me]
    BY <1>2, ClientLeavesDoes, Me
  <2>3. OtherThreads(Nobody) /\ UNCHANGED owner
    BY <1>2, ClientLeavesDoes DEF OtherThreads
  <2> QED
    BY <2>1, <2>3, LocksRest, ChatMultiAssumption
<1>3. ASSUME NEW t \in Worker, NEW s \in Slot, TakeFailed(t, s) PROVE Locks'
  <2>1. \A u \in Worker :
           u # t /\ Handling(u) =>
              player'[thread[u].me] = player[thread[u].me]
    BY <1>3, TakeFailedDoes
  <2>2. \A q \in Sector : HasLock(t, q)' <=> HasLock(t, q)
    BY <1>3, TakeFailedDoes
    DEF Lowers, Closes, GoesIdle, HasLock, Casting, Closing
  <2>3. OtherThreads(t) /\ UNCHANGED owner
    BY <1>3, TakeFailedDoes DEF Lowers, Closes, GoesIdle, GoesTo, OtherThreads
  <2> QED
    BY <2>1, <2>2, <2>3, LocksRest
<1>4. ASSUME NEW t \in Worker, NEW s \in Slot, HandleBadMessage(t, s)
      PROVE  Locks'
  <2>1. \A u \in Worker :
           u # t /\ Handling(u) =>
              player'[thread[u].me] = player[thread[u].me]
    BY <1>4, BadMessageDoes, Apart, Me DEF Takes, OtherPlayers
  <2>2. \A q \in Sector : HasLock(t, q)' <=> HasLock(t, q)
    BY <1>4, BadMessageDoes DEF Takes, HasLock, Casting, Closing
  <2>3. OtherThreads(t) /\ UNCHANGED owner
    BY <1>4, BadMessageDoes DEF Takes
  <2> QED
    BY <2>1, <2>2, <2>3, LocksRest
<1>5. ASSUME NEW t \in Worker, NEW s \in Slot, HandleLoginMessage(t, s)
      PROVE  Locks'
  <2>1. \A u \in Worker :
           u # t /\ Handling(u) =>
              player'[thread[u].me] = player[thread[u].me]
    BY <1>5, LoginMessageDoes, Apart, Me DEF Takes, OtherPlayers
  <2>2. \A q \in Sector : HasLock(t, q)' <=> HasLock(t, q)
    BY <1>5, LoginMessageDoes DEF Takes, HasLock, Casting, Closing
  <2>3. OtherThreads(t) /\ UNCHANGED owner
    BY <1>5, LoginMessageDoes DEF Takes
  <2> QED
    BY <2>1, <2>2, <2>3, LocksRest
<1>6. ASSUME NEW t \in Worker, NEW s \in Slot, NEW p \in Sector,
             HandleFirstMove(t, s, p) PROVE Locks'
  <2>1. \A u \in Worker :
           u # t /\ Handling(u) =>
              player'[thread[u].me] = player[thread[u].me]
    BY <1>6, FirstMoveDoes, Apart, Me DEF Takes, OtherPlayers
  <2>2. \A q \in Sector : HasLock(t, q)' <=> HasLock(t, q)
    BY <1>6, FirstMoveDoes DEF Takes, HasLock, Casting, Closing
  <2>3. OtherThreads(t) /\ UNCHANGED owner
    BY <1>6, FirstMoveDoes DEF Takes
  <2> QED
    BY <2>1, <2>2, <2>3, LocksRest
<1>7. ASSUME NEW t \in Worker, NEW s \in Slot, NEW p \in Sector,
             HandleSectorMoveMessage(t, s, p) PROVE Locks'
  <2>1. \A u \in Worker :
           u # t /\ Handling(u) =>
              player'[thread[u].me] = player[thread[u].me]
    BY <1>7, SectorMoveDoes, Apart, Me DEF Takes, OtherPlayers
  <2>2. \A q \in Sector : HasLock(t, q)' <=> HasLock(t, q)
    BY <1>7, SectorMoveDoes DEF Takes, HasLock, Casting, Closing
  <2>3. OtherThreads(t) /\ UNCHANGED owner
    BY <1>7, SectorMoveDoes DEF Takes
  <2> QED
    BY <2>1, <2>2, <2>3, LocksRest
<1>8. ASSUME NEW t \in Worker, NEW s \in Slot, HandleChatMessage(t, s)
      PROVE  Locks'
  <2>1. \A u \in Worker :
           u # t /\ Handling(u) =>
              player'[thread[u].me] = player[thread[u].me]
    BY <1>8, ChatMessageDoes, Apart, Me DEF Takes, OtherPlayers
  <2>2. \A q \in Sector : HasLock(t, q)' <=> HasLock(t, q)
    BY <1>8, ChatMessageDoes DEF Takes, HasLock, Casting, Closing
  <2>3. OtherThreads(t) /\ UNCHANGED owner
    BY <1>8, ChatMessageDoes DEF Takes
  <2> QED
    BY <2>1, <2>2, <2>3, LocksRest
<1>9. ASSUME NEW t \in Worker, Finish(t) PROVE Locks'
  <2>1. \A u \in Worker :
           u # t /\ Handling(u) =>
              player'[thread[u].me] = player[thread[u].me]
    BY <1>9, FinishDoes
  <2>2. \A q \in Sector : HasLock(t, q)' <=> HasLock(t, q)
    BY <1>9, FinishDoes DEF Lowers, Closes, GoesIdle, HasLock, Casting, Closing
  <2>3. OtherThreads(t) /\ UNCHANGED owner
    BY <1>9, FinishDoes DEF Lowers, Closes, GoesIdle, GoesTo, OtherThreads
  <2> QED
    BY <2>1, <2>2, <2>3, LocksRest
<1>10. ASSUME NEW t \in Worker, Inserts(t) PROVE Locks'
  <2>1. \A u \in Worker :
           u # t /\ Handling(u) =>
              player'[thread[u].me] = player[thread[u].me]
    BY <1>10, InsertsDoes
  <2>2. \A q \in Sector : HasLock(t, q)' <=> HasLock(t, q)
    BY <1>10, InsertsDoes DEF GoesTo, HasLock, Casting, Closing
  <2>3. OtherThreads(t) /\ UNCHANGED owner
    BY <1>10, InsertsDoes DEF GoesTo
  <2> QED
    BY <2>1, <2>2, <2>3, LocksRest
<1>11. ASSUME NEW t \in Worker, Login(t) PROVE Locks'
  <2>1. \A u \in Worker :
           u # t /\ Handling(u) =>
              player'[thread[u].me] = player[thread[u].me]
    BY <1>11, LoginDoes, OneHandler, Me DEF Handling, OtherPlayers
  <2>2. \A q \in Sector : HasLock(t, q)' <=> HasLock(t, q)
    BY <1>11, LoginDoes DEF GoesTo, HasLock, Casting, Closing
  <2>3. OtherThreads(t) /\ UNCHANGED owner
    BY <1>11, LoginDoes DEF GoesTo
  <2> QED
    BY <2>1, <2>2, <2>3, LocksRest
<1>12. ASSUME NEW t \in Worker, BadName(t) PROVE Locks'
  <2>1. \A u \in Worker :
           u # t /\ Handling(u) =>
              player'[thread[u].me] = player[thread[u].me]
    BY <1>12, BadNameDoes
  <2>2. \A q \in Sector : HasLock(t, q)' <=> HasLock(t, q)
    BY <1>12, BadNameDoes DEF GoesTo, HasLock, Casting, Closing
  <2>3. OtherThreads(t) /\ UNCHANGED owner
    BY <1>12, BadNameDoes DEF GoesTo
  <2> QED
    BY <2>1, <2>2, <2>3, LocksRest
<1>13. ASSUME NEW t \in Worker, EnterSector(t) PROVE Locks'
  <2>1. \A u \in Worker :
           u # t /\ Handling(u) =>
              player'[thread[u].me] = player[thread[u].me]
    BY <1>13, EnterSectorDoes
  <2>2. \A q \in Sector : HasLock(t, q)' <=> HasLock(t, q)
    BY <1>13, EnterSectorDoes DEF GoesTo, HasLock, Casting, Closing
  <2>3. OtherThreads(t) /\ UNCHANGED owner
    BY <1>13, EnterSectorDoes DEF GoesTo
  <2> QED
    BY <2>1, <2>2, <2>3, LocksRest
<1>14. ASSUME NEW t \in Worker, NEW l \in thread[t].todo, Locking(t, l)
      PROVE  Locks'
  <2>1. /\ thread[t].pc \in {"locksync", "lockall"}
        /\ l \in Sector /\ owner[l] \in {Nobody, t}
        /\ owner' = [owner EXCEPT ![l] = t]
        /\ OtherThreads(t) /\ UNCHANGED player
    BY <1>14, LockingDoes DEF KeepsOn
  <2>2. ASSUME NEW u \in Worker, u # t, NEW p \in Sector
        PROVE  HasLock(u, p)' <=> HasLock(u, p)
    BY <2>1, <2>2, LockStays DEF OtherThreads
  <2>3. /\ thread[t].pc = "locksync" =>
              l \in {thread[t].from, player[thread[t].me].at}
        /\ thread[t].pc = "lockall" => l \in Around(thread[t].from)
    BY DEF IInv, Places, PlaceOf
  <2>4. ASSUME NEW p \in Sector
        PROVE  HasLock(t, p)' <=> HasLock(t, p) \/ p = l
    BY <1>14, <2>3, LockingDoes DEF HasLock, KeepsOn, Casting, Closing
  <2>5. owner'[KeyLock] = Nobody
    BY <2>1, KeyLockApart, Typed DEF IInv, Locks
  <2>6. \A p \in Sector : owner'[p] = IF p = l THEN t ELSE owner[p]
    BY <2>1, Typed
  <2>7. ASSUME NEW u \in Worker, NEW p \in Sector
        PROVE  owner'[p] = u <=> HasLock(u, p)'
    <3>1. owner[p] = u <=> HasLock(u, p)
      BY DEF IInv, Locks
    <3>2. CASE u = t
      BY <2>4, <2>6, <3>1, <3>2
    <3>3. CASE u # t
      BY <2>1, <2>2, <2>6, <3>1, <3>3, ChatMultiAssumption
    <3> QED
      BY <3>2, <3>3
  <2> QED
    BY <2>5, <2>7 DEF Locks
<1>15. ASSUME NEW t \in Worker, SyncSector(t) PROVE Locks'
  <2> DEFINE had == {thread[t].from, player[thread[t].me].at}
  <2>1. OtherThreads(t) /\ UNCHANGED player
    BY <1>15, SyncSectorDoes DEF GoesTo
  <2>2. ASSUME NEW u \in Worker, u # t, NEW p \in Sector
        PROVE  HasLock(u, p)' <=> HasLock(u, p)
    BY <2>1, <2>2, LockStays DEF OtherThreads
  <2>5. owner'[KeyLock] = Nobody
    BY <1>15, SyncSectorDoes, KeyLockApart, Typed DEF IInv, Locks
  <2>6. \A p \in Sector : owner'[p] = IF p \in had THEN Nobody ELSE owner[p]
    BY <1>15, SyncSectorDoes, Typed
  <2>4. ASSUME NEW p \in Sector
        PROVE  /\ HasLock(t, p) <=> p \in had
               /\ ~HasLock(t, p)'
    BY <1>15, SyncSectorDoes DEF HasLock, GoesTo, Casting, Closing
  <2>7. ASSUME NEW u \in Worker, NEW p \in Sector
        PROVE  owner'[p] = u <=> HasLock(u, p)'
    <3>1. owner[p] = u <=> HasLock(u, p)
      BY DEF IInv, Locks
    <3>3. CASE u # t
      <4>1. owner[p] = t <=> HasLock(t, p)
        BY DEF IInv, Locks
      <4> QED
        BY <2>2, <2>4, <2>6, <3>1, <3>3, <4>1, ChatMultiAssumption
    <3> QED
      BY <2>4, <2>6, <3>1, <3>3, ChatMultiAssumption
  <2> QED
    BY <2>5, <2>7 DEF Locks
<1>16. ASSUME NEW t \in Worker, Listen(t) PROVE Locks'
  <2>1. \A u \in Worker :
           u # t /\ Handling(u) =>
              player'[thread[u].me] = player[thread[u].me]
    BY <1>16, ListenDoes
  <2>2. \A q \in Sector : HasLock(t, q)' <=> HasLock(t, q)
    BY <1>16, ListenDoes DEF KeepsOn, HasLock, Casting, Closing
  <2>3. OtherThreads(t) /\ UNCHANGED owner
    BY <1>16, ListenDoes DEF KeepsOn
  <2> QED
    BY <2>1, <2>2, <2>3, LocksRest
<1>17. ASSUME NEW t \in Worker, NEW d \in thread[t].todo, Sending(t, d)
      PROVE  Locks'
  <2>1. \A u \in Worker :
           u # t /\ Handling(u) =>
              player'[thread[u].me] = player[thread[u].me]
    BY <1>17, SendingDoes
  <2>2. \A q \in Sector : HasLock(t, q)' <=> HasLock(t, q)
    BY <1>17, SendingDoes DEF KeepsOn, HasLock, Casting, Closing
  <2>3. OtherThreads(t) /\ UNCHANGED owner
    BY <1>17, SendingDoes DEF KeepsOn
  <2> QED
    BY <2>1, <2>2, <2>3, LocksRest
<1>18. ASSUME NEW t \in Worker, SendEnd(t) PROVE Locks'
  <2>1. \A u \in Worker :
           u # t /\ Handling(u) =>
              player'[thread[u].me] = player[thread[u].me]
    BY <1>18, SendEndDoes
  <2>2. \A q \in Sector : HasLock(t, q)' <=> HasLock(t, q)
    BY <1>18, SendEndDoes DEF Lowers, Closes, GoesTo, HasLock, Casting, Closing
  <2>3. OtherThreads(t) /\ UNCHANGED owner
    BY <1>18, SendEndDoes DEF Lowers, Closes, GoesIdle, GoesTo, OtherThreads
  <2> QED
    BY <2>1, <2>2, <2>3, LocksRest
<1>19. ASSUME NEW t \in Worker, UnlockAll(t) PROVE Locks'
  <2> DEFINE had == Around(thread[t].from)
  <2>1. OtherThreads(t) /\ UNCHANGED player
    BY <1>19, UnlockAllDoes DEF GoesTo
  <2>2. ASSUME NEW u \in Worker, u # t, NEW p \in Sector
        PROVE  HasLock(u, p)' <=> HasLock(u, p)
    BY <2>1, <2>2, LockStays DEF OtherThreads
  <2>5. owner'[KeyLock] = Nobody
    BY <1>19, UnlockAllDoes DEF IInv, Locks
  <2>6. \A p \in Sector : owner'[p] = IF p \in had THEN Nobody ELSE owner[p]
    BY <1>19, UnlockAllDoes
  <2>4. ASSUME NEW p \in Sector
        PROVE  /\ HasLock(t, p) <=> p \in had
               /\ ~HasLock(t, p)'
    BY <1>19, UnlockAllDoes DEF HasLock, GoesTo, Casting, Closing
  <2>7. ASSUME NEW u \in Worker, NEW p \in Sector
        PROVE  owner'[p] = u <=> HasLock(u, p)'
    <3>1. owner[p] = u <=> HasLock(u, p)
      BY DEF IInv, Locks
    <3>3. CASE u # t
      <4>1. owner[p] = t <=> HasLock(t, p)
        BY DEF IInv, Locks
      <4> QED
        BY <2>2, <2>4, <2>6, <3>1, <3>3, <4>1, ChatMultiAssumption
    <3> QED
      BY <2>4, <2>6, <3>1, <3>3, ChatMultiAssumption
  <2> QED
    BY <2>5, <2>7 DEF Locks
<1>20. ASSUME NEW t \in Worker, OnDisConnect(t) PROVE Locks'
  <2>1. \A u \in Worker :
           u # t /\ Handling(u) =>
              player'[thread[u].me] = player[thread[u].me]
    BY <1>20, OnDisConnectDoes, Who, Apart, Me
    DEF Closing, Erases, OtherPlayers
  <2>2. \A q \in Sector : HasLock(t, q)' <=> HasLock(t, q)
    BY <1>20, OnDisConnectDoes, Typed, Fields
    DEF GoesBack, GoesIdle, GoesTo, HasLock, Casting, Closing
  <2>3. OtherThreads(t) /\ UNCHANGED owner
    BY <1>20, OnDisConnectDoes DEF GoesBack, GoesIdle, GoesTo
  <2> QED
    BY <2>1, <2>2, <2>3, LocksRest
<1>21. ASSUME NEW t \in Worker, LeaveSector(t) PROVE Locks'
  <2>1. \A u \in Worker :
           u # t /\ Handling(u) =>
              player'[thread[u].me] = player[thread[u].me]
    BY <1>21, LeaveSectorDoes
  <2>2. \A q \in Sector : HasLock(t, q)' <=> HasLock(t, q)
    BY <1>21, LeaveSectorDoes DEF GoesTo, HasLock, Casting, Closing
  <2>3. OtherThreads(t) /\ UNCHANGED owner
    BY <1>21, LeaveSectorDoes DEF GoesTo
  <2> QED
    BY <2>1, <2>2, <2>3, LocksRest
<1>22. ASSUME NEW t \in Worker, DeleteID(t) PROVE Locks'
  <2>1. \A u \in Worker :
           u # t /\ Handling(u) =>
              player'[thread[u].me] = player[thread[u].me]
    BY <1>22, DeleteIDDoes, Who, Apart, Me DEF Closing, Erases, OtherPlayers
  <2>2. \A q \in Sector : HasLock(t, q)' <=> HasLock(t, q)
    BY <1>22, DeleteIDDoes, Typed, Fields
    DEF GoesBack, GoesIdle, GoesTo, HasLock, Casting, Closing
  <2>3. OtherThreads(t) /\ UNCHANGED owner
    BY <1>22, DeleteIDDoes DEF GoesBack, GoesIdle, GoesTo
  <2> QED
    BY <2>1, <2>2, <2>3, LocksRest
<1>23. ASSUME UNCHANGED server PROVE Locks'
  BY <1>23 DEF IInv, Locks, HasLock, Casting, Closing, server
<1> QED
  BY <1>1, <1>2, <1>3, <1>4, <1>5, <1>6, <1>7, <1>8, <1>9, <1>10, <1>11, <1>12,
     <1>13, <1>14, <1>15, <1>16, <1>17, <1>18, <1>19, <1>20, <1>21, <1>22,
     <1>23
  DEF Change

LEMMA InOrderRest ==
    ASSUME IInv, NEW t, OtherThreads(t),
           t \in Worker => thread'[t].pc \notin {"locksync", "lockall"},
           \A u \in Worker :
              u # t /\ Handling(u) =>
                 player'[thread[u].me] = player[thread[u].me]
    PROVE  InOrder'
  <1>1. ASSUME NEW u \in Worker, u # t, NEW p \in Sector
        PROVE  HasLock(u, p)' <=> HasLock(u, p)
    BY <1>1, LockStays DEF OtherThreads
  <1> QED
    BY <1>1 DEF IInv, InOrder, OtherThreads

(* Locks are taken in the order of the sectors.                            *)
LEMMA InOrderKept ==
    ASSUME ~Shared, IInv, Change
    PROVE  InOrder'
<1>1. ASSUME NEW s \in Slot, OnAccept(s) PROVE InOrder'
  <2>1. \A u \in Worker :
           u # Nobody /\ Handling(u) =>
              player'[thread[u].me] = player[thread[u].me]
    BY <1>1, OnAcceptDoes, Apart, Me DEF OtherPlayers
  <2>3. OtherThreads(Nobody)
    BY <1>1, OnAcceptDoes DEF OtherThreads
  <2> QED
    BY <2>1, <2>3, InOrderRest, ChatMultiAssumption
<1>2. ASSUME NEW s \in Slot, ClientLeaves(s) PROVE InOrder'
  <2>1. \A u \in Worker :
           u # Nobody /\ Handling(u) =>
              player'[thread[u].me] = player[thread[u].me]
    BY <1>2, ClientLeavesDoes, Me
  <2>3. OtherThreads(Nobody)
    BY <1>2, ClientLeavesDoes DEF OtherThreads
  <2> QED
    BY <2>1, <2>3, InOrderRest, ChatMultiAssumption
<1>3. ASSUME NEW t \in Worker, NEW s \in Slot, TakeFailed(t, s) PROVE InOrder'
  <2>1. \A u \in Worker :
           u # t /\ Handling(u) =>
              player'[thread[u].me] = player[thread[u].me]
    BY <1>3, TakeFailedDoes
  <2>2. thread'[t].pc \notin {"locksync", "lockall"}
    BY <1>3, TakeFailedDoes DEF Lowers, Closes, GoesIdle, GoesTo
  <2>3. OtherThreads(t)
    BY <1>3, TakeFailedDoes DEF Lowers, Closes, GoesIdle, GoesTo, OtherThreads
  <2> QED
    BY <2>1, <2>2, <2>3, InOrderRest
<1>4. ASSUME NEW t \in Worker, NEW s \in Slot, HandleBadMessage(t, s)
      PROVE  InOrder'
  <2>1. \A u \in Worker :
           u # t /\ Handling(u) =>
              player'[thread[u].me] = player[thread[u].me]
    BY <1>4, BadMessageDoes, Apart, Me DEF Takes, OtherPlayers
  <2>2. thread'[t].pc \notin {"locksync", "lockall"}
    BY <1>4, BadMessageDoes DEF Takes
  <2>3. OtherThreads(t)
    BY <1>4, BadMessageDoes DEF Takes
  <2> QED
    BY <2>1, <2>2, <2>3, InOrderRest
<1>5. ASSUME NEW t \in Worker, NEW s \in Slot, HandleLoginMessage(t, s)
      PROVE  InOrder'
  <2>1. \A u \in Worker :
           u # t /\ Handling(u) =>
              player'[thread[u].me] = player[thread[u].me]
    BY <1>5, LoginMessageDoes, Apart, Me DEF Takes, OtherPlayers
  <2>2. thread'[t].pc \notin {"locksync", "lockall"}
    BY <1>5, LoginMessageDoes DEF Takes
  <2>3. OtherThreads(t)
    BY <1>5, LoginMessageDoes DEF Takes
  <2> QED
    BY <2>1, <2>2, <2>3, InOrderRest
<1>6. ASSUME NEW t \in Worker, NEW s \in Slot, NEW p \in Sector,
             HandleFirstMove(t, s, p) PROVE InOrder'
  <2>1. \A u \in Worker :
           u # t /\ Handling(u) =>
              player'[thread[u].me] = player[thread[u].me]
    BY <1>6, FirstMoveDoes, Apart, Me DEF Takes, OtherPlayers
  <2>2. thread'[t].pc \notin {"locksync", "lockall"}
    BY <1>6, FirstMoveDoes DEF Takes
  <2>3. OtherThreads(t)
    BY <1>6, FirstMoveDoes DEF Takes
  <2> QED
    BY <2>1, <2>2, <2>3, InOrderRest
<1>7. ASSUME NEW t \in Worker, NEW s \in Slot, NEW p \in Sector,
             HandleSectorMoveMessage(t, s, p) PROVE InOrder'
  <2>1. \A u \in Worker : Handling(u) => thread[u].me # s
    BY <1>7, SectorMoveDoes, Apart DEF Takes
  <2>2. \A u \in Worker : u # t => thread'[u] = thread[u]
    BY <1>7, SectorMoveDoes DEF Takes, OtherThreads
  <2>3. ASSUME NEW u \in Worker, u # t, NEW q \in Sector
        PROVE  HasLock(u, q)' <=> HasLock(u, q)
    BY <1>7, SectorMoveDoes, <2>1, <2>2, <2>3, LockStays, Me DEF OtherPlayers
  <2>4. ASSUME thread'[t].pc \in {"locksync", "lockall"}, NEW q \in Sector
        PROVE  ~HasLock(t, q)'
    BY <1>7, SectorMoveDoes, <2>4 DEF Takes, HasLock, Casting, Closing
  <2> QED
    BY <2>2, <2>3, <2>4 DEF IInv, InOrder
<1>8. ASSUME NEW t \in Worker, NEW s \in Slot, HandleChatMessage(t, s)
      PROVE  InOrder'
  <2>1. \A u \in Worker : Handling(u) => thread[u].me # s
    BY <1>8, ChatMessageDoes, Apart DEF Takes
  <2>2. \A u \in Worker : u # t => thread'[u] = thread[u]
    BY <1>8, ChatMessageDoes DEF Takes, OtherThreads
  <2>3. ASSUME NEW u \in Worker, u # t, NEW q \in Sector
        PROVE  HasLock(u, q)' <=> HasLock(u, q)
    BY <1>8, ChatMessageDoes, <2>1, <2>2, <2>3, LockStays, Me DEF OtherPlayers
  <2>4. ASSUME thread'[t].pc \in {"locksync", "lockall"}, NEW q \in Sector
        PROVE  ~HasLock(t, q)'
    BY <1>8, ChatMessageDoes, <2>4 DEF Takes, HasLock, Casting, Closing
  <2> QED
    BY <2>2, <2>3, <2>4 DEF IInv, InOrder
<1>9. ASSUME NEW t \in Worker, Finish(t) PROVE InOrder'
  <2>1. \A u \in Worker :
           u # t /\ Handling(u) =>
              player'[thread[u].me] = player[thread[u].me]
    BY <1>9, FinishDoes
  <2>2. thread'[t].pc \notin {"locksync", "lockall"}
    BY <1>9, FinishDoes DEF Lowers, Closes, GoesIdle, GoesTo
  <2>3. OtherThreads(t)
    BY <1>9, FinishDoes DEF Lowers, Closes, GoesIdle, GoesTo, OtherThreads
  <2> QED
    BY <2>1, <2>2, <2>3, InOrderRest
<1>10. ASSUME NEW t \in Worker, Inserts(t) PROVE InOrder'
  <2>1. \A u \in Worker :
           u # t /\ Handling(u) =>
              player'[thread[u].me] = player[thread[u].me]
    BY <1>10, InsertsDoes
  <2>2. thread'[t].pc \notin {"locksync", "lockall"}
    BY <1>10, InsertsDoes DEF GoesTo
  <2>3. OtherThreads(t)
    BY <1>10, InsertsDoes DEF GoesTo
  <2> QED
    BY <2>1, <2>2, <2>3, InOrderRest
<1>11. ASSUME NEW t \in Worker, Login(t) PROVE InOrder'
  <2>1. \A u \in Worker :
           u # t /\ Handling(u) =>
              player'[thread[u].me] = player[thread[u].me]
    BY <1>11, LoginDoes, OneHandler, Me DEF Handling, OtherPlayers
  <2>2. thread'[t].pc \notin {"locksync", "lockall"}
    BY <1>11, LoginDoes DEF GoesTo
  <2>3. OtherThreads(t)
    BY <1>11, LoginDoes DEF GoesTo
  <2> QED
    BY <2>1, <2>2, <2>3, InOrderRest
<1>12. ASSUME NEW t \in Worker, BadName(t) PROVE InOrder'
  <2>1. \A u \in Worker :
           u # t /\ Handling(u) =>
              player'[thread[u].me] = player[thread[u].me]
    BY <1>12, BadNameDoes
  <2>2. thread'[t].pc \notin {"locksync", "lockall"}
    BY <1>12, BadNameDoes DEF GoesTo
  <2>3. OtherThreads(t)
    BY <1>12, BadNameDoes DEF GoesTo
  <2> QED
    BY <2>1, <2>2, <2>3, InOrderRest
<1>13. ASSUME NEW t \in Worker, EnterSector(t) PROVE InOrder'
  <2>1. \A u \in Worker :
           u # t /\ Handling(u) =>
              player'[thread[u].me] = player[thread[u].me]
    BY <1>13, EnterSectorDoes
  <2>2. thread'[t].pc \notin {"locksync", "lockall"}
    BY <1>13, EnterSectorDoes DEF GoesTo
  <2>3. OtherThreads(t)
    BY <1>13, EnterSectorDoes DEF GoesTo
  <2> QED
    BY <2>1, <2>2, <2>3, InOrderRest
<1>14. ASSUME NEW t \in Worker, NEW l \in thread[t].todo, Locking(t, l)
      PROVE  InOrder'
  <2>1. /\ thread[t].pc \in {"locksync", "lockall"} /\ l \in Sector
        /\ \A q \in thread[t].todo : Before(l, q)
        /\ OtherThreads(t) /\ UNCHANGED player
        /\ thread'[t].todo = thread[t].todo \ {l}
    BY <1>14, LockingDoes DEF KeepsOn
  <2>2. ASSUME NEW u \in Worker, u # t, NEW p \in Sector
        PROVE  HasLock(u, p)' <=> HasLock(u, p)
    BY <2>1, <2>2, LockStays DEF OtherThreads
  <2>4. ASSUME NEW p \in Sector, HasLock(t, p)'
        PROVE  HasLock(t, p) \/ p = l
    BY <1>14, <2>4, LockingDoes DEF HasLock, KeepsOn, Casting, Closing
  <2> QED
    BY <2>1, <2>2, <2>4 DEF IInv, InOrder, OtherThreads
<1>15. ASSUME NEW t \in Worker, SyncSector(t) PROVE InOrder'
  <2>1. \A u \in Worker :
           u # t /\ Handling(u) =>
              player'[thread[u].me] = player[thread[u].me]
    BY <1>15, SyncSectorDoes
  <2>2. thread'[t].pc \notin {"locksync", "lockall"}
    BY <1>15, SyncSectorDoes DEF GoesTo
  <2>3. OtherThreads(t)
    BY <1>15, SyncSectorDoes DEF GoesTo
  <2> QED
    BY <2>1, <2>2, <2>3, InOrderRest
<1>16. ASSUME NEW t \in Worker, Listen(t) PROVE InOrder'
  <2>1. \A u \in Worker :
           u # t /\ Handling(u) =>
              player'[thread[u].me] = player[thread[u].me]
    BY <1>16, ListenDoes
  <2>2. thread'[t].pc \notin {"locksync", "lockall"}
    BY <1>16, ListenDoes DEF KeepsOn
  <2>3. OtherThreads(t)
    BY <1>16, ListenDoes DEF KeepsOn
  <2> QED
    BY <2>1, <2>2, <2>3, InOrderRest
<1>17. ASSUME NEW t \in Worker, NEW d \in thread[t].todo, Sending(t, d)
      PROVE  InOrder'
  <2>1. \A u \in Worker :
           u # t /\ Handling(u) =>
              player'[thread[u].me] = player[thread[u].me]
    BY <1>17, SendingDoes
  <2>2. thread'[t].pc \notin {"locksync", "lockall"}
    BY <1>17, SendingDoes DEF KeepsOn
  <2>3. OtherThreads(t)
    BY <1>17, SendingDoes DEF KeepsOn
  <2> QED
    BY <2>1, <2>2, <2>3, InOrderRest
<1>18. ASSUME NEW t \in Worker, SendEnd(t) PROVE InOrder'
  <2>1. \A u \in Worker :
           u # t /\ Handling(u) =>
              player'[thread[u].me] = player[thread[u].me]
    BY <1>18, SendEndDoes
  <2>2. thread'[t].pc \notin {"locksync", "lockall"}
    BY <1>18, SendEndDoes DEF Lowers, Closes, GoesIdle, GoesTo
  <2>3. OtherThreads(t)
    BY <1>18, SendEndDoes DEF Lowers, Closes, GoesIdle, GoesTo, OtherThreads
  <2> QED
    BY <2>1, <2>2, <2>3, InOrderRest
<1>19. ASSUME NEW t \in Worker, UnlockAll(t) PROVE InOrder'
  <2>1. \A u \in Worker :
           u # t /\ Handling(u) =>
              player'[thread[u].me] = player[thread[u].me]
    BY <1>19, UnlockAllDoes
  <2>2. thread'[t].pc \notin {"locksync", "lockall"}
    BY <1>19, UnlockAllDoes DEF GoesTo
  <2>3. OtherThreads(t)
    BY <1>19, UnlockAllDoes DEF GoesTo
  <2> QED
    BY <2>1, <2>2, <2>3, InOrderRest
<1>20. ASSUME NEW t \in Worker, OnDisConnect(t) PROVE InOrder'
  <2>1. \A u \in Worker :
           u # t /\ Handling(u) =>
              player'[thread[u].me] = player[thread[u].me]
    BY <1>20, OnDisConnectDoes, Who, Apart, Me
    DEF Closing, Erases, OtherPlayers
  <2>2. thread'[t].pc \notin {"locksync", "lockall"}
    BY <1>20, OnDisConnectDoes, Typed, Fields DEF GoesBack, GoesIdle, GoesTo
  <2>3. OtherThreads(t)
    BY <1>20, OnDisConnectDoes DEF GoesBack, GoesIdle, GoesTo
  <2> QED
    BY <2>1, <2>2, <2>3, InOrderRest
<1>21. ASSUME NEW t \in Worker, LeaveSector(t) PROVE InOrder'
  <2>1. \A u \in Worker :
           u # t /\ Handling(u) =>
              player'[thread[u].me] = player[thread[u].me]
    BY <1>21, LeaveSectorDoes
  <2>2. thread'[t].pc \notin {"locksync", "lockall"}
    BY <1>21, LeaveSectorDoes DEF GoesTo
  <2>3. OtherThreads(t)
    BY <1>21, LeaveSectorDoes DEF GoesTo
  <2> QED
    BY <2>1, <2>2, <2>3, InOrderRest
<1>22. ASSUME NEW t \in Worker, DeleteID(t) PROVE InOrder'
  <2>1. \A u \in Worker :
           u # t /\ Handling(u) =>
              player'[thread[u].me] = player[thread[u].me]
    BY <1>22, DeleteIDDoes, Who, Apart, Me DEF Closing, Erases, OtherPlayers
  <2>2. thread'[t].pc \notin {"locksync", "lockall"}
    BY <1>22, DeleteIDDoes, Typed, Fields DEF GoesBack, GoesIdle, GoesTo
  <2>3. OtherThreads(t)
    BY <1>22, DeleteIDDoes DEF GoesBack, GoesIdle, GoesTo
  <2> QED
    BY <2>1, <2>2, <2>3, InOrderRest
<1>23. ASSUME UNCHANGED server PROVE InOrder'
  BY <1>23 DEF IInv, InOrder, HasLock, Casting, Closing, server
<1> QED
  BY <1>1, <1>2, <1>3, <1>4, <1>5, <1>6, <1>7, <1>8, <1>9, <1>10, <1>11, <1>12,
     <1>13, <1>14, <1>15, <1>16, <1>17, <1>18, <1>19, <1>20, <1>21, <1>22,
     <1>23
  DEF Change

(* The count of a session follows its receive and the threads that send to   *)
(* it.                                                                     *)
LEMMA SendersFinite ==
    ASSUME NEW s
    PROVE  IsFiniteSet(Senders(s)) /\ Cardinality(Senders(s)) \in Nat
  <1>1. Senders(s) \subseteq Worker
    BY DEF Senders
  <1> QED
    BY <1>1, ChatMultiAssumption, FS_Subset, FS_CardinalityType

LEMMA SendersSame ==
    ASSUME NEW t, OtherThreads(t),
           t \in Worker => thread[t].pc # "sent" /\ thread'[t].pc # "sent"
    PROVE  \A s \in Slot : Senders(s)' = Senders(s)
  BY DEF Senders, OtherThreads

LEMMA CountsRest ==
    ASSUME IInv, NEW s \in Slot, OtherSess(s),
           \A r \in Slot : Senders(r)' = Senders(r),
           \/ /\ sess'[s].io = sess[s].io
              /\ sess'[s].recv = "none" <=> sess[s].recv = "none"
           \/ /\ sess'[s].io = sess[s].io + 1
              /\ sess[s].recv = "none" /\ sess'[s].recv # "none"
           \/ /\ sess'[s].io = sess[s].io - 1
              /\ sess[s].recv # "none" /\ sess'[s].recv = "none"
    PROVE  Counts'
  <1>1. \A r \in Slot : Cardinality(Senders(r)) \in Nat
    BY SendersFinite
  <1> QED
    BY <1>1 DEF IInv, Counts, OtherSess

LEMMA CountsUnsent ==
    ASSUME IInv, NEW t \in Worker, OtherThreads(t), UNCHANGED sess,
           thread[t].pc # "sent", thread'[t].pc # "sent"
    PROVE  Counts'
  BY SendersSame DEF IInv, Counts

LEMMA CountsKept ==
    ASSUME ~Shared, IInv, Change
    PROVE  Counts'
<1>1. ASSUME NEW s \in Slot, OnAccept(s) PROVE Counts'
  <2>1. \A r \in Slot : Senders(r)' = Senders(r)
    BY <1>1, OnAcceptDoes, SendersSame, ChatMultiAssumption DEF OtherThreads
  <2> QED
    BY <1>1, <2>1, OnAcceptDoes, CountsRest DEF SameSess
<1>2. ASSUME NEW s \in Slot, ClientLeaves(s) PROVE Counts'
  <2>1. \A r \in Slot : Senders(r)' = Senders(r)
    BY <1>2, ClientLeavesDoes, SendersSame, ChatMultiAssumption
    DEF OtherThreads
  <2> QED
    BY <1>2, <2>1, ClientLeavesDoes, CountsRest DEF SameSess
<1>3. ASSUME NEW t \in Worker, NEW s \in Slot, TakeFailed(t, s) PROVE Counts'
  <2>1. \A r \in Slot : Senders(r)' = Senders(r)
    BY <1>3, TakeFailedDoes, SendersSame
    DEF Takes, Lowers, Closes, GoesIdle, GoesTo, GoesBack, KeepsOn,
        OtherThreads
  <2> QED
    BY <1>3, <2>1, TakeFailedDoes, CountsRest DEF SameSess, Lowers
<1>4. ASSUME NEW t \in Worker, NEW s \in Slot, HandleBadMessage(t, s)
      PROVE  Counts'
  <2>1. \A r \in Slot : Senders(r)' = Senders(r)
    BY <1>4, BadMessageDoes, SendersSame
    DEF Takes, Lowers, Closes, GoesIdle, GoesTo, GoesBack, KeepsOn,
        OtherThreads
  <2> QED
    BY <1>4, <2>1, BadMessageDoes, CountsRest DEF SameSess, Takes
<1>5. ASSUME NEW t \in Worker, NEW s \in Slot, HandleLoginMessage(t, s)
      PROVE  Counts'
  <2>1. \A r \in Slot : Senders(r)' = Senders(r)
    BY <1>5, LoginMessageDoes, SendersSame
    DEF Takes, Lowers, Closes, GoesIdle, GoesTo, GoesBack, KeepsOn,
        OtherThreads
  <2> QED
    BY <1>5, <2>1, LoginMessageDoes, CountsRest DEF SameSess, Takes
<1>6. ASSUME NEW t \in Worker, NEW s \in Slot, NEW p \in Sector,
             HandleFirstMove(t, s, p) PROVE Counts'
  <2>1. \A r \in Slot : Senders(r)' = Senders(r)
    BY <1>6, FirstMoveDoes, SendersSame
    DEF Takes, Lowers, Closes, GoesIdle, GoesTo, GoesBack, KeepsOn,
        OtherThreads
  <2> QED
    BY <1>6, <2>1, FirstMoveDoes, CountsRest DEF SameSess, Takes
<1>7. ASSUME NEW t \in Worker, NEW s \in Slot, NEW p \in Sector,
             HandleSectorMoveMessage(t, s, p) PROVE Counts'
  <2>1. \A r \in Slot : Senders(r)' = Senders(r)
    BY <1>7, SectorMoveDoes, SendersSame
    DEF Takes, Lowers, Closes, GoesIdle, GoesTo, GoesBack, KeepsOn,
        OtherThreads
  <2> QED
    BY <1>7, <2>1, SectorMoveDoes, CountsRest DEF SameSess, Takes
<1>8. ASSUME NEW t \in Worker, NEW s \in Slot, HandleChatMessage(t, s)
      PROVE  Counts'
  <2>1. \A r \in Slot : Senders(r)' = Senders(r)
    BY <1>8, ChatMessageDoes, SendersSame
    DEF Takes, Lowers, Closes, GoesIdle, GoesTo, GoesBack, KeepsOn,
        OtherThreads
  <2> QED
    BY <1>8, <2>1, ChatMessageDoes, CountsRest DEF SameSess, Takes
<1>9. ASSUME NEW t \in Worker, Finish(t) PROVE Counts'
  <2>s. PICK s \in Slot : s = thread[t].me
    BY <1>9, FinishDoes
  <2>1. \A r \in Slot : Senders(r)' = Senders(r)
    BY <1>9, FinishDoes, SendersSame
    DEF Takes, Lowers, Closes, GoesIdle, GoesTo, GoesBack, KeepsOn,
        OtherThreads
  <2> QED
    BY <1>9, <2>1, FinishDoes, CountsRest, <2>s DEF SameSess, Lowers
<1>10. ASSUME NEW t \in Worker, Inserts(t) PROVE Counts'
  <2>1. GoesTo(t, "login") /\ thread[t].pc = "insert" /\ UNCHANGED sess
    BY <1>10, InsertsDoes
  <2> QED
    BY <2>1, CountsUnsent DEF GoesTo
<1>11. ASSUME NEW t \in Worker, Login(t) PROVE Counts'
  BY <1>11, LoginDoes, CountsUnsent DEF GoesTo
<1>12. ASSUME NEW t \in Worker, BadName(t) PROVE Counts'
  <2>s. PICK s \in Slot : s = thread[t].me
    BY <1>12, BadNameDoes
  <2>1. \A r \in Slot : Senders(r)' = Senders(r)
    BY <1>12, BadNameDoes, SendersSame
    DEF Takes, Lowers, Closes, GoesIdle, GoesTo, GoesBack, KeepsOn,
        OtherThreads
  <2> QED
    BY <1>12, <2>1, BadNameDoes, CountsRest, <2>s DEF SameSess
<1>13. ASSUME NEW t \in Worker, EnterSector(t) PROVE Counts'
  BY <1>13, EnterSectorDoes, CountsUnsent DEF GoesTo
<1>14. ASSUME NEW t \in Worker, NEW l \in thread[t].todo, Locking(t, l)
      PROVE  Counts'
  BY <1>14, LockingDoes, CountsUnsent DEF KeepsOn
<1>15. ASSUME NEW t \in Worker, SyncSector(t) PROVE Counts'
  BY <1>15, SyncSectorDoes, CountsUnsent DEF GoesTo
<1>16. ASSUME NEW t \in Worker, Listen(t) PROVE Counts'
  BY <1>16, ListenDoes, CountsUnsent DEF KeepsOn
<1>17. ASSUME NEW t \in Worker, NEW d \in thread[t].todo, Sending(t, d)
      PROVE  Counts'
  <2>1. /\ thread[t].pc = "cast" /\ thread'[t].pc = "sent"
        /\ thread'[t].who = d /\ OtherThreads(t) /\ d \in Slot
        /\ OtherSess(d) /\ sess'[d].io = sess[d].io + 1
        /\ sess'[d].recv = sess[d].recv
    BY <1>17, SendingDoes DEF KeepsOn, SameSess
  <2>2. \A r \in Slot : r # d => Senders(r)' = Senders(r)
    BY <2>1 DEF Senders, OtherThreads
  <2>3. Senders(d)' = Senders(d) \cup {t} /\ t \notin Senders(d)
    BY <2>1 DEF Senders, OtherThreads
  <2>4. Cardinality(Senders(d)') = Cardinality(Senders(d)) + 1
    BY <2>3, SendersFinite, FS_AddElement
  <2> QED
    BY <2>1, <2>2, <2>4, SendersFinite DEF IInv, Counts, OtherSess
<1>18. ASSUME NEW t \in Worker, SendEnd(t) PROVE Counts'
  <2>s. PICK s \in Slot : s = thread[t].who
    BY <1>18, SendEndDoes
  <2>1. /\ thread[t].pc = "sent" /\ thread'[t].pc # "sent"
        /\ OtherThreads(t)
        /\ OtherSess(s) /\ sess'[s].io = sess[s].io - 1
        /\ sess'[s].recv = sess[s].recv
    BY <1>18, <2>s, SendEndDoes DEF Lowers, Closes, GoesTo
  <2>2. \A r \in Slot : r # s => Senders(r)' = Senders(r)
    BY <2>s, <2>1 DEF Senders, OtherThreads
  <2>3. Senders(s)' = Senders(s) \ {t} /\ t \in Senders(s)
    BY <2>s, <2>1 DEF Senders, OtherThreads
  <2>4. Cardinality(Senders(s)') = Cardinality(Senders(s)) - 1
    BY <2>3, SendersFinite, FS_RemoveElement
  <2> QED
    BY <2>1, <2>2, <2>4, SendersFinite DEF IInv, Counts, OtherSess
<1>19. ASSUME NEW t \in Worker, UnlockAll(t) PROVE Counts'
  BY <1>19, UnlockAllDoes, CountsUnsent DEF GoesTo
<1>20. ASSUME NEW t \in Worker, OnDisConnect(t) PROVE Counts'
  <2>s. PICK s \in Slot : s = thread[t].who
    BY <1>20, OnDisConnectDoes
  <2>1. \A r \in Slot : Senders(r)' = Senders(r)
    BY <1>20, OnDisConnectDoes, SendersSame, Typed, Fields
    DEF GoesBack, GoesIdle, GoesTo, OtherThreads
  <2>2. CASE Erases(s)
    <3>1. sess[s].recv = "none"
      BY <1>20, <2>s, OnDisConnectDoes, Who DEF Closing
    <3> QED
      BY <2>1, <2>2, <3>1, CountsRest DEF Erases
  <2>3. CASE UNCHANGED sess
    BY <2>1, <2>3 DEF IInv, Counts
  <2> QED
    BY <1>20, <2>s, <2>2, <2>3, OnDisConnectDoes
<1>21. ASSUME NEW t \in Worker, LeaveSector(t) PROVE Counts'
  BY <1>21, LeaveSectorDoes, CountsUnsent DEF GoesTo
<1>22. ASSUME NEW t \in Worker, DeleteID(t) PROVE Counts'
  <2>s. PICK s \in Slot : s = thread[t].who
    BY <1>22, DeleteIDDoes
  <2>1. \A r \in Slot : Senders(r)' = Senders(r)
    BY <1>22, DeleteIDDoes, SendersSame, Typed, Fields
    DEF GoesBack, GoesIdle, GoesTo, OtherThreads
  <2>2. CASE Erases(s)
    <3>1. sess[s].recv = "none"
      BY <1>22, <2>s, DeleteIDDoes, Who DEF Closing
    <3> QED
      BY <2>1, <2>2, <3>1, CountsRest DEF Erases
  <2>3. CASE UNCHANGED sess
    BY <2>1, <2>3 DEF IInv, Counts
  <2> QED
    BY <1>22, <2>s, <2>2, <2>3, DeleteIDDoes
<1>23. ASSUME UNCHANGED server PROVE Counts'
  BY <1>23 DEF IInv, Counts, Senders, server
<1> QED
  BY <1>1, <1>2, <1>3, <1>4, <1>5, <1>6, <1>7, <1>8, <1>9, <1>10, <1>11, <1>12,
     <1>13, <1>14, <1>15, <1>16, <1>17, <1>18, <1>19, <1>20, <1>21, <1>22,
     <1>23
  DEF Change

(* Where a player belongs changes only by a handler of its own, or as it is *)
(* closed.                                                                 *)
Busy(t) == thread[t].pc \in {"enter", "locksync", "sync", "deletekey"}

LEMMA InListOther ==
    ASSUME NEW t, NEW s, OtherThreads(t), OtherPlayers(s),
           t \in Worker =>
              /\ thread[t].pc \in {"enter", "locksync", "sync"} =>
                    thread[t].me = s
              /\ thread'[t].pc \in {"enter", "locksync", "sync"} =>
                    thread'[t].me = s
              /\ thread[t].pc = "deletekey" => thread[t].who = s
              /\ thread'[t].pc = "deletekey" => thread'[t].who = s
    PROVE  \A r \in Slot, q \in Sector :
              r # s => (InList(r, q)' <=> InList(r, q))
  <1> SUFFICES ASSUME NEW r \in Slot, NEW q \in Sector, r # s
               PROVE  InList(r, q)' <=> InList(r, q)
    OBVIOUS
  <1>1. \A u \in Worker : Moving(u, r)' <=> Moving(u, r)
    BY DEF Moving, OtherThreads
  <1>2. \A u \in Worker : Moving(u, r) => thread'[u].from = thread[u].from
    BY DEF Moving, OtherThreads
  <1>3. \A u \in Worker :
           /\ thread'[u].me = r /\ thread'[u].pc = "enter" <=>
                 thread[u].me = r /\ thread[u].pc = "enter"
           /\ thread'[u].who = r /\ thread'[u].pc = "deletekey" <=>
                 thread[u].who = r /\ thread[u].pc = "deletekey"
    BY DEF OtherThreads
  <1>4. player'[r] = player[r]
    BY DEF OtherPlayers
  <1> QED
    BY <1>1, <1>2, <1>3, <1>4 DEF InList

LEMMA ListsRest ==
    ASSUME IInv, NEW t, OtherThreads(t), UNCHANGED sector,
           t \in Worker => ~Busy(t) /\ ~Busy(t)',
           \A s \in Slot :
              /\ player'[s].status = "PLAYER" <=> player[s].status = "PLAYER"
              /\ player[s].status = "PLAYER" => player'[s].at = player[s].at
    PROVE  Lists'
  <1> SUFFICES ASSUME NEW r \in Slot, NEW q \in Sector
               PROVE  InList(r, q)' <=> InList(r, q)
    BY DEF IInv, Lists
  <1>1. \A u \in Worker : Moving(u, r)' <=> Moving(u, r)
    BY DEF Moving, OtherThreads, Busy
  <1>2. \A u \in Worker : Moving(u, r) => thread'[u].from = thread[u].from
    BY DEF Moving, OtherThreads, Busy
  <1>3. \A u \in Worker :
           /\ thread'[u].me = r /\ thread'[u].pc = "enter" <=>
                 thread[u].me = r /\ thread[u].pc = "enter"
           /\ thread'[u].who = r /\ thread'[u].pc = "deletekey" <=>
                 thread[u].who = r /\ thread[u].pc = "deletekey"
    BY DEF OtherThreads, Busy
  <1> QED
    BY <1>1, <1>2, <1>3 DEF InList

(* One thread is with a session: its handler, or the one that closes it.    *)
LEMMA AtRest ==
    ASSUME IInv, NEW s \in Slot, NEW q \in Sector,
           \A u \in Worker :
              /\ Handling(u) => thread[u].me # s
              /\ thread[u].pc = "deletekey" => thread[u].who # s
    PROVE  InList(s, q) <=> player[s].status = "PLAYER" /\ q = player[s].at
  BY DEF InList, Moving, Handling

(* Each player is in the list of the sector it belongs to, and in no other. *)
LEMMA ListsKept ==
    ASSUME ~Shared, IInv, Change
    PROVE  Lists'
<1>1. ASSUME NEW s \in Slot, OnAccept(s) PROVE Lists'
  <2>1. OtherThreads(Nobody) /\ UNCHANGED sector
    BY <1>1, OnAcceptDoes DEF OtherThreads
  <2>2. \A r \in Slot :
           /\ player'[r].status = "PLAYER" <=> player[r].status = "PLAYER"
           /\ player[r].status = "PLAYER" => player'[r].at = player[r].at
    BY <1>1, OnAcceptDoes DEF OtherPlayers, IInv, Sessions, SessionOf
  <2> QED
    BY <2>1, <2>2, ListsRest, ChatMultiAssumption
<1>2. ASSUME NEW s \in Slot, ClientLeaves(s) PROVE Lists'
  <2>1. OtherThreads(Nobody) /\ UNCHANGED sector
    BY <1>2, ClientLeavesDoes DEF OtherThreads
  <2>2. \A r \in Slot :
           /\ player'[r].status = "PLAYER" <=> player[r].status = "PLAYER"
           /\ player[r].status = "PLAYER" => player'[r].at = player[r].at
    BY <1>2, ClientLeavesDoes
  <2> QED
    BY <2>1, <2>2, ListsRest, ChatMultiAssumption
<1>3. ASSUME NEW t \in Worker, NEW s \in Slot, TakeFailed(t, s) PROVE Lists'
  <2>1. OtherThreads(t) /\ UNCHANGED sector /\ ~Busy(t) /\ ~Busy(t)'
    BY <1>3, TakeFailedDoes
    DEF Takes, Lowers, Closes, GoesIdle, GoesTo, GoesBack, KeepsOn,
        OtherThreads, Busy
  <2>2. \A r \in Slot :
           /\ player'[r].status = "PLAYER" <=> player[r].status = "PLAYER"
           /\ player[r].status = "PLAYER" => player'[r].at = player[r].at
    BY <1>3, TakeFailedDoes
  <2> QED
    BY <2>1, <2>2, ListsRest
<1>4. ASSUME NEW t \in Worker, NEW s \in Slot, HandleBadMessage(t, s)
      PROVE  Lists'
  <2>1. OtherThreads(t) /\ UNCHANGED sector /\ ~Busy(t) /\ ~Busy(t)'
    BY <1>4, BadMessageDoes
    DEF Takes, Lowers, Closes, GoesIdle, GoesTo, GoesBack, KeepsOn,
        OtherThreads, Busy
  <2>2. \A r \in Slot :
           /\ player'[r].status = "PLAYER" <=> player[r].status = "PLAYER"
           /\ player[r].status = "PLAYER" => player'[r].at = player[r].at
    BY <1>4, BadMessageDoes
  <2> QED
    BY <2>1, <2>2, ListsRest
<1>5. ASSUME NEW t \in Worker, NEW s \in Slot, HandleLoginMessage(t, s)
      PROVE  Lists'
  <2>1. OtherThreads(t) /\ UNCHANGED sector /\ ~Busy(t) /\ ~Busy(t)'
    BY <1>5, LoginMessageDoes
    DEF Takes, Lowers, Closes, GoesIdle, GoesTo, GoesBack, KeepsOn,
        OtherThreads, Busy
  <2>2. \A r \in Slot :
           /\ player'[r].status = "PLAYER" <=> player[r].status = "PLAYER"
           /\ player[r].status = "PLAYER" => player'[r].at = player[r].at
    BY <1>5, LoginMessageDoes
  <2> QED
    BY <2>1, <2>2, ListsRest
<1>6. ASSUME NEW t \in Worker, NEW s \in Slot, NEW p \in Sector,
             HandleFirstMove(t, s, p) PROVE Lists'
  <2>1. \A r \in Slot, q \in Sector :
           r # s => (InList(r, q)' <=> InList(r, q))
    BY <1>6, FirstMoveDoes, InListOther DEF Takes
  <2>2. \A q \in Sector : ~InList(s, q) /\ ~InList(s, q)'
    BY <1>6, FirstMoveDoes DEF InList, Takes
  <2> QED
    BY <1>6, <2>1, <2>2, FirstMoveDoes DEF IInv, Lists
<1>7. ASSUME NEW t \in Worker, NEW s \in Slot, NEW p \in Sector,
             HandleSectorMoveMessage(t, s, p) PROVE Lists'
  <2>1. CASE p = player[s].at /\ Takes(t, s, "finish")
    <3>1. OtherThreads(t) /\ UNCHANGED sector /\ ~Busy(t) /\ ~Busy(t)'
      BY <1>7, <2>1, SectorMoveDoes DEF Takes, Busy
    <3>2. \A r \in Slot :
             /\ player'[r].status = "PLAYER" <=> player[r].status = "PLAYER"
             /\ player[r].status = "PLAYER" => player'[r].at = player[r].at
      BY <1>7, <2>1, SectorMoveDoes DEF OtherPlayers
    <3> QED
      BY <3>1, <3>2, ListsRest
  <2>2. CASE Takes(t, s, "locksync") /\ thread'[t].from = player[s].at
    <3>1. \A r \in Slot, q \in Sector :
             r # s => (InList(r, q)' <=> InList(r, q))
      BY <1>7, <2>2, SectorMoveDoes, InListOther DEF Takes
    <3>2. \A u \in Worker :
             /\ Handling(u) => thread[u].me # s
             /\ thread[u].pc = "deletekey" => thread[u].who # s
      BY <2>2, Apart, Who DEF Takes, Closing
    <3>3. \A q \in Sector : InList(s, q) <=> q = player[s].at
      BY <1>7, <3>2, AtRest, SectorMoveDoes
    <3>4. \A u \in Worker :
             /\ Moving(u, s)' <=> u = t
             /\ ~(thread'[u].me = s /\ thread'[u].pc = "enter")
             /\ ~(thread'[u].who = s /\ thread'[u].pc = "deletekey")
      BY <2>2, <3>2 DEF Takes, OtherThreads, Moving, Handling
    <3>5. \A q \in Sector : InList(s, q)' <=> q = player[s].at
      BY <1>7, <2>2, <3>4, SectorMoveDoes DEF InList
    <3> QED
      BY <1>7, <3>1, <3>3, <3>5, SectorMoveDoes DEF IInv, Lists
  <2> QED
    BY <1>7, <2>1, <2>2, SectorMoveDoes
<1>8. ASSUME NEW t \in Worker, NEW s \in Slot, HandleChatMessage(t, s)
      PROVE  Lists'
  <2>1. OtherThreads(t) /\ UNCHANGED sector /\ ~Busy(t) /\ ~Busy(t)'
    BY <1>8, ChatMessageDoes
    DEF Takes, Lowers, Closes, GoesIdle, GoesTo, GoesBack, KeepsOn,
        OtherThreads, Busy
  <2>2. \A r \in Slot :
           /\ player'[r].status = "PLAYER" <=> player[r].status = "PLAYER"
           /\ player[r].status = "PLAYER" => player'[r].at = player[r].at
    BY <1>8, ChatMessageDoes
  <2> QED
    BY <2>1, <2>2, ListsRest
<1>9. ASSUME NEW t \in Worker, Finish(t) PROVE Lists'
  <2>1. OtherThreads(t) /\ UNCHANGED sector /\ ~Busy(t) /\ ~Busy(t)'
    BY <1>9, FinishDoes
    DEF Takes, Lowers, Closes, GoesIdle, GoesTo, GoesBack, KeepsOn,
        OtherThreads, Busy
  <2>2. \A r \in Slot :
           /\ player'[r].status = "PLAYER" <=> player[r].status = "PLAYER"
           /\ player[r].status = "PLAYER" => player'[r].at = player[r].at
    BY <1>9, FinishDoes
  <2> QED
    BY <2>1, <2>2, ListsRest
<1>10. ASSUME NEW t \in Worker, Inserts(t) PROVE Lists'
  <2>1. OtherThreads(t) /\ UNCHANGED sector /\ ~Busy(t) /\ ~Busy(t)'
    BY <1>10, InsertsDoes
    DEF Takes, Lowers, Closes, GoesIdle, GoesTo, GoesBack, KeepsOn,
        OtherThreads, Busy
  <2>2. \A r \in Slot :
           /\ player'[r].status = "PLAYER" <=> player[r].status = "PLAYER"
           /\ player[r].status = "PLAYER" => player'[r].at = player[r].at
    BY <1>10, InsertsDoes
  <2> QED
    BY <2>1, <2>2, ListsRest
<1>11. ASSUME NEW t \in Worker, Login(t) PROVE Lists'
  <2>1. OtherThreads(t) /\ UNCHANGED sector /\ ~Busy(t) /\ ~Busy(t)'
    BY <1>11, LoginDoes
    DEF Takes, Lowers, Closes, GoesIdle, GoesTo, GoesBack, KeepsOn,
        OtherThreads, Busy
  <2>2. \A r \in Slot :
           /\ player'[r].status = "PLAYER" <=> player[r].status = "PLAYER"
           /\ player[r].status = "PLAYER" => player'[r].at = player[r].at
    BY <1>11, LoginDoes DEF OtherPlayers, IInv, Places, PlaceOf
  <2> QED
    BY <2>1, <2>2, ListsRest
<1>12. ASSUME NEW t \in Worker, BadName(t) PROVE Lists'
  <2>1. OtherThreads(t) /\ UNCHANGED sector /\ ~Busy(t) /\ ~Busy(t)'
    BY <1>12, BadNameDoes
    DEF Takes, Lowers, Closes, GoesIdle, GoesTo, GoesBack, KeepsOn,
        OtherThreads, Busy
  <2>2. \A r \in Slot :
           /\ player'[r].status = "PLAYER" <=> player[r].status = "PLAYER"
           /\ player[r].status = "PLAYER" => player'[r].at = player[r].at
    BY <1>12, BadNameDoes
  <2> QED
    BY <2>1, <2>2, ListsRest
<1>13. ASSUME NEW t \in Worker, EnterSector(t) PROVE Lists'
  <2>s. PICK s \in Slot : s = thread[t].me
    BY <1>13, EnterSectorDoes
  <2>o. /\ thread[t].pc = "enter" /\ thread'[t].pc = "finish"
        /\ thread'[t].me = s /\ OtherThreads(t) /\ OtherPlayers(s)
    BY <1>13, <2>s, EnterSectorDoes DEF GoesTo, OtherPlayers
  <2>1. \A r \in Slot, q \in Sector :
           r # s => (InList(r, q)' <=> InList(r, q))
    BY <2>s, <2>o, InListOther
  <2>2. /\ Handling(t) /\ thread[t].pc = "enter" /\ OtherThreads(t)
        /\ thread'[t].pc = "finish"
    BY <1>13, EnterSectorDoes DEF Handling, GoesTo
  <2>3. player[s].status = "PLAYER"
    BY <2>s, <2>2 DEF IInv, Places, PlaceOf
  <2>4. \A u \in Worker :
           /\ u # t /\ Handling(u) => thread[u].me # s
           /\ thread[u].pc = "deletekey" => thread[u].who # s
    BY <2>s, <2>2, OneHandler, Me, Who DEF Closing
  <2>5. \A q \in Sector : ~InList(s, q)
    BY <2>s, <2>2 DEF InList
  <2>6. \A u \in Worker :
           /\ ~Moving(u, s)'
           /\ ~(thread'[u].me = s /\ thread'[u].pc = "enter")
           /\ ~(thread'[u].who = s /\ thread'[u].pc = "deletekey")
    BY <2>2, <2>4 DEF OtherThreads, Moving, Handling
  <2>7. \A q \in Sector : InList(s, q)' <=> q = player[s].at
    BY <1>13, <2>3, <2>6, EnterSectorDoes DEF InList
  <2>8. \A q \in Sector :
           sector'[q] = IF q = player[s].at THEN sector[q] \cup {s}
                        ELSE sector[q]
    BY ZenonT(40), <1>13, <2>s, EnterSectorDoes, Typed
  <2>9. \A r \in Slot, q \in Sector :
           /\ r # s => (r \in sector'[q] <=> r \in sector[q])
           /\ s \in sector[q] <=> InList(s, q)
    BY <2>8 DEF IInv, Lists
  <2>10. \A q \in Sector : s \in sector'[q] <=> q = player[s].at
    BY <2>5, <2>8, <2>9
  <2> QED
    BY <2>1, <2>7, <2>9, <2>10 DEF IInv, Lists
<1>14. ASSUME NEW t \in Worker, NEW l \in thread[t].todo, Locking(t, l)
      PROVE  Lists'
  <2>1. /\ thread[t].pc \in {"locksync", "lockall"} /\ OtherThreads(t)
        /\ thread'[t].pc \in IF thread[t].pc = "locksync"
                            THEN {"locksync", "sync"}
                            ELSE {"lockall", "listen"}
        /\ thread'[t].me = thread[t].me /\ thread'[t].from = thread[t].from
        /\ UNCHANGED <<player, sector>>
    BY <1>14, LockingDoes DEF KeepsOn
  <2>2. \A u \in Worker :
           /\ thread'[u].me = thread[u].me /\ thread'[u].from = thread[u].from
           /\ thread'[u].pc = "enter" <=> thread[u].pc = "enter"
           /\ thread'[u].pc \in {"locksync", "sync"} <=>
                 thread[u].pc \in {"locksync", "sync"}
           /\ \/ thread'[u] = thread[u]
              \/ thread'[u].pc # "deletekey" /\ thread[u].pc # "deletekey"
    BY <2>1 DEF OtherThreads
  <2>3. \A u \in Worker, r \in Slot : Moving(u, r)' <=> Moving(u, r)
    BY <2>2 DEF Moving
  <2>4. \A r \in Slot, q \in Sector : InList(r, q)' <=> InList(r, q)
    BY <2>1, <2>2, <2>3 DEF InList
  <2> QED
    BY <2>1, <2>4 DEF IInv, Lists
<1>15. ASSUME NEW t \in Worker, SyncSector(t) PROVE Lists'
  <2>s. PICK s \in Slot : s = thread[t].me
    BY <1>15, SyncSectorDoes
  <2>o. /\ thread[t].pc = "sync" /\ thread'[t].pc = "finish"
        /\ thread'[t].me = s /\ OtherThreads(t) /\ OtherPlayers(s)
    BY <1>15, <2>s, SyncSectorDoes DEF GoesTo, OtherPlayers
  <2>1. \A r \in Slot, q \in Sector :
           r # s => (InList(r, q)' <=> InList(r, q))
    BY <2>s, <2>o, InListOther
  <2>2. /\ Handling(t) /\ thread[t].pc = "sync" /\ OtherThreads(t)
        /\ thread'[t].pc = "finish"
    BY <1>15, SyncSectorDoes DEF Handling, GoesTo
  <2>3. player[s].status = "PLAYER"
    BY <2>s, <2>2 DEF IInv, Places, PlaceOf
  <2>4. \A u \in Worker :
           /\ u # t /\ Handling(u) => thread[u].me # s
           /\ thread[u].pc = "deletekey" => thread[u].who # s
    BY <2>s, <2>2, OneHandler, Me, Who DEF Closing
  <2>m. \A u \in Worker :
           /\ Moving(u, s) <=> u = t
           /\ ~(thread[u].me = s /\ thread[u].pc = "enter")
    BY <2>s, <2>2, <2>4 DEF Moving, Handling
  <2>5. \A q \in Sector : InList(s, q) <=> q = thread[t].from
    BY <2>3, <2>4, <2>m DEF InList
  <2>6. \A u \in Worker :
           /\ ~Moving(u, s)'
           /\ ~(thread'[u].me = s /\ thread'[u].pc = "enter")
           /\ ~(thread'[u].who = s /\ thread'[u].pc = "deletekey")
    BY <2>2, <2>4 DEF OtherThreads, Moving, Handling
  <2>7. \A q \in Sector : InList(s, q)' <=> q = player[s].at
    BY <1>15, <2>3, <2>6, SyncSectorDoes DEF InList
  <2>8. \A q \in Sector :
           sector'[q] = IF q = player[s].at THEN sector[q] \cup {s}
                        ELSE IF q = thread[t].from THEN sector[q] \ {s}
                        ELSE sector[q]
    <3>1. /\ sector \in [Sector -> SUBSET Slot]
          /\ thread[t].from \in Sector /\ player[s].at \in Sector
          /\ thread[t].from # player[s].at
          /\ sector' = [sector EXCEPT
                           ![thread[t].from] = sector[thread[t].from] \ {s},
                           ![player[s].at] = sector[player[s].at] \cup {s}]
      BY <1>15, <2>s, SyncSectorDoes, Typed
    <3> QED
      BY <3>1
  <2>9. \A r \in Slot, q \in Sector :
           /\ r # s => (r \in sector'[q] <=> r \in sector[q])
           /\ s \in sector[q] <=> InList(s, q)
    BY ZenonT(40), <2>8 DEF IInv, Lists
  <2>10. \A q \in Sector : s \in sector'[q] <=> q = player[s].at
    BY <2>5, <2>8, <2>9
  <2> QED
    BY <2>1, <2>7, <2>9, <2>10 DEF IInv, Lists
<1>16. ASSUME NEW t \in Worker, Listen(t) PROVE Lists'
  <2>1. OtherThreads(t) /\ UNCHANGED sector /\ ~Busy(t) /\ ~Busy(t)'
    BY <1>16, ListenDoes
    DEF Takes, Lowers, Closes, GoesIdle, GoesTo, GoesBack, KeepsOn,
        OtherThreads, Busy
  <2>2. \A r \in Slot :
           /\ player'[r].status = "PLAYER" <=> player[r].status = "PLAYER"
           /\ player[r].status = "PLAYER" => player'[r].at = player[r].at
    BY <1>16, ListenDoes
  <2> QED
    BY <2>1, <2>2, ListsRest
<1>17. ASSUME NEW t \in Worker, NEW d \in thread[t].todo, Sending(t, d)
      PROVE  Lists'
  <2>1. OtherThreads(t) /\ UNCHANGED sector /\ ~Busy(t) /\ ~Busy(t)'
    BY <1>17, SendingDoes
    DEF Takes, Lowers, Closes, GoesIdle, GoesTo, GoesBack, KeepsOn,
        OtherThreads, Busy
  <2>2. \A r \in Slot :
           /\ player'[r].status = "PLAYER" <=> player[r].status = "PLAYER"
           /\ player[r].status = "PLAYER" => player'[r].at = player[r].at
    BY <1>17, SendingDoes
  <2> QED
    BY <2>1, <2>2, ListsRest
<1>18. ASSUME NEW t \in Worker, SendEnd(t) PROVE Lists'
  <2>1. OtherThreads(t) /\ UNCHANGED sector /\ ~Busy(t) /\ ~Busy(t)'
    BY <1>18, SendEndDoes
    DEF Takes, Lowers, Closes, GoesIdle, GoesTo, GoesBack, KeepsOn,
        OtherThreads, Busy
  <2>2. \A r \in Slot :
           /\ player'[r].status = "PLAYER" <=> player[r].status = "PLAYER"
           /\ player[r].status = "PLAYER" => player'[r].at = player[r].at
    BY <1>18, SendEndDoes
  <2> QED
    BY <2>1, <2>2, ListsRest
<1>19. ASSUME NEW t \in Worker, UnlockAll(t) PROVE Lists'
  <2>1. OtherThreads(t) /\ UNCHANGED sector /\ ~Busy(t) /\ ~Busy(t)'
    BY <1>19, UnlockAllDoes
    DEF Takes, Lowers, Closes, GoesIdle, GoesTo, GoesBack, KeepsOn,
        OtherThreads, Busy
  <2>2. \A r \in Slot :
           /\ player'[r].status = "PLAYER" <=> player[r].status = "PLAYER"
           /\ player[r].status = "PLAYER" => player'[r].at = player[r].at
    BY <1>19, UnlockAllDoes
  <2> QED
    BY <2>1, <2>2, ListsRest
<1>20. ASSUME NEW t \in Worker, OnDisConnect(t) PROVE Lists'
  <2>1. OtherThreads(t) /\ UNCHANGED sector /\ ~Busy(t) /\ ~Busy(t)'
    BY <1>20, OnDisConnectDoes, Typed, Fields
    DEF Takes, Lowers, Closes, GoesIdle, GoesTo, GoesBack, KeepsOn,
        OtherThreads, Busy
  <2>2. \A r \in Slot :
           /\ player'[r].status = "PLAYER" <=> player[r].status = "PLAYER"
           /\ player[r].status = "PLAYER" => player'[r].at = player[r].at
    BY <1>20, OnDisConnectDoes DEF Erases, OtherPlayers
  <2> QED
    BY <2>1, <2>2, ListsRest
<1>21. ASSUME NEW t \in Worker, LeaveSector(t) PROVE Lists'
  <2>s. PICK s \in Slot : s = thread[t].who
    BY <1>21, LeaveSectorDoes
  <2>o. /\ thread[t].pc = "leavesector" /\ thread'[t].pc = "deletekey"
        /\ thread'[t].who = s /\ OtherThreads(t) /\ OtherPlayers(s)
    BY <1>21, <2>s, LeaveSectorDoes DEF GoesTo, OtherPlayers
  <2>1. \A r \in Slot, q \in Sector :
           r # s => (InList(r, q)' <=> InList(r, q))
    BY <2>s, <2>o, InListOther
  <2>2. /\ Closing(t) /\ thread[t].pc = "leavesector"
        /\ thread'[t].pc = "deletekey" /\ thread'[t].who = s
    BY <1>21, <2>s, LeaveSectorDoes DEF Closing, GoesTo
  <2>3. player[s].status = "PLAYER"
    BY <2>s, <2>2 DEF IInv, Closers
  <2>4. \A u \in Worker :
           /\ Handling(u) => thread[u].me # s
           /\ thread[u].pc = "deletekey" => thread[u].who # s
    BY <2>s, <2>2, Who, Apart DEF Closing, IInv, Closers
  <2>5. \A q \in Sector : InList(s, q) <=> q = player[s].at
    BY <2>3, <2>4, AtRest
  <2>6. \A q \in Sector : ~InList(s, q)'
    BY <2>2 DEF InList
  <2>8. \A q \in Sector :
           sector'[q] = IF q = player[s].at THEN sector[q] \ {s}
                        ELSE sector[q]
    BY <1>21, <2>s, LeaveSectorDoes, Typed
  <2>9. \A r \in Slot, q \in Sector :
           /\ r # s => (r \in sector'[q] <=> r \in sector[q])
           /\ s \in sector[q] <=> InList(s, q)
    BY <2>8 DEF IInv, Lists
  <2>10. \A q \in Sector : s \in sector'[q] <=> FALSE
    BY <2>5, <2>8, <2>9
  <2> QED
    BY <2>1, <2>6, <2>9, <2>10 DEF IInv, Lists
<1>22. ASSUME NEW t \in Worker, DeleteID(t) PROVE Lists'
  <2>s. PICK s \in Slot : s = thread[t].who
    BY <1>22, DeleteIDDoes
  <2>1. /\ thread[t].pc = "deletekey" /\ OtherThreads(t) /\ OtherPlayers(s)
        /\ thread'[t].pc \in {"idle", "cast"}
        /\ player'[s].status = "IDLE" /\ UNCHANGED sector
    BY <1>22, <2>s, DeleteIDDoes, Typed, Fields
    DEF GoesBack, GoesIdle, GoesTo, Erases
  <2>2. \A r \in Slot, q \in Sector :
           r # s => (InList(r, q)' <=> InList(r, q))
    BY <2>s, <2>1, InListOther
  <2>3. \A q \in Sector : ~InList(s, q) /\ ~InList(s, q)'
    BY <2>s, <2>1 DEF InList
  <2> QED
    BY <2>1, <2>2, <2>3 DEF IInv, Lists
<1>23. ASSUME UNCHANGED server PROVE Lists'
  BY <1>23 DEF IInv, Lists, InList, Moving, server
<1> QED
  BY <1>1, <1>2, <1>3, <1>4, <1>5, <1>6, <1>7, <1>8, <1>9, <1>10, <1>11, <1>12,
     <1>13, <1>14, <1>15, <1>16, <1>17, <1>18, <1>19, <1>20, <1>21, <1>22,
     <1>23
  DEF Change

(* The locks of a broadcast keep its listeners where they are.             *)
LEMMA CastsRest ==
    ASSUME IInv, NEW t, OtherThreads(t), t \in Worker => CastOf(t)',
           \A q \in Sector : sector'[q] # sector[q] => owner[q] \in {Nobody, t}
    PROVE  Broadcasts'
  <1> SUFFICES ASSUME NEW u \in Worker, u # t
               PROVE  CastOf(u)'
    BY DEF Broadcasts
  <1>1. CastOf(u) /\ thread'[u] = thread[u]
    BY DEF IInv, Broadcasts, OtherThreads
  <1>2. Casting(u)' = Casting(u)
    BY <1>1 DEF Casting, Closing
  <1>3. CASE Casting(u)
    <2>1. Around(thread[u].from) \subseteq Sector
      BY Typed, Fields, Neighbours
    <2>2. \A q \in Around(thread[u].from) : owner[q] = u
      BY <1>3, <2>1 DEF IInv, Locks, HasLock
    <2>3. \A q \in Around(thread[u].from) : sector'[q] = sector[q]
      BY <2>1, <2>2, ChatMultiAssumption
    <2>4. Listeners(u)' = Listeners(u)
      BY <1>1, <2>3 DEF Listeners
    <2> QED
      BY <1>1, <1>2, <1>3, <2>4 DEF CastOf
  <1>4. CASE ~Casting(u)
    BY <1>2, <1>4 DEF CastOf
  <1> QED
    BY <1>3, <1>4

(* A broadcast goes on with the same listeners.                            *)
LEMMA CastGoesOn ==
    ASSUME IInv, NEW t \in Worker, Casting(t), UNCHANGED sector,
           thread'[t].from = thread[t].from, thread'[t].todo = thread[t].todo,
           thread'[t].heard = thread[t].heard,
           thread'[t].pc # "cast" =>
              thread[t].pc # "cast" /\ thread'[t].who = thread[t].who,
           thread'[t].pc \in {"sent", "ondisconnect", "leavesector"} =>
              thread[t].pc \in {"sent", "ondisconnect", "leavesector"}
    PROVE  CastOf(t)'
  <1>1. Listeners(t)' = Listeners(t)
    BY DEF Listeners
  <1> QED
    BY <1>1 DEF IInv, Broadcasts, CastOf

LEMMA BroadcastsKept ==
    ASSUME ~Shared, IInv, Change
    PROVE  Broadcasts'
<1>1. ASSUME NEW s \in Slot, OnAccept(s) PROVE Broadcasts'
  <2>1. OtherThreads(Nobody) /\ UNCHANGED sector
    BY <1>1, OnAcceptDoes DEF OtherThreads
  <2> QED
    BY <2>1, CastsRest, ChatMultiAssumption
<1>2. ASSUME NEW s \in Slot, ClientLeaves(s) PROVE Broadcasts'
  <2>1. OtherThreads(Nobody) /\ UNCHANGED sector
    BY <1>2, ClientLeavesDoes DEF OtherThreads
  <2> QED
    BY <2>1, CastsRest, ChatMultiAssumption
<1>3. ASSUME NEW t \in Worker, NEW s \in Slot, TakeFailed(t, s)
      PROVE  Broadcasts'
  <2>1. OtherThreads(t) /\ UNCHANGED sector /\ ~Casting(t)'
    BY <1>3, TakeFailedDoes DEF Lowers, Closes, GoesIdle, Casting, Closing
  <2> QED
    BY <2>1, CastsRest DEF CastOf
<1>4. ASSUME NEW t \in Worker, NEW s \in Slot, HandleBadMessage(t, s)
      PROVE  Broadcasts'
  <2>1. OtherThreads(t) /\ UNCHANGED sector /\ ~Casting(t)'
    BY <1>4, BadMessageDoes DEF Takes, Casting, Closing
  <2> QED
    BY <2>1, CastsRest DEF CastOf
<1>5. ASSUME NEW t \in Worker, NEW s \in Slot, HandleLoginMessage(t, s)
      PROVE  Broadcasts'
  <2>1. OtherThreads(t) /\ UNCHANGED sector /\ ~Casting(t)'
    BY <1>5, LoginMessageDoes DEF Takes, Casting, Closing
  <2> QED
    BY <2>1, CastsRest DEF CastOf
<1>6. ASSUME NEW t \in Worker, NEW s \in Slot, NEW p \in Sector,
             HandleFirstMove(t, s, p) PROVE Broadcasts'
  <2>1. OtherThreads(t) /\ UNCHANGED sector /\ ~Casting(t)'
    BY <1>6, FirstMoveDoes DEF Takes, Casting, Closing
  <2> QED
    BY <2>1, CastsRest DEF CastOf
<1>7. ASSUME NEW t \in Worker, NEW s \in Slot, NEW p \in Sector,
             HandleSectorMoveMessage(t, s, p) PROVE Broadcasts'
  <2>1. OtherThreads(t) /\ UNCHANGED sector /\ ~Casting(t)'
    BY <1>7, SectorMoveDoes DEF Takes, Casting, Closing
  <2> QED
    BY <2>1, CastsRest DEF CastOf
<1>8. ASSUME NEW t \in Worker, NEW s \in Slot, HandleChatMessage(t, s)
      PROVE  Broadcasts'
  <2>1. OtherThreads(t) /\ UNCHANGED sector /\ ~Casting(t)'
    BY <1>8, ChatMessageDoes DEF Takes, Casting, Closing
  <2> QED
    BY <2>1, CastsRest DEF CastOf
<1>9. ASSUME NEW t \in Worker, Finish(t) PROVE Broadcasts'
  <2>1. OtherThreads(t) /\ UNCHANGED sector /\ ~Casting(t)'
    BY <1>9, FinishDoes DEF Lowers, Closes, GoesIdle, Casting, Closing
  <2> QED
    BY <2>1, CastsRest DEF CastOf
<1>10. ASSUME NEW t \in Worker, Inserts(t) PROVE Broadcasts'
  <2>1. OtherThreads(t) /\ UNCHANGED sector /\ ~Casting(t)'
    BY <1>10, InsertsDoes DEF GoesTo, Casting, Closing
  <2> QED
    BY <2>1, CastsRest DEF CastOf
<1>11. ASSUME NEW t \in Worker, Login(t) PROVE Broadcasts'
  <2>1. OtherThreads(t) /\ UNCHANGED sector /\ ~Casting(t)'
    BY <1>11, LoginDoes DEF GoesTo, Casting, Closing
  <2> QED
    BY <2>1, CastsRest DEF CastOf
<1>12. ASSUME NEW t \in Worker, BadName(t) PROVE Broadcasts'
  <2>1. OtherThreads(t) /\ UNCHANGED sector /\ ~Casting(t)'
    BY <1>12, BadNameDoes DEF GoesTo, Casting, Closing
  <2> QED
    BY <2>1, CastsRest DEF CastOf
<1>13. ASSUME NEW t \in Worker, EnterSector(t) PROVE Broadcasts'
  <2>1. /\ OtherThreads(t) /\ ~Casting(t)'
        /\ \A q \in Sector : sector'[q] # sector[q] => owner[q] \in {Nobody, t}
    BY <1>13, EnterSectorDoes, Typed DEF GoesTo, CanLock, Casting, Closing
  <2> QED
    BY <2>1, CastsRest DEF CastOf
<1>14. ASSUME NEW t \in Worker, NEW l \in thread[t].todo, Locking(t, l)
      PROVE  Broadcasts'
  <2>1. OtherThreads(t) /\ UNCHANGED sector /\ ~Casting(t)'
    BY <1>14, LockingDoes DEF KeepsOn, Casting, Closing
  <2> QED
    BY <2>1, CastsRest DEF CastOf
<1>15. ASSUME NEW t \in Worker, SyncSector(t) PROVE Broadcasts'
  <2>1. /\ OtherThreads(t) /\ ~Casting(t)' /\ thread[t].pc = "sync"
    BY <1>15, SyncSectorDoes DEF GoesTo, Casting, Closing
  <2>2. ASSUME NEW q \in Sector, sector'[q] # sector[q]
        PROVE  owner[q] = t
    <3>1. q \in {thread[t].from, player[thread[t].me].at}
      BY <1>15, <2>2, SyncSectorDoes, Typed
    <3> QED
      BY <2>1, <3>1 DEF IInv, Locks, HasLock
  <2> QED
    BY <2>1, <2>2, CastsRest DEF CastOf
<1>16. ASSUME NEW t \in Worker, Listen(t) PROVE Broadcasts'
  <2>1. /\ OtherThreads(t) /\ UNCHANGED sector
        /\ thread'[t].pc = "cast" /\ thread'[t].todo = Listeners(t)
        /\ thread'[t].from = thread[t].from
    BY <1>16, ListenDoes DEF KeepsOn
  <2>2. Listeners(t)' = Listeners(t)
    BY <2>1 DEF Listeners
  <2>3. CastOf(t)'
    BY <2>1, <2>2 DEF CastOf
  <2> QED
    BY <2>1, <2>3, CastsRest
<1>17. ASSUME NEW t \in Worker, NEW d \in thread[t].todo, Sending(t, d)
      PROVE  Broadcasts'
  <2>1. /\ OtherThreads(t) /\ UNCHANGED sector
        /\ thread'[t].pc = "sent" /\ thread'[t].who = d
        /\ thread'[t].todo = thread[t].todo \ {d}
        /\ thread'[t].heard = thread[t].heard \cup {d}
        /\ thread'[t].from = thread[t].from /\ thread[t].pc = "cast"
    BY <1>17, SendingDoes DEF KeepsOn
  <2>2. Listeners(t)' = Listeners(t)
    BY <2>1 DEF Listeners
  <2>3. CastOf(t)
    BY DEF IInv, Broadcasts
  <2>4. CastOf(t)'
    BY <2>1, <2>2, <2>3 DEF CastOf, Casting
  <2> QED
    BY <2>1, <2>4, CastsRest
<1>18. ASSUME NEW t \in Worker, SendEnd(t) PROVE Broadcasts'
  <2>1. /\ OtherThreads(t) /\ UNCHANGED sector /\ Casting(t)
        /\ thread'[t].from = thread[t].from /\ thread'[t].todo = thread[t].todo
        /\ thread'[t].heard = thread[t].heard
        /\ thread'[t].who = thread[t].who /\ thread[t].pc = "sent"
    BY <1>18, SendEndDoes DEF Lowers, Closes, GoesTo, Casting
  <2> QED
    BY <2>1, CastGoesOn, CastsRest
<1>19. ASSUME NEW t \in Worker, UnlockAll(t) PROVE Broadcasts'
  <2>1. OtherThreads(t) /\ UNCHANGED sector /\ ~Casting(t)'
    BY <1>19, UnlockAllDoes DEF GoesTo, Casting, Closing
  <2> QED
    BY <2>1, CastsRest DEF CastOf
<1>20. ASSUME NEW t \in Worker, OnDisConnect(t) PROVE Broadcasts'
  <2>1. /\ OtherThreads(t) /\ UNCHANGED sector
        /\ Casting(t)' => Casting(t)
        /\ Casting(t)' =>
              /\ thread'[t].from = thread[t].from
              /\ thread'[t].todo = thread[t].todo
              /\ thread'[t].heard = thread[t].heard
              /\ thread'[t].pc # "cast" =>
                    /\ thread[t].pc = "ondisconnect"
                    /\ thread'[t].who = thread[t].who
    BY <1>20, OnDisConnectDoes, Typed, Fields
    DEF GoesBack, GoesIdle, GoesTo, Casting, Closing
  <2>2. CastOf(t)'
    BY <2>1, CastGoesOn DEF CastOf
  <2> QED
    BY <2>1, <2>2, CastsRest
<1>21. ASSUME NEW t \in Worker, LeaveSector(t) PROVE Broadcasts'
  <2>1. /\ OtherThreads(t) /\ thread[t].pc = "leavesector"
        /\ thread'[t].pc = "deletekey" /\ thread'[t].who = thread[t].who
        /\ thread'[t].from = thread[t].from /\ thread'[t].todo = thread[t].todo
        /\ thread'[t].heard = thread[t].heard /\ thread'[t].ret = thread[t].ret
    BY <1>21, LeaveSectorDoes DEF GoesTo
  <2>2. \A q \in Sector :
           /\ sector'[q] # sector[q] => owner[q] \in {Nobody, t}
           /\ sector'[q] \in {sector[q], sector[q] \ {thread[t].who}}
    BY <1>21, LeaveSectorDoes, Typed DEF CanLock
  <2>3. Around(thread[t].from) \subseteq Sector
    BY Typed, Fields, Neighbours
  <2>4. /\ Listeners(t)' \subseteq Listeners(t)
        /\ Listeners(t) \ {thread[t].who} \subseteq Listeners(t)'
    BY <2>1, <2>2, <2>3 DEF Listeners
  <2>5. CastOf(t)
    BY DEF IInv, Broadcasts
  <2>6. CastOf(t)'
    BY <2>1, <2>4, <2>5 DEF CastOf, Casting, Closing
  <2> QED
    BY <2>1, <2>2, <2>6, CastsRest
<1>22. ASSUME NEW t \in Worker, DeleteID(t) PROVE Broadcasts'
  <2>1. /\ OtherThreads(t) /\ UNCHANGED sector
        /\ Casting(t)' => Casting(t)
        /\ Casting(t)' =>
              /\ thread'[t].from = thread[t].from
              /\ thread'[t].todo = thread[t].todo
              /\ thread'[t].heard = thread[t].heard
              /\ thread'[t].pc # "cast" =>
                    /\ thread[t].pc = "ondisconnect"
                    /\ thread'[t].who = thread[t].who
    BY <1>22, DeleteIDDoes, Typed, Fields
    DEF GoesBack, GoesIdle, GoesTo, Casting, Closing
  <2>2. CastOf(t)'
    BY <2>1, CastGoesOn DEF CastOf
  <2> QED
    BY <2>1, <2>2, CastsRest
<1>23. ASSUME UNCHANGED server PROVE Broadcasts'
  BY <1>23 DEF IInv, Broadcasts, CastOf, Casting, Closing, Listeners, server
<1> QED
  BY <1>1, <1>2, <1>3, <1>4, <1>5, <1>6, <1>7, <1>8, <1>9, <1>10, <1>11, <1>12,
     <1>13, <1>14, <1>15, <1>16, <1>17, <1>18, <1>19, <1>20, <1>21, <1>22,
     <1>23
  DEF Change

(* The key of an account is changed by the session it belongs to.          *)
LEMMA LoggingSame ==
    ASSUME NEW t, OtherThreads(t),
           t \in Worker => thread[t].pc # "login" /\ thread'[t].pc # "login"
    PROVE  \A s \in Slot : Logging(s)' <=> Logging(s)
  BY DEF Logging, OtherThreads

LEMMA KeysRest ==
    ASSUME IInv, NEW t, OtherThreads(t), UNCHANGED keys,
           t \in Worker => thread[t].pc # "login" /\ thread'[t].pc # "login",
           NEW s \in Slot, OtherSess(s), OtherPlayers(s), KeyOf(s)',
           nextID' \in {nextID, nextID + 1}
    PROVE  KeysHeld'
  <1>1. ASSUME NEW r \in Slot, r # s PROVE KeyOf(r)'
    <2>1. KeyOf(r) /\ (Logging(r)' <=> Logging(r))
      BY LoggingSame DEF IInv, KeysHeld
    <2> QED
      BY <1>1, <2>1 DEF KeyOf, OtherSess, OtherPlayers
  <1>2. \A a \in Account : a >= nextID' => keys[a] = NoID
    BY Typed DEF IInv, KeysHeld, Account
  <1> QED
    BY <1>1, <1>2 DEF KeysHeld

LEMMA KeysSame ==
    ASSUME IInv, NEW t, OtherThreads(t),
           UNCHANGED <<sess, player, keys, nextID>>,
           t \in Worker => thread[t].pc # "login" /\ thread'[t].pc # "login"
    PROVE  KeysHeld'
  BY LoggingSame DEF IInv, KeysHeld, KeyOf

LEMMA KeysKept ==
    ASSUME ~Shared, IInv, Change
    PROVE  KeysHeld'
<1>1. ASSUME NEW s \in Slot, OnAccept(s) PROVE KeysHeld'
  <2>1. /\ OtherThreads(Nobody) /\ OtherSess(s) /\ OtherPlayers(s)
        /\ UNCHANGED keys /\ nextID' = nextID + 1
        /\ sess'[s].id = nextID /\ player'[s].status = "SESSION"
    BY <1>1, OnAcceptDoes DEF OtherThreads
  <2>2. \A u \in Worker : thread'[u] = thread[u]
    BY <1>1, OnAcceptDoes
  <2>3. ~Logging(s)'
    <3>1. \A u \in Worker : thread[u].pc = "login" => thread[u].me # s
      BY <1>1, OnAcceptDoes, Apart DEF Handling
    <3> QED
      BY <2>2, <3>1 DEF Logging
  <2>4. keys[nextID] = NoID
    <3>1. nextID \in Account
      BY <1>1, OnAcceptDoes, Typed, ChatMultiAssumption DEF Account
    <3>2. nextID >= nextID
      BY <3>1 DEF Account
    <3> QED
      BY <3>1, <3>2 DEF IInv, KeysHeld
  <2>5. KeyOf(s)'
    BY <2>1, <2>3, <2>4 DEF KeyOf
  <2> QED
    BY <2>1, <2>5, KeysRest, ChatMultiAssumption
<1>2. ASSUME NEW s \in Slot, ClientLeaves(s) PROVE KeysHeld'
  <2>1. /\ OtherThreads(Nobody) /\ OtherSess(s) /\ OtherPlayers(s)
        /\ s \in Slot /\ UNCHANGED keys
    BY <1>2, ClientLeavesDoes
    DEF Takes, Lowers, Closes, GoesIdle, GoesTo, GoesBack, KeepsOn,
        OtherThreads, SameSess, OtherSess, OtherPlayers, Erases
  <2>2. KeyOf(s) /\ (Logging(s)' <=> Logging(s))
    BY <2>1, LoggingSame, ChatMultiAssumption DEF IInv, KeysHeld
  <2>3. KeyOf(s)'
    BY <1>2, <2>1, <2>2, ClientLeavesDoes DEF KeyOf, SameSess
  <2> QED
    BY <1>2, <2>1, <2>3, ClientLeavesDoes, KeysRest, ChatMultiAssumption
<1>3. ASSUME NEW t \in Worker, NEW s \in Slot, TakeFailed(t, s) PROVE KeysHeld'
  <2>1. /\ OtherThreads(t) /\ OtherSess(s) /\ OtherPlayers(s)
        /\ s \in Slot /\ UNCHANGED keys
        /\ thread[t].pc # "login" /\ thread'[t].pc # "login"
    BY <1>3, TakeFailedDoes
    DEF Takes, Lowers, Closes, GoesIdle, GoesTo, GoesBack, KeepsOn,
        OtherThreads, SameSess, OtherSess, OtherPlayers, Erases
  <2>2. KeyOf(s) /\ (Logging(s)' <=> Logging(s))
    BY <2>1, LoggingSame DEF IInv, KeysHeld
  <2>3. KeyOf(s)'
    BY <1>3, <2>1, <2>2, TakeFailedDoes DEF KeyOf, Lowers
  <2> QED
    BY <1>3, <2>1, <2>3, TakeFailedDoes, KeysRest
<1>4. ASSUME NEW t \in Worker, NEW s \in Slot, HandleBadMessage(t, s)
      PROVE  KeysHeld'
  <2>1. /\ OtherThreads(t) /\ OtherSess(s) /\ OtherPlayers(s)
        /\ s \in Slot /\ UNCHANGED keys
        /\ thread[t].pc # "login" /\ thread'[t].pc # "login"
    BY <1>4, BadMessageDoes
    DEF Takes, Lowers, Closes, GoesIdle, GoesTo, GoesBack, KeepsOn,
        OtherThreads, SameSess, OtherSess, OtherPlayers, Erases
  <2>2. KeyOf(s) /\ (Logging(s)' <=> Logging(s))
    BY <2>1, LoggingSame DEF IInv, KeysHeld
  <2>3. KeyOf(s)'
    BY <1>4, <2>1, <2>2, BadMessageDoes DEF KeyOf, Takes, SameSess
  <2> QED
    BY <1>4, <2>1, <2>3, BadMessageDoes, KeysRest
<1>5. ASSUME NEW t \in Worker, NEW s \in Slot, HandleLoginMessage(t, s)
      PROVE  KeysHeld'
  <2>1. /\ OtherThreads(t) /\ OtherSess(s) /\ OtherPlayers(s)
        /\ s \in Slot /\ UNCHANGED keys
        /\ thread[t].pc # "login" /\ thread'[t].pc # "login"
    BY <1>5, LoginMessageDoes
    DEF Takes, Lowers, Closes, GoesIdle, GoesTo, GoesBack, KeepsOn,
        OtherThreads, SameSess, OtherSess, OtherPlayers, Erases
  <2>2. KeyOf(s) /\ (Logging(s)' <=> Logging(s))
    BY <2>1, LoggingSame DEF IInv, KeysHeld
  <2>3. KeyOf(s)'
    BY <1>5, <2>1, <2>2, LoginMessageDoes DEF KeyOf, Takes, SameSess
  <2> QED
    BY <1>5, <2>1, <2>3, LoginMessageDoes, KeysRest
<1>6. ASSUME NEW t \in Worker, NEW s \in Slot, NEW p \in Sector,
             HandleFirstMove(t, s, p) PROVE KeysHeld'
  <2>1. /\ OtherThreads(t) /\ OtherSess(s) /\ OtherPlayers(s)
        /\ s \in Slot /\ UNCHANGED keys
        /\ thread[t].pc # "login" /\ thread'[t].pc # "login"
    BY <1>6, FirstMoveDoes
    DEF Takes, Lowers, Closes, GoesIdle, GoesTo, GoesBack, KeepsOn,
        OtherThreads, SameSess, OtherSess, OtherPlayers, Erases
  <2>2. KeyOf(s) /\ (Logging(s)' <=> Logging(s))
    BY <2>1, LoggingSame DEF IInv, KeysHeld
  <2>3. KeyOf(s)'
    BY <1>6, <2>1, <2>2, FirstMoveDoes DEF KeyOf, Takes, SameSess
  <2> QED
    BY <1>6, <2>1, <2>3, FirstMoveDoes, KeysRest
<1>7. ASSUME NEW t \in Worker, NEW s \in Slot, NEW p \in Sector,
             HandleSectorMoveMessage(t, s, p) PROVE KeysHeld'
  <2>1. /\ OtherThreads(t) /\ OtherSess(s) /\ OtherPlayers(s)
        /\ s \in Slot /\ UNCHANGED keys
        /\ thread[t].pc # "login" /\ thread'[t].pc # "login"
    BY <1>7, SectorMoveDoes
    DEF Takes, Lowers, Closes, GoesIdle, GoesTo, GoesBack, KeepsOn,
        OtherThreads, SameSess, OtherSess, OtherPlayers, Erases
  <2>2. KeyOf(s) /\ (Logging(s)' <=> Logging(s))
    BY <2>1, LoggingSame DEF IInv, KeysHeld
  <2>3. KeyOf(s)'
    BY <1>7, <2>1, <2>2, SectorMoveDoes DEF KeyOf, Takes, SameSess
  <2> QED
    BY <1>7, <2>1, <2>3, SectorMoveDoes, KeysRest
<1>8. ASSUME NEW t \in Worker, NEW s \in Slot, HandleChatMessage(t, s)
      PROVE  KeysHeld'
  <2>1. /\ OtherThreads(t) /\ OtherSess(s) /\ OtherPlayers(s)
        /\ s \in Slot /\ UNCHANGED keys
        /\ thread[t].pc # "login" /\ thread'[t].pc # "login"
    BY <1>8, ChatMessageDoes
    DEF Takes, Lowers, Closes, GoesIdle, GoesTo, GoesBack, KeepsOn,
        OtherThreads, SameSess, OtherSess, OtherPlayers, Erases
  <2>2. KeyOf(s) /\ (Logging(s)' <=> Logging(s))
    BY <2>1, LoggingSame DEF IInv, KeysHeld
  <2>3. KeyOf(s)'
    BY <1>8, <2>1, <2>2, ChatMessageDoes DEF KeyOf, Takes, SameSess
  <2> QED
    BY <1>8, <2>1, <2>3, ChatMessageDoes, KeysRest
<1>9. ASSUME NEW t \in Worker, Finish(t) PROVE KeysHeld'
  <2>s. PICK s \in Slot : s = thread[t].me
    BY <1>9, FinishDoes
  <2>1. /\ OtherThreads(t) /\ OtherSess(s) /\ OtherPlayers(s)
        /\ s \in Slot /\ UNCHANGED keys
        /\ thread[t].pc # "login" /\ thread'[t].pc # "login"
    BY <1>9, FinishDoes, <2>s
    DEF Takes, Lowers, Closes, GoesIdle, GoesTo, GoesBack, KeepsOn,
        OtherThreads, SameSess, OtherSess, OtherPlayers, Erases
  <2>2. KeyOf(s) /\ (Logging(s)' <=> Logging(s))
    BY <2>1, LoggingSame DEF IInv, KeysHeld
  <2>3. KeyOf(s)'
    BY <1>9, <2>1, <2>2, FinishDoes, <2>s DEF KeyOf, Lowers, SameSess
  <2> QED
    BY <1>9, <2>1, <2>3, FinishDoes, KeysRest
<1>10. ASSUME NEW t \in Worker, Inserts(t) PROVE KeysHeld'
  <2>s. PICK s \in Slot : s = thread[t].me
    BY <1>10, InsertsDoes
  <2>1. /\ thread[t].pc = "insert" /\ OtherThreads(t) /\ thread'[t].me = s
        /\ thread'[t].pc = "login" /\ UNCHANGED <<sess, player, nextID>>
    BY <1>10, <2>s, InsertsDoes DEF GoesTo
  <2>2. /\ sess[s].id \in Account
        /\ keys'[sess[s].id] = [id |-> sess[s].id, slot |-> s]
        /\ \A a \in Account : a # sess[s].id => keys'[a] = keys[a]
    BY <1>10, <2>s, InsertsDoes
  <2>4. Logging(s)'
    BY <2>1 DEF Logging
  <2>5. KeyOf(s)'
    BY <2>1, <2>2, <2>4 DEF KeyOf
  <2>6. ASSUME NEW r \in Slot, r # s, sess[r].id # 0
        PROVE  sess[r].id # sess[s].id /\ sess[r].id \in Account
    BY <2>6, Typed, Fields DEF IInv, Sessions, Account
  <2>7. ASSUME NEW r \in Slot, r # s PROVE KeyOf(r)'
    <3>1. KeyOf(r)
      BY DEF IInv, KeysHeld
    <3>2. Logging(r)' <=> Logging(r)
      BY <2>s, <2>1, <2>7 DEF Logging, OtherThreads
    <3>3. Logging(r) => sess[r].id # 0
      BY Me DEF Logging, Handling
    <3>4. player[r].status # "IDLE" => sess[r].id # 0
      BY DEF IInv, Sessions, SessionOf
    <3>5. sess[r].id # 0 => keys'[sess[r].id] = keys[sess[r].id]
      BY <2>2, <2>6, <2>7
    <3> QED
      BY <2>1, <3>1, <3>2, <3>3, <3>4, <3>5 DEF KeyOf
  <2>8. ASSUME NEW a \in Account, a >= nextID PROVE keys'[a] = NoID
    <3>1. sess[s].id < nextID
      BY DEF IInv, Sessions, SessionOf
    <3>2. a # sess[s].id
      BY <2>8, <3>1, Typed, Fields, ChatMultiAssumption
    <3> QED
      BY <2>2, <2>8, <3>2 DEF IInv, KeysHeld
  <2> QED
    BY <2>1, <2>5, <2>7, <2>8 DEF KeysHeld
<1>11. ASSUME NEW t \in Worker, Login(t) PROVE KeysHeld'
  <2>s. PICK s \in Slot : s = thread[t].me
    BY <1>11, LoginDoes
  <2>1. /\ thread[t].pc = "login" /\ OtherThreads(t)
        /\ thread'[t].pc = "finish" /\ UNCHANGED <<keys, nextID>>
        /\ OtherSess(s) /\ OtherPlayers(s) /\ sess'[s].id = sess[s].id
        /\ player'[s].status = "PENDING_SECTOR"
    BY <1>11, <2>s, LoginDoes DEF GoesTo, OtherSess, OtherPlayers, SameSess
  <2>2. KeyOf(s) /\ Logging(s)
    BY <2>s, <2>1 DEF IInv, KeysHeld, Logging
  <2>3. KeyOf(s)'
    BY <2>1, <2>2 DEF KeyOf
  <2>4. ASSUME NEW r \in Slot, r # s PROVE KeyOf(r)'
    <3>1. KeyOf(r)
      BY DEF IInv, KeysHeld
    <3>2. Logging(r)' <=> Logging(r)
      BY <2>s, <2>1, <2>4 DEF Logging, OtherThreads
    <3> QED
      BY <2>1, <2>4, <3>1, <3>2 DEF KeyOf, OtherSess, OtherPlayers
  <2> QED
    BY <2>1, <2>3, <2>4 DEF IInv, KeysHeld
<1>12. ASSUME NEW t \in Worker, BadName(t) PROVE KeysHeld'
  <2>s. PICK s \in Slot : s = thread[t].me
    BY <1>12, BadNameDoes
  <2>1. /\ thread[t].pc = "login" /\ OtherThreads(t)
        /\ thread'[t].pc = "finish" /\ UNCHANGED <<keys, nextID>>
        /\ OtherSess(s) /\ OtherPlayers(s) /\ sess'[s].id = sess[s].id
        /\ sess'[s].marked
    BY <1>12, <2>s, BadNameDoes DEF GoesTo, OtherSess, OtherPlayers, SameSess
  <2>2. KeyOf(s) /\ Logging(s)
    BY <2>s, <2>1 DEF IInv, KeysHeld, Logging
  <2>3. KeyOf(s)'
    BY <2>1, <2>2 DEF KeyOf
  <2>4. ASSUME NEW r \in Slot, r # s PROVE KeyOf(r)'
    <3>1. KeyOf(r)
      BY DEF IInv, KeysHeld
    <3>2. Logging(r)' <=> Logging(r)
      BY <2>s, <2>1, <2>4 DEF Logging, OtherThreads
    <3> QED
      BY <2>1, <2>4, <3>1, <3>2 DEF KeyOf, OtherSess, OtherPlayers
  <2> QED
    BY <2>1, <2>3, <2>4 DEF IInv, KeysHeld
<1>13. ASSUME NEW t \in Worker, EnterSector(t) PROVE KeysHeld'
  BY <1>13, EnterSectorDoes, KeysSame DEF GoesTo
<1>14. ASSUME NEW t \in Worker, NEW l \in thread[t].todo, Locking(t, l)
      PROVE  KeysHeld'
  BY <1>14, LockingDoes, KeysSame DEF KeepsOn
<1>15. ASSUME NEW t \in Worker, SyncSector(t) PROVE KeysHeld'
  BY <1>15, SyncSectorDoes, KeysSame DEF GoesTo
<1>16. ASSUME NEW t \in Worker, Listen(t) PROVE KeysHeld'
  BY <1>16, ListenDoes, KeysSame DEF KeepsOn
<1>17. ASSUME NEW t \in Worker, NEW d \in thread[t].todo, Sending(t, d)
      PROVE  KeysHeld'
  <2>1. /\ OtherThreads(t) /\ OtherSess(d) /\ OtherPlayers(d)
        /\ d \in Slot /\ UNCHANGED keys
        /\ thread[t].pc # "login" /\ thread'[t].pc # "login"
    BY <1>17, SendingDoes
    DEF Takes, Lowers, Closes, GoesIdle, GoesTo, GoesBack, KeepsOn,
        OtherThreads, SameSess, OtherSess, OtherPlayers, Erases
  <2>2. KeyOf(d) /\ (Logging(d)' <=> Logging(d))
    BY <2>1, LoggingSame DEF IInv, KeysHeld
  <2>3. KeyOf(d)'
    BY <1>17, <2>1, <2>2, SendingDoes DEF KeyOf, SameSess
  <2> QED
    BY <1>17, <2>1, <2>3, SendingDoes, KeysRest
<1>18. ASSUME NEW t \in Worker, SendEnd(t) PROVE KeysHeld'
  <2>s. PICK s \in Slot : s = thread[t].who
    BY <1>18, SendEndDoes
  <2>1. /\ OtherThreads(t) /\ OtherSess(s) /\ OtherPlayers(s)
        /\ s \in Slot /\ UNCHANGED keys
        /\ thread[t].pc # "login" /\ thread'[t].pc # "login"
    BY <1>18, SendEndDoes, <2>s
    DEF Takes, Lowers, Closes, GoesIdle, GoesTo, GoesBack, KeepsOn,
        OtherThreads, SameSess, OtherSess, OtherPlayers, Erases
  <2>2. KeyOf(s) /\ (Logging(s)' <=> Logging(s))
    BY <2>1, LoggingSame DEF IInv, KeysHeld
  <2>3. KeyOf(s)'
    BY <1>18, <2>1, <2>2, SendEndDoes, <2>s DEF KeyOf, Lowers
  <2> QED
    BY <1>18, <2>1, <2>3, SendEndDoes, KeysRest
<1>19. ASSUME NEW t \in Worker, UnlockAll(t) PROVE KeysHeld'
  BY <1>19, UnlockAllDoes, KeysSame DEF GoesTo
<1>20. ASSUME NEW t \in Worker, OnDisConnect(t) PROVE KeysHeld'
  <2>s. PICK s \in Slot : s = thread[t].who
    BY <1>20, OnDisConnectDoes
  <2>1. /\ thread[t].pc = "ondisconnect" /\ OtherThreads(t)
        /\ thread'[t].pc # "login" /\ UNCHANGED <<nextID, keys>>
    BY <1>20, OnDisConnectDoes, Typed, Fields DEF GoesBack, GoesIdle, GoesTo
  <2>2. CASE UNCHANGED <<player, sess>>
    BY <2>1, <2>2, KeysSame
  <2>3. CASE Erases(s)
    <3>1. \A u \in Worker : thread[u].pc = "login" => thread[u].me # s
      BY <2>s, <2>1, Who, Apart DEF Closing, Handling
    <3>2. ~Logging(s)'
      BY <2>1, <3>1 DEF Logging, OtherThreads
    <3>3. KeyOf(s)' /\ OtherSess(s) /\ OtherPlayers(s)
      BY <2>3, <3>2 DEF KeyOf, Erases
    <3> QED
      BY <2>1, <3>3, KeysRest
  <2> QED
    BY <1>20, <2>s, <2>2, <2>3, OnDisConnectDoes
<1>21. ASSUME NEW t \in Worker, LeaveSector(t) PROVE KeysHeld'
  BY <1>21, LeaveSectorDoes, KeysSame DEF GoesTo
<1>22. ASSUME NEW t \in Worker, DeleteID(t) PROVE KeysHeld'
  <2>s. PICK s \in Slot : s = thread[t].who
    BY <1>22, DeleteIDDoes
  <2>1. /\ thread[t].pc = "deletekey" /\ OtherThreads(t)
        /\ thread'[t].pc # "login" /\ Erases(s) /\ UNCHANGED nextID
    BY <1>22, <2>s, DeleteIDDoes, Typed, Fields DEF GoesBack, GoesIdle, GoesTo
  <2>2. /\ sess[s].id \in Account /\ keys'[sess[s].id] = NoID
        /\ \A a \in Account : a # sess[s].id => keys'[a] = keys[a]
    BY <1>22, <2>s, DeleteIDDoes
  <2>3. \A u \in Worker : thread[u].pc = "login" => thread[u].me # s
    BY <2>s, <2>1, Who, Apart DEF Closing, Handling
  <2>4. ~Logging(s)'
    BY <2>1, <2>3 DEF Logging, OtherThreads
  <2>5. KeyOf(s)'
    BY <2>1, <2>4 DEF KeyOf, Erases
  <2>6. ASSUME NEW r \in Slot, r # s, sess[r].id # 0
        PROVE  sess[r].id # sess[s].id /\ sess[r].id \in Account
    BY <2>6, Typed, Fields DEF IInv, Sessions, Account
  <2>7. ASSUME NEW r \in Slot, r # s PROVE KeyOf(r)'
    <3>1. KeyOf(r) /\ (Logging(r)' <=> Logging(r))
      BY <2>1, LoggingSame DEF IInv, KeysHeld
    <3>2. sess'[r] = sess[r] /\ player'[r] = player[r]
      BY <2>1, <2>7 DEF Erases, OtherSess, OtherPlayers
    <3>3. Logging(r) => sess[r].id # 0
      BY Me DEF Logging, Handling
    <3>4. player[r].status # "IDLE" => sess[r].id # 0
      BY DEF IInv, Sessions, SessionOf
    <3>5. sess[r].id # 0 => keys'[sess[r].id] = keys[sess[r].id]
      BY <2>2, <2>6, <2>7
    <3> QED
      BY <3>1, <3>2, <3>3, <3>4, <3>5 DEF KeyOf
  <2>8. \A a \in Account : a >= nextID => keys'[a] = NoID
    BY <2>2 DEF IInv, KeysHeld
  <2> QED
    BY <2>1, <2>5, <2>7, <2>8 DEF KeysHeld
<1>23. ASSUME UNCHANGED server PROVE KeysHeld'
  BY <1>23 DEF IInv, KeysHeld, KeyOf, Logging, server
<1> QED
  BY <1>1, <1>2, <1>3, <1>4, <1>5, <1>6, <1>7, <1>8, <1>9, <1>10, <1>11, <1>12,
     <1>13, <1>14, <1>15, <1>16, <1>17, <1>18, <1>19, <1>20, <1>21, <1>22,
     <1>23
  DEF Change

(* g_PlayerLogInCount follows the players.                                 *)
Leaving(t) == thread[t].pc \in {"leavesector", "deletekey"}

LEMMA PlayersFinite ==
    /\ IsFiniteSet(Players) /\ Cardinality(Players) \in Nat
    /\ Cardinality(Players) <= Cardinality(Slot)
  <1>1. Players \subseteq Slot
    BY DEF Players
  <1> QED
    BY <1>1, ChatMultiAssumption, FS_Subset, FS_CardinalityType

LEMMA PlayersSame ==
    ASSUME IInv, NEW t, OtherThreads(t), UNCHANGED loggedIn,
           t \in Worker => ~Leaving(t) /\ ~Leaving(t)',
           \A s \in Slot :
              player'[s].status \in {"PENDING_SECTOR", "PLAYER"} <=>
                 player[s].status \in {"PENDING_SECTOR", "PLAYER"}
    PROVE  Logged'
  <1>1. \A u \in Worker, s \in Slot :
           thread'[u].who = s /\ Leaving(u)' <=>
              thread[u].who = s /\ Leaving(u)
    BY DEF Leaving, OtherThreads
  <1>2. Players' = Players
    BY <1>1 DEF Players, Leaving
  <1> QED
    BY <1>2 DEF IInv, Logged

LEMMA PlayerGoes ==
    ASSUME IInv, NEW s \in Players, loggedIn' = loggedIn - 1,
           Players' = Players \ {s}
    PROVE  Logged'
  BY PlayersFinite, FS_RemoveElement DEF IInv, Logged

LEMMA LoggedKept ==
    ASSUME ~Shared, IInv, Change
    PROVE  Logged'
<1>1. ASSUME NEW s \in Slot, OnAccept(s) PROVE Logged'
  <2>1. OtherThreads(Nobody) /\ UNCHANGED loggedIn
    BY <1>1, OnAcceptDoes DEF OtherThreads
  <2>2. \A r \in Slot :
           player'[r].status \in {"PENDING_SECTOR", "PLAYER"} <=>
              player[r].status \in {"PENDING_SECTOR", "PLAYER"}
    BY <1>1, OnAcceptDoes DEF OtherPlayers, IInv, Sessions, SessionOf
  <2> QED
    BY <2>1, <2>2, PlayersSame, ChatMultiAssumption
<1>2. ASSUME NEW s \in Slot, ClientLeaves(s) PROVE Logged'
  <2>1. OtherThreads(Nobody) /\ UNCHANGED loggedIn
    BY <1>2, ClientLeavesDoes DEF OtherThreads
  <2>2. \A r \in Slot :
           player'[r].status \in {"PENDING_SECTOR", "PLAYER"} <=>
              player[r].status \in {"PENDING_SECTOR", "PLAYER"}
    BY <1>2, ClientLeavesDoes
  <2> QED
    BY <2>1, <2>2, PlayersSame, ChatMultiAssumption
<1>3. ASSUME NEW t \in Worker, NEW s \in Slot, TakeFailed(t, s) PROVE Logged'
  <2>1. OtherThreads(t) /\ UNCHANGED loggedIn /\ ~Leaving(t) /\ ~Leaving(t)'
    BY <1>3, TakeFailedDoes
    DEF Takes, Lowers, Closes, GoesIdle, GoesTo, KeepsOn, Leaving
  <2>2. \A r \in Slot :
           player'[r].status \in {"PENDING_SECTOR", "PLAYER"} <=>
              player[r].status \in {"PENDING_SECTOR", "PLAYER"}
    BY <1>3, TakeFailedDoes
  <2> QED
    BY <2>1, <2>2, PlayersSame
<1>4. ASSUME NEW t \in Worker, NEW s \in Slot, HandleBadMessage(t, s)
      PROVE  Logged'
  <2>1. OtherThreads(t) /\ UNCHANGED loggedIn /\ ~Leaving(t) /\ ~Leaving(t)'
    BY <1>4, BadMessageDoes
    DEF Takes, Lowers, Closes, GoesIdle, GoesTo, KeepsOn, Leaving
  <2>2. \A r \in Slot :
           player'[r].status \in {"PENDING_SECTOR", "PLAYER"} <=>
              player[r].status \in {"PENDING_SECTOR", "PLAYER"}
    BY <1>4, BadMessageDoes
  <2> QED
    BY <2>1, <2>2, PlayersSame
<1>5. ASSUME NEW t \in Worker, NEW s \in Slot, HandleLoginMessage(t, s)
      PROVE  Logged'
  <2>1. OtherThreads(t) /\ UNCHANGED loggedIn /\ ~Leaving(t) /\ ~Leaving(t)'
    BY <1>5, LoginMessageDoes
    DEF Takes, Lowers, Closes, GoesIdle, GoesTo, KeepsOn, Leaving
  <2>2. \A r \in Slot :
           player'[r].status \in {"PENDING_SECTOR", "PLAYER"} <=>
              player[r].status \in {"PENDING_SECTOR", "PLAYER"}
    BY <1>5, LoginMessageDoes
  <2> QED
    BY <2>1, <2>2, PlayersSame
<1>6. ASSUME NEW t \in Worker, NEW s \in Slot, NEW p \in Sector,
             HandleFirstMove(t, s, p) PROVE Logged'
  <2>1. OtherThreads(t) /\ UNCHANGED loggedIn /\ ~Leaving(t) /\ ~Leaving(t)'
    BY <1>6, FirstMoveDoes
    DEF Takes, Lowers, Closes, GoesIdle, GoesTo, KeepsOn, Leaving
  <2>2. \A r \in Slot :
           player'[r].status \in {"PENDING_SECTOR", "PLAYER"} <=>
              player[r].status \in {"PENDING_SECTOR", "PLAYER"}
    BY <1>6, FirstMoveDoes DEF OtherPlayers
  <2> QED
    BY <2>1, <2>2, PlayersSame
<1>7. ASSUME NEW t \in Worker, NEW s \in Slot, NEW p \in Sector,
             HandleSectorMoveMessage(t, s, p) PROVE Logged'
  <2>1. OtherThreads(t) /\ UNCHANGED loggedIn /\ ~Leaving(t) /\ ~Leaving(t)'
    BY <1>7, SectorMoveDoes
    DEF Takes, Lowers, Closes, GoesIdle, GoesTo, KeepsOn, Leaving
  <2>2. \A r \in Slot :
           player'[r].status \in {"PENDING_SECTOR", "PLAYER"} <=>
              player[r].status \in {"PENDING_SECTOR", "PLAYER"}
    BY <1>7, SectorMoveDoes DEF OtherPlayers
  <2> QED
    BY <2>1, <2>2, PlayersSame
<1>8. ASSUME NEW t \in Worker, NEW s \in Slot, HandleChatMessage(t, s)
      PROVE  Logged'
  <2>1. OtherThreads(t) /\ UNCHANGED loggedIn /\ ~Leaving(t) /\ ~Leaving(t)'
    BY <1>8, ChatMessageDoes
    DEF Takes, Lowers, Closes, GoesIdle, GoesTo, KeepsOn, Leaving
  <2>2. \A r \in Slot :
           player'[r].status \in {"PENDING_SECTOR", "PLAYER"} <=>
              player[r].status \in {"PENDING_SECTOR", "PLAYER"}
    BY <1>8, ChatMessageDoes
  <2> QED
    BY <2>1, <2>2, PlayersSame
<1>9. ASSUME NEW t \in Worker, Finish(t) PROVE Logged'
  <2>1. OtherThreads(t) /\ UNCHANGED loggedIn /\ ~Leaving(t) /\ ~Leaving(t)'
    BY <1>9, FinishDoes
    DEF Takes, Lowers, Closes, GoesIdle, GoesTo, KeepsOn, Leaving
  <2>2. \A r \in Slot :
           player'[r].status \in {"PENDING_SECTOR", "PLAYER"} <=>
              player[r].status \in {"PENDING_SECTOR", "PLAYER"}
    BY <1>9, FinishDoes
  <2> QED
    BY <2>1, <2>2, PlayersSame
<1>10. ASSUME NEW t \in Worker, Inserts(t) PROVE Logged'
  <2>1. OtherThreads(t) /\ UNCHANGED loggedIn /\ ~Leaving(t) /\ ~Leaving(t)'
    BY <1>10, InsertsDoes DEF GoesTo, Leaving
  <2>2. \A r \in Slot :
           player'[r].status \in {"PENDING_SECTOR", "PLAYER"} <=>
              player[r].status \in {"PENDING_SECTOR", "PLAYER"}
    BY <1>10, InsertsDoes
  <2> QED
    BY <2>1, <2>2, PlayersSame
<1>11. ASSUME NEW t \in Worker, Login(t) PROVE Logged'
  <2>s. PICK s \in Slot : s = thread[t].me
    BY <1>11, LoginDoes
  <2>1. /\ thread[t].pc = "login" /\ thread'[t].pc = "finish"
        /\ OtherThreads(t) /\ OtherPlayers(s)
        /\ player'[s].status = "PENDING_SECTOR" /\ loggedIn' = loggedIn + 1
    BY <1>11, <2>s, LoginDoes DEF GoesTo
  <2>2. s \notin Players
    BY <2>s, <2>1 DEF IInv, Places, PlaceOf, Players
  <2>3. \A u \in Worker : Leaving(u) => thread[u].who # s
    BY <2>s, <2>1, Me, Who DEF Handling, Closing, Leaving
  <2>4. \A u \in Worker : Leaving(u)' <=> Leaving(u)
    BY <2>1 DEF OtherThreads, Leaving
  <2>5. \A u \in Worker : Leaving(u) => thread'[u].who = thread[u].who
    BY <2>1 DEF OtherThreads, Leaving
  <2>6. Players' = Players \cup {s}
    BY <2>1, <2>3, <2>4, <2>5 DEF Players, Leaving, OtherPlayers
  <2> QED
    BY <2>1, <2>2, <2>6, PlayersFinite, FS_AddElement DEF IInv, Logged
<1>12. ASSUME NEW t \in Worker, BadName(t) PROVE Logged'
  <2>1. OtherThreads(t) /\ UNCHANGED loggedIn /\ ~Leaving(t) /\ ~Leaving(t)'
    BY <1>12, BadNameDoes
    DEF Takes, Lowers, Closes, GoesIdle, GoesTo, KeepsOn, Leaving
  <2>2. \A r \in Slot :
           player'[r].status \in {"PENDING_SECTOR", "PLAYER"} <=>
              player[r].status \in {"PENDING_SECTOR", "PLAYER"}
    BY <1>12, BadNameDoes
  <2> QED
    BY <2>1, <2>2, PlayersSame
<1>13. ASSUME NEW t \in Worker, EnterSector(t) PROVE Logged'
  <2>1. OtherThreads(t) /\ UNCHANGED loggedIn /\ ~Leaving(t) /\ ~Leaving(t)'
    BY <1>13, EnterSectorDoes
    DEF Takes, Lowers, Closes, GoesIdle, GoesTo, KeepsOn, Leaving
  <2>2. \A r \in Slot :
           player'[r].status \in {"PENDING_SECTOR", "PLAYER"} <=>
              player[r].status \in {"PENDING_SECTOR", "PLAYER"}
    BY <1>13, EnterSectorDoes
  <2> QED
    BY <2>1, <2>2, PlayersSame
<1>14. ASSUME NEW t \in Worker, NEW l \in thread[t].todo, Locking(t, l)
      PROVE  Logged'
  <2>1. OtherThreads(t) /\ UNCHANGED loggedIn /\ ~Leaving(t) /\ ~Leaving(t)'
    BY <1>14, LockingDoes
    DEF Takes, Lowers, Closes, GoesIdle, GoesTo, KeepsOn, Leaving
  <2>2. \A r \in Slot :
           player'[r].status \in {"PENDING_SECTOR", "PLAYER"} <=>
              player[r].status \in {"PENDING_SECTOR", "PLAYER"}
    BY <1>14, LockingDoes
  <2> QED
    BY <2>1, <2>2, PlayersSame
<1>15. ASSUME NEW t \in Worker, SyncSector(t) PROVE Logged'
  <2>1. OtherThreads(t) /\ UNCHANGED loggedIn /\ ~Leaving(t) /\ ~Leaving(t)'
    BY <1>15, SyncSectorDoes
    DEF Takes, Lowers, Closes, GoesIdle, GoesTo, KeepsOn, Leaving
  <2>2. \A r \in Slot :
           player'[r].status \in {"PENDING_SECTOR", "PLAYER"} <=>
              player[r].status \in {"PENDING_SECTOR", "PLAYER"}
    BY <1>15, SyncSectorDoes
  <2> QED
    BY <2>1, <2>2, PlayersSame
<1>16. ASSUME NEW t \in Worker, Listen(t) PROVE Logged'
  <2>1. OtherThreads(t) /\ UNCHANGED loggedIn /\ ~Leaving(t) /\ ~Leaving(t)'
    BY <1>16, ListenDoes
    DEF Takes, Lowers, Closes, GoesIdle, GoesTo, KeepsOn, Leaving
  <2>2. \A r \in Slot :
           player'[r].status \in {"PENDING_SECTOR", "PLAYER"} <=>
              player[r].status \in {"PENDING_SECTOR", "PLAYER"}
    BY <1>16, ListenDoes
  <2> QED
    BY <2>1, <2>2, PlayersSame
<1>17. ASSUME NEW t \in Worker, NEW d \in thread[t].todo, Sending(t, d)
      PROVE  Logged'
  <2>1. OtherThreads(t) /\ UNCHANGED loggedIn /\ ~Leaving(t) /\ ~Leaving(t)'
    BY <1>17, SendingDoes
    DEF Takes, Lowers, Closes, GoesIdle, GoesTo, KeepsOn, Leaving
  <2>2. \A r \in Slot :
           player'[r].status \in {"PENDING_SECTOR", "PLAYER"} <=>
              player[r].status \in {"PENDING_SECTOR", "PLAYER"}
    BY <1>17, SendingDoes
  <2> QED
    BY <2>1, <2>2, PlayersSame
<1>18. ASSUME NEW t \in Worker, SendEnd(t) PROVE Logged'
  <2>1. OtherThreads(t) /\ UNCHANGED loggedIn /\ ~Leaving(t) /\ ~Leaving(t)'
    BY <1>18, SendEndDoes
    DEF Takes, Lowers, Closes, GoesIdle, GoesTo, KeepsOn, Leaving
  <2>2. \A r \in Slot :
           player'[r].status \in {"PENDING_SECTOR", "PLAYER"} <=>
              player[r].status \in {"PENDING_SECTOR", "PLAYER"}
    BY <1>18, SendEndDoes
  <2> QED
    BY <2>1, <2>2, PlayersSame
<1>19. ASSUME NEW t \in Worker, UnlockAll(t) PROVE Logged'
  <2>1. OtherThreads(t) /\ UNCHANGED loggedIn /\ ~Leaving(t) /\ ~Leaving(t)'
    BY <1>19, UnlockAllDoes
    DEF Takes, Lowers, Closes, GoesIdle, GoesTo, KeepsOn, Leaving
  <2>2. \A r \in Slot :
           player'[r].status \in {"PENDING_SECTOR", "PLAYER"} <=>
              player[r].status \in {"PENDING_SECTOR", "PLAYER"}
    BY <1>19, UnlockAllDoes
  <2> QED
    BY <2>1, <2>2, PlayersSame
<1>20. ASSUME NEW t \in Worker, OnDisConnect(t) PROVE Logged'
  <2>s. PICK s \in Slot : s = thread[t].who
    BY <1>20, OnDisConnectDoes
  <2>1. /\ thread[t].pc = "ondisconnect" /\ OtherThreads(t)
        /\ thread'[t].pc # "deletekey"
    BY <1>20, OnDisConnectDoes, Typed, Fields DEF GoesBack, GoesIdle, GoesTo
  <2>2. \A u \in Worker : Leaving(u) => thread[u].who # s
    BY <2>s, <2>1 DEF IInv, Closers, Closing, Leaving
  <2>3. CASE player[s].status = "SESSION"
    <3>1. /\ thread'[t].pc \in {"idle", "cast"} /\ UNCHANGED loggedIn
          /\ OtherPlayers(s) /\ player'[s].status = "IDLE"
      BY <1>20, <2>s, <2>3, OnDisConnectDoes, Typed, Fields
      DEF GoesBack, GoesIdle, GoesTo, Erases
    <3> QED
      BY <2>1, <2>3, <3>1, PlayersSame DEF Leaving, OtherPlayers
  <2>4. CASE player[s].status \in {"PENDING_SECTOR", "PLAYER"}
    <3>1. s \in Players
      BY <2>2, <2>4 DEF Players, Leaving
    <3>2. \/ /\ thread'[t].pc \in {"idle", "cast"}
             /\ OtherPlayers(s) /\ player'[s].status = "IDLE"
          \/ /\ thread'[t].pc = "leavesector" /\ thread'[t].who = s
             /\ UNCHANGED player
      BY <1>20, <2>s, OnDisConnectDoes, Typed, Fields
      DEF GoesBack, GoesIdle, GoesTo, Erases
    <3>3. \A u \in Worker : u # t => thread'[u] = thread[u]
      BY <2>1 DEF OtherThreads
    <3>4. \A r \in Slot : r # s => (r \in Players' <=> r \in Players)
      BY <2>1, <3>2, <3>3 DEF Players, OtherPlayers
    <3>5. s \notin Players'
      BY <3>2 DEF Players
    <3>6. Players' = Players \ {s}
      BY <3>4, <3>5 DEF Players
    <3> QED
      BY <1>20, <2>s, <2>4, <3>1, <3>6, OnDisConnectDoes, PlayerGoes
  <2> QED
    BY <2>s, <2>1, <2>3, <2>4, Who, Typed, Fields DEF Closing
<1>21. ASSUME NEW t \in Worker, LeaveSector(t) PROVE Logged'
  <2>1. /\ thread[t].pc = "leavesector" /\ thread'[t].pc = "deletekey"
        /\ thread'[t].who = thread[t].who /\ OtherThreads(t)
        /\ UNCHANGED <<player, loggedIn>>
    BY <1>21, LeaveSectorDoes DEF GoesTo
  <2>2. \A u \in Worker :
           /\ thread'[u].who = thread[u].who /\ (Leaving(u)' <=> Leaving(u))
    BY <2>1 DEF OtherThreads, Leaving
  <2>3. Players' = Players
    BY <2>1, <2>2 DEF Players, Leaving
  <2> QED
    BY <2>1, <2>3 DEF IInv, Logged
<1>22. ASSUME NEW t \in Worker, DeleteID(t) PROVE Logged'
  <2>s. PICK s \in Slot : s = thread[t].who
    BY <1>22, DeleteIDDoes
  <2>1. /\ thread[t].pc = "deletekey" /\ thread'[t].pc \in {"idle", "cast"}
        /\ OtherThreads(t) /\ OtherPlayers(s) /\ UNCHANGED loggedIn
        /\ player'[s].status = "IDLE"
    BY <1>22, <2>s, DeleteIDDoes, Typed, Fields
    DEF GoesBack, GoesIdle, GoesTo, Erases
  <2>2. s \notin Players /\ s \notin Players'
    BY <2>s, <2>1 DEF Players
  <2>3. \A r \in Slot : r # s => (r \in Players' <=> r \in Players)
    BY <2>s, <2>1 DEF Players, OtherThreads, OtherPlayers
  <2>4. Players' = Players
    BY <2>2, <2>3 DEF Players
  <2> QED
    BY <2>1, <2>4 DEF IInv, Logged
<1>23. ASSUME UNCHANGED server PROVE Logged'
  BY <1>23 DEF IInv, Logged, Players, server
<1> QED
  BY <1>1, <1>2, <1>3, <1>4, <1>5, <1>6, <1>7, <1>8, <1>9, <1>10, <1>11, <1>12,
     <1>13, <1>14, <1>15, <1>16, <1>17, <1>18, <1>19, <1>20, <1>21, <1>22,
     <1>23
  DEF Change

-----------------------------------------------------------------------------
LEMMA Initially == Init => IInv
  <1> SUFFICES ASSUME Init PROVE IInv
    OBVIOUS
  <1>1. /\ \A t \in Worker : thread[t] = Idle
        /\ \A s \in Slot : sess[s] = NoSession /\ player[s] = NoPlayer
        /\ \A p \in Sector : sector[p] = {} /\ owner[p] = Nobody
        /\ \A a \in Account : keys[a] = NoID
        /\ owner[KeyLock] = Nobody /\ nextID = 1 /\ loggedIn = 0
    BY DEF Init
  <1>2. /\ NoSession.id = 0 /\ NoSession.io = 0 /\ NoSession.released
        /\ ~NoSession.marked /\ NoSession.recv = "none"
        /\ NoPlayer.status = "IDLE" /\ Idle.pc = "idle"
        /\ Idle.me = Nobody /\ Idle.who = Nobody
    BY DEF NoSession, NoPlayer, Idle
  <1>3. Types
    <2>1. NoSession \in SessType
      BY ChatMultiAssumption DEF NoSession, SessType
    <2>2. NoPlayer \in PlayerType
      BY Corner, ChatMultiAssumption DEF NoPlayer, PlayerType
    <2>3. NoID \in KeyType
      BY ChatMultiAssumption DEF NoID, KeyType
    <2>4. 1 \in 1 .. MaxSessions + 1 /\ 0 \in Int
      BY ChatMultiAssumption
    <2> QED
      BY <2>1, <2>2, <2>3, <2>4, IdleIn DEF Init, Types
  <1>4. \A t \in Worker : ~Handling(t) /\ ~Casting(t) /\ ~Closing(t)
    BY <1>1, <1>2 DEF Handling, Casting, Closing
  <1>5. Handlers /\ Closers
    BY <1>1, <1>2, <1>4 DEF Handlers, Closers, Closing
  <1>6. Places
    BY <1>1, <1>2, <1>4 DEF Places, PlaceOf
  <1>7. Sessions
    BY <1>1, <1>2 DEF Sessions, SessionOf
  <1>8. Counts
    <2>1. \A s \in Slot : Senders(s) = {}
      BY <1>1, <1>2 DEF Senders
    <2> QED
      BY <1>1, <1>2, <2>1, FS_EmptySet DEF Counts
  <1>9. Locks /\ InOrder
    BY <1>1, <1>2, <1>4, ChatMultiAssumption DEF Locks, InOrder, HasLock
  <1>10. Lists
    BY <1>1, <1>2 DEF Lists, InList
  <1>11. Broadcasts
    BY <1>4 DEF Broadcasts, CastOf
  <1>12. KeysHeld
    BY <1>1, <1>2 DEF KeysHeld, KeyOf, Logging
  <1>13. Logged
    <2>1. Players = {}
      BY <1>1, <1>2 DEF Players
    <2> QED
      BY <1>1, <2>1, FS_EmptySet DEF Logged
  <1> QED
    BY <1>3, <1>5, <1>6, <1>7, <1>8, <1>9, <1>10, <1>11, <1>12, <1>13 DEF IInv

(* The invariant holds in every state, when each session has an account of   *)
(* its own: one handler or one closer for a session, each player in its     *)
(* list, the locks with who uses them, the counts and the keys right.       *)
THEOREM ChatInvariant ==
    ASSUME ~Shared
    PROVE  Spec => []IInv
  <1>1. IInv /\ [Next]_vars => IInv'
    <2> SUFFICES ASSUME IInv, [Next]_vars PROVE IInv'
      OBVIOUS
    <2>1. Change
      BY StepForm
    <2> QED
      BY <2>1, TypesKept, HandlersKept, ClosersKept, PlacesKept, SessionsKept,
         CountsKept, LocksKept, InOrderKept, ListsKept, BroadcastsKept,
         KeysKept, LoggedKept
      DEF IInv
  <1> QED
    BY <1>1, Initially, PTL DEF Spec

(* Every variable has its type; the count of the players is that of a set   *)
(* of slots, so it is never negative or more than there are slots.         *)
THEOREM ChatTypes ==
    ASSUME ~Shared
    PROVE  Spec => []TypeOK
  <1>1. IInv /\ halted \in BOOLEAN => TypeOK
    <2> SUFFICES ASSUME IInv, halted \in BOOLEAN PROVE TypeOK
      OBVIOUS
    <2>1. loggedIn \in 0 .. Cardinality(Slot)
      BY PlayersFinite, ChatMultiAssumption, FS_CardinalityType
      DEF IInv, Logged
    <2>2. \A a \in Account : keys[a].id \in 0 .. MaxSessions
      BY Typed DEF KeyType
    <2> QED
      BY <2>1, <2>2, Typed, Fields DEF TypeOK
  <1>2. Init => halted \in BOOLEAN
    BY DEF Init
  <1>3. halted \in BOOLEAN /\ [Next]_vars => (halted \in BOOLEAN)'
    BY DEF Next, MoveTooEarly, vars
  <1> QED
    BY <1>1, <1>2, <1>3, ChatInvariant, PTL DEF Spec

(* Each player is in the list of its sector and in no other, whatever moves, *)
(* logins and disconnects interleave to.                                   *)
THEOREM ListsAreRight ==
    ASSUME ~Shared
    PROVE  Spec => []SectorsAgree
  <1>1. IInv => SectorsAgree
    <2> SUFFICES ASSUME IInv, NEW s \in Slot
                 PROVE  {p \in Sector : s \in sector[p]} = Listed(s)
      BY DEF SectorsAgree
    <2> DEFINE busy == {t \in Worker :
                          /\ thread[t].me = s
                          /\ thread[t].pc \in {"enter", "locksync", "sync"}}
               closing == {t \in Worker :
                             thread[t].who = s /\ thread[t].pc = "deletekey"}
    <2>1. {p \in Sector : s \in sector[p]} = {p \in Sector : InList(s, p)}
      BY DEF IInv, Lists
    <2>2. CASE player[s].status # "PLAYER" \/ closing # {}
      <3>1. Listed(s) = {}
        BY <2>2 DEF Listed
      <3>2. \A p \in Sector : ~InList(s, p)
        BY <2>2 DEF InList
      <3> QED
        BY <2>1, <3>1, <3>2
    <2>3. CASE /\ player[s].status = "PLAYER" /\ closing = {}
               /\ \E t \in busy : thread[t].pc = "enter"
      <3>1. Listed(s) = {}
        BY <2>3 DEF Listed
      <3>2. \A p \in Sector : ~InList(s, p)
        BY <2>3 DEF InList
      <3> QED
        BY <2>1, <3>1, <3>2
    <2>4. CASE /\ player[s].status = "PLAYER" /\ closing = {}
               /\ \A t \in busy : thread[t].pc # "enter"
      <3>0. /\ \A t \in Worker : thread[t].me = s => thread[t].pc # "enter"
            /\ \A t \in Worker :
                  thread[t].who = s => thread[t].pc # "deletekey"
            /\ \A t \in Worker : Moving(t, s) <=> t \in busy
        BY <2>4 DEF Moving
      <3>1. CASE busy = {}
        <4>1. Listed(s) = {player[s].at}
          BY <2>4, <3>1 DEF Listed
        <4>2. \A p \in Sector : InList(s, p) <=> p = player[s].at
          BY <2>4, <3>0, <3>1 DEF InList
        <4>3. player[s].at \in Sector
          BY Typed, Fields
        <4> QED
          BY <2>1, <4>1, <4>2, <4>3
      <3>2. CASE busy # {}
        <4> DEFINE c == CHOOSE t \in busy : TRUE
        <4>1. Listed(s) = {thread[c].from}
          BY <2>4, <3>2 DEF Listed
        <4>2. c \in busy
          BY <3>2
        <4> HIDE DEF c
        <4>3. \A t \in busy : t = c
          BY <4>2, OneHandler DEF Handling
        <4>4. \A p \in Sector : InList(s, p) <=> p = thread[c].from
          BY <2>4, <3>0, <4>2, <4>3 DEF InList
        <4>5. thread[c].from \in Sector
          BY <4>2, Typed, Fields
        <4> QED
          BY <2>1, <4>1, <4>4, <4>5
      <3> QED
        BY <3>1, <3>2
    <2> QED
      BY <2>2, <2>3, <2>4
  <1> QED
    BY <1>1, ChatInvariant, PTL

(* The lists a broadcast walks stand still: who it has yet to send to is in *)
(* them, and it has sent to everyone else.                                 *)
THEOREM BroadcastsWalkOneList ==
    ASSUME ~Shared
    PROVE  Spec => []ListsHoldStill
  <1>1. IInv => ListsHoldStill
    BY DEF IInv, Broadcasts, CastOf, Casting, ListsHoldStill
  <1> QED
    BY <1>1, ChatInvariant, PTL

(* A player's key is there and its own until DeleteID takes it, and         *)
(* g_PlayerLogInCount is the number of players.  Only as long as no account *)
(* comes back: DeleteID takes whatever the key leads to, so that after a    *)
(* second login (~Shared excludes it) this does not hold.                  *)
THEOREM KeysAreRight ==
    ASSUME ~Shared
    PROVE  Spec => []KeysAgree
  <1>1. IInv => KeysAgree
    <2> SUFFICES ASSUME IInv PROVE KeysAgree
      OBVIOUS
    <2>1. ASSUME NEW s \in Slot,
                 player[s].status \in {"PENDING_SECTOR", "PLAYER"}
          PROVE  keys[player[s].account] = [id |-> sess[s].id, slot |-> s]
      <3>1. player[s].account = sess[s].id
        BY <2>1 DEF IInv, Sessions, SessionOf
      <3> QED
        BY <2>1, <3>1 DEF IInv, KeysHeld, KeyOf
    <2>2. loggedIn = Cardinality(Players)
      BY DEF IInv, Logged
    <2> QED
      BY <2>1, <2>2 DEF KeysAgree, Players
  <1> QED
    BY <1>1, ChatInvariant, PTL

(* Of the locks that threads wait for in a circle, the last is held by a     *)
(* thread that waits for a later one.  Only as long as no account comes     *)
(* back: InsertID closes the first session of one that does (Evict) under   *)
(* the key lock, and may then wait for a sector against the order.         *)
THEOREM LocksAreOrdered ==
    ASSUME ~Shared
    PROVE  Spec => []NoLockCycle
  <1>1. IInv => NoLockCycle
    <2> SUFFICES ASSUME IInv, NEW S \in SUBSET Worker, S # {},
                        \A t \in S : \E l \in Wanted(t) : owner[l] \in S \ {t}
                 PROVE  FALSE
      BY DEF NoLockCycle
    <2>1. ASSUME NEW t \in S, NEW l \in Wanted(t), owner[l] \in S \ {t}
          PROVE  /\ l \in Sector
                 /\ \/ /\ thread[t].pc \in {"locksync", "lockall"}
                       /\ l \in thread[t].todo
                    \/ thread[t].pc = "enter"
                    \/ /\ thread[t].pc = "leavesector"
                       /\ l = player[thread[t].who].at
      <3>1. owner[KeyLock] = Nobody /\ Nobody \notin S
        BY ChatMultiAssumption DEF IInv, Locks
      <3>2. l # KeyLock
        BY <2>1, <3>1
      <3>3. CASE thread[t].pc \in {"locksync", "lockall"}
        <4>1. l = NextLock(t)
          BY <3>3 DEF Wanted
        <4>2. thread[t].todo # {} /\ thread[t].todo \subseteq Sector
          BY <3>3, Todo
        <4> QED
          BY <3>3, <4>1, <4>2, FirstLock
      <3>4. CASE thread[t].pc = "enter"
        <4>1. l = player[thread[t].me].at
          BY <3>4 DEF Wanted
        <4>2. thread[t].me \in Slot
          BY <3>4, Me DEF Handling
        <4> QED
          BY <3>4, <4>1, <4>2, Typed, Fields
      <3>5. CASE thread[t].pc = "leavesector"
        <4>1. l = player[thread[t].who].at
          BY <3>5 DEF Wanted
        <4>2. thread[t].who \in Slot
          BY <3>5, Who DEF Closing
        <4> QED
          BY <3>5, <4>1, <4>2, Typed, Fields
      <3>6. CASE thread[t].pc \notin {"locksync", "lockall", "enter",
                                      "leavesector"}
        BY <2>1, <3>2, <3>6 DEF Wanted
      <3> QED
        BY <3>3, <3>4, <3>5, <3>6
    <2> DEFINE D == {p \in Sector :
                       \E t \in S : p \in Wanted(t) /\ owner[p] \in S \ {t}}
    <2>2. D \in SUBSET Sector /\ D # {}
      BY <2>1
    <2>3. PICK p \in D : \A q \in D : Before(q, p)
      BY <2>2, LastSector
    <2>4. PICK u \in S : u = owner[p]
      BY <2>3
    <2>5. HasLock(u, p)
      BY <2>3, <2>4 DEF IInv, Locks
    <2>6. PICK q \in Wanted(u) : owner[q] \in S \ {u}
      OBVIOUS
    <2>7. q \in D /\ ~HasLock(u, q)
      BY <2>1, <2>6 DEF IInv, Locks
    <2>8. CASE thread[u].pc \in {"locksync", "lockall"} /\ q \in thread[u].todo
      <3>1. Before(p, q) /\ Before(q, p)
        BY <2>3, <2>5, <2>7, <2>8 DEF IInv, InOrder
      <3> QED
        BY <2>3, <2>4, <2>6, <2>7, <3>1, BeforeOrders
    <2>9. CASE thread[u].pc = "enter"
      BY <2>5, <2>9 DEF HasLock, Casting, Closing
    <2>10. CASE /\ thread[u].pc = "leavesector"
                /\ q = player[thread[u].who].at
      <3>1. Casting(u)
        BY <2>5, <2>10 DEF HasLock
      <3>2. PICK s \in Slot : s = thread[u].who
        BY <2>10, Who DEF Closing
      <3>3. s \in Listeners(u)
        BY <2>10, <3>1, <3>2 DEF IInv, Broadcasts, CastOf
      <3>4. Around(thread[u].from) \subseteq Sector
        BY Typed, Fields, Neighbours
      <3>5. PICK r \in Around(thread[u].from) : s \in sector[r]
        BY <3>3 DEF Listeners
      <3>6. InList(s, r)
        BY <3>4, <3>5 DEF IInv, Lists
      <3>7. \A t \in Worker :
               /\ Handling(t) => thread[t].me # s
               /\ thread[t].pc = "deletekey" => thread[t].who # s
        BY <2>10, <3>2, Who, Apart DEF Closing, IInv, Closers
      <3>8. r = player[s].at
        BY <3>4, <3>6, <3>7, AtRest
      <3> QED
        BY <2>7, <2>10, <3>1, <3>2, <3>5, <3>8 DEF HasLock
    <2> QED
      BY <2>1, <2>6, <2>8, <2>9, <2>10
  <1> QED
    BY <1>1, ChatInvariant, PTL

==============================================================================
