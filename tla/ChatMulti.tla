------------------------------ MODULE ChatMulti ------------------------------
(***************************************************************************)
(* ChatMultiServer: every IOCP worker runs the contents itself              *)
(* (ContentsThread/ContentsFunc.cpp, Msg/Message.cpp, Sector/Sector.cpp,     *)
(* Player/CharacterKeyManager.cpp).                                        *)
(*                                                                         *)
(* A message is handled in the worker that took the receive of its session, *)
(* so one session is in one handler at a time; different sessions meet in   *)
(* the sector lists, each under a recursive lock of its own, and in the key *)
(* map under another.  A broadcast takes the locks of up to nine sectors    *)
(* and sends to each player in their lists; if the count it takes on a      *)
(* player turns out to be the last, _OnDisConnect of that player runs right *)
(* there, with the locks held.                                             *)
(*                                                                         *)
(* The counts are those of the receive and of SendPacket and                *)
(* RequestSessionAbort; posted sends come and go with a flush and are left  *)
(* out, as in SessionIo they leave no count behind.  A message that fails a *)
(* check is one kind of message, whatever the check.                       *)
(***************************************************************************)
EXTENDS Integers, FiniteSets

CONSTANTS
    Slot,       \* slots of the session table, and of playerArr
    Worker,     \* IOCP worker threads
    Nobody,     \* no owner, no slot
    XMax, YMax, \* the SECTOR_MAX of both directions
    Shared,     \* sessions share one account
    MaxSessions, \* bound: sessions accepted
    MaxMessages \* bound: messages a session sends

ASSUME ChatMultiAssumption ==
    /\ IsFiniteSet(Slot) /\ IsFiniteSet(Worker)
    /\ {XMax, YMax, MaxSessions, MaxMessages} \subseteq Nat \ {0}
    /\ Nobody \notin Worker \cup Slot
    /\ Shared \in BOOLEAN

Sector == (0 .. XMax - 1) \X (0 .. YMax - 1)
KeyLock == <<>>    \* _Key_uMapLock, next to the locks of the sectors
Account == 1 .. MaxSessions

VARIABLES
    sess,       \* sess[s]: the session in slot s
    nextID,     \* _sessionID
    player,     \* player[s]: playerArr[s]
    sector,     \* sector[p]: the players in the list of sector p
    keys,       \* keys[a]: the session _Key_uMap has for account a
    owner,      \* owner[l]: the thread that holds lock l
    loggedIn,   \* g_PlayerLogInCount
    thread,     \* thread[t]: where worker t is
    halted      \* a __debugbreak() has stopped the program

server == <<sess, nextID, player, sector, keys, owner, loggedIn, thread>>
vars == <<sess, nextID, player, sector, keys, owner, loggedIn, thread, halted>>

-----------------------------------------------------------------------------
NoSession == [id |-> 0, io |-> 0, released |-> TRUE, marked |-> FALSE,
              recv |-> "none", sent |-> 0]
NoPlayer == [status |-> "IDLE", account |-> 0, at |-> <<0, 0>>]
NoID == [id |-> 0, slot |-> Nobody]
Idle == [pc |-> "idle", me |-> Nobody, todo |-> {}, heard |-> {}, from |-> <<0, 0>>,
         who |-> Nobody, ret |-> "idle"]

Init ==
    /\ sess = [s \in Slot |-> NoSession]
    /\ nextID = 1
    /\ player = [s \in Slot |-> NoPlayer]
    /\ sector = [p \in Sector |-> {}]
    /\ keys = [a \in Account |-> NoID]
    /\ owner = [l \in Sector \cup {KeyLock} |-> Nobody]
    /\ loggedIn = 0
    /\ thread = [t \in Worker |-> Idle]
    /\ halted = FALSE

AccountOf(s) == IF Shared THEN 1 ELSE sess[s].id

CanLock(t, l) == owner[l] \in {Nobody, t}

(* A worker that is through with a completion waits for the next one.      *)
On(t, pc) == IF pc = "idle" THEN Idle ELSE [thread[t] EXCEPT !.pc = pc]

Goto(t, pc) == thread' = [thread EXCEPT ![t] = On(t, pc)]

(* Of several waiting workers the port wakes one; it does not matter which. *)
Waiting(t) ==
    /\ thread[t].pc = "idle"
    /\ t = CHOOSE w \in Worker : thread[w].pc = "idle"

(* DecrementSessionIoCount: the last count closes the session, and runs its *)
(* _OnDisConnect, before the thread goes on.                               *)
Decrement(t, s, r, ret) ==
    LET last == r.io = 1 /\ ~r.released
    IN  /\ sess' = [sess EXCEPT ![s] = [r EXCEPT !.io = @ - 1,
                                                 !.released = @ \/ last]]
        /\ thread' = [thread EXCEPT ![t] =
                        IF last
                        THEN [@ EXCEPT !.pc = "ondisconnect", !.who = s, !.ret = ret]
                        ELSE On(t, ret)]

-----------------------------------------------------------------------------
(* Sessions: accept, receive, the client goes away.                        *)

(* Of several free indices the stack gives out one; as they are all alike,  *)
(* it does not matter which.                                               *)
OnAccept(s) ==
    /\ sess[s] = NoSession
    /\ s = CHOOSE free \in Slot : sess[free] = NoSession
    /\ nextID <= MaxSessions
    /\ nextID' = nextID + 1
    /\ sess' = [sess EXCEPT ![s] = [NoSession EXCEPT !.id = nextID, !.io = 1,
                                      !.released = FALSE, !.recv = "pending"]]
    /\ player' = [player EXCEPT ![s] = [NoPlayer EXCEPT !.status = "SESSION"]]
    /\ UNCHANGED <<sector, keys, owner, loggedIn, thread>>

ClientLeaves(s) ==
    /\ sess[s].recv = "pending"
    /\ sess' = [sess EXCEPT ![s].recv = "failed"]
    /\ UNCHANGED <<nextID, player, sector, keys, owner, loggedIn, thread>>

(* CheckGQCSError, and the count of the receive given back.                *)
TakeFailed_KeepsCount(t, s) ==
    /\ Waiting(t)
    /\ sess[s].recv = "failed"
    /\ sess' = [sess EXCEPT ![s].recv = "none"]
    /\ UNCHANGED <<nextID, player, sector, keys, owner, loggedIn, thread>>

TakeFailed(t, s) ==
    /\ Waiting(t)
    /\ sess[s].recv = "failed"
    /\ Decrement(t, s, [sess[s] EXCEPT !.recv = "none"], "idle")
    /\ UNCHANGED <<nextID, player, sector, keys, owner, loggedIn>>

Take(t, s, place) ==
    /\ Waiting(t)
    /\ sess[s].recv = "pending"
    /\ sess[s].sent < MaxMessages
    /\ sess' = [sess EXCEPT ![s].recv = "taken", ![s].sent = @ + 1]
    /\ thread' = [thread EXCEPT ![t] = [Idle EXCEPT !.pc = place, !.me = s]]

(* The message is done: the next receive, unless the session is marked or   *)
(* the packet that is still incomplete has filled the receive buffer; then  *)
(* the count of this receive is given back.                                *)
Finish(t) ==
    LET s == thread[t].me
    IN  /\ thread[t].pc = "finish"
        /\ \/ /\ ~sess[s].marked
              /\ sess' = [sess EXCEPT ![s].recv = "pending"]
              /\ thread' = [thread EXCEPT ![t] = Idle]
           \/ Decrement(t, s, [sess[s] EXCEPT !.recv = "none"], "idle")
        /\ UNCHANGED <<nextID, player, sector, keys, owner, loggedIn>>

(* A message that does not pass the checks: DisconnectSession.             *)
HandleBadMessage(t, s) ==
    /\ Waiting(t)
    /\ sess[s].recv = "pending" /\ sess[s].sent < MaxMessages
    /\ sess' = [sess EXCEPT ![s].recv = "taken", ![s].sent = @ + 1,
                            ![s].marked = TRUE]
    /\ thread' = [thread EXCEPT ![t] = [Idle EXCEPT !.pc = "finish", !.me = s]]
    /\ UNCHANGED <<nextID, player, sector, keys, owner, loggedIn>>

-----------------------------------------------------------------------------
(* HandleLoginMessage *)

HandleLoginMessage(t, s) ==
    /\ player[s].status = "SESSION"
    /\ Take(t, s, "insert")
    /\ UNCHANGED <<nextID, player, sector, keys, owner, loggedIn>>

(* InsertID.  An account that is there already belongs to another session,  *)
(* gone or not: with the key lock held, DisconnectSession counts itself in  *)
(* on the slot of that session ...                                         *)
InsertID(t) ==
    LET s == thread[t].me
        a == AccountOf(s)
    IN  /\ thread[t].pc = "insert"
        /\ CanLock(t, KeyLock)
        /\ IF keys[a] = NoID
           THEN /\ keys' = [keys EXCEPT ![a] = [id |-> sess[s].id, slot |-> s]]
                /\ Goto(t, "login")
                /\ UNCHANGED <<sess, owner>>
           ELSE /\ sess' = [sess EXCEPT ![keys[a].slot].io = @ + 1]
                /\ owner' = [owner EXCEPT ![KeyLock] = t]
                /\ Goto(t, "evict")
                /\ UNCHANGED keys
        /\ UNCHANGED <<nextID, player, sector, loggedIn>>

(* ... marks it if it is still the one, and gives the count back ...        *)
Evict(t) ==
    LET old == keys[AccountOf(thread[t].me)]
        r == sess[old.slot]
    IN  /\ thread[t].pc = "evict"
        /\ Decrement(t, old.slot,
             IF r.id = old.id /\ ~r.released
             THEN [r EXCEPT !.marked = TRUE,
                            !.recv = IF @ = "pending" THEN "failed" ELSE @]
             ELSE r, "replace")
        /\ UNCHANGED <<nextID, player, sector, keys, owner, loggedIn>>

(* ... and the account is the new session's.                               *)
Replace(t) ==
    LET s == thread[t].me
    IN  /\ thread[t].pc = "replace"
        /\ keys' = [keys EXCEPT ![AccountOf(s)] = [id |-> sess[s].id, slot |-> s]]
        /\ owner' = [owner EXCEPT ![KeyLock] = Nobody]
        /\ Goto(t, "login")
        /\ UNCHANGED <<sess, nextID, player, sector, loggedIn>>

(* Player::Init and SendLoginResPacket.                                    *)
Login(t) ==
    LET s == thread[t].me
    IN  /\ thread[t].pc = "login"
        /\ player' = [player EXCEPT ![s] =
                        [NoPlayer EXCEPT !.status = "PENDING_SECTOR",
                                         !.account = AccountOf(s)]]
        /\ loggedIn' = loggedIn + 1
        /\ Goto(t, "finish")
        /\ UNCHANGED <<sess, nextID, sector, keys, owner>>

(* A name without its null: the key is in the map already, and stays.      *)
BadName(t) ==
    /\ thread[t].pc = "login"
    /\ sess' = [sess EXCEPT ![thread[t].me].marked = TRUE]
    /\ Goto(t, "finish")
    /\ UNCHANGED <<nextID, player, sector, keys, owner, loggedIn>>

-----------------------------------------------------------------------------
(* HandleSectorMoveMessage *)

(* The first move makes the player one of its sector ...                   *)
HandleFirstMove(t, s, p) ==
    /\ player[s].status = "PENDING_SECTOR"
    /\ Take(t, s, "enter")
    /\ player' = [player EXCEPT ![s].status = "PLAYER", ![s].at = p]
    /\ UNCHANGED <<nextID, sector, keys, owner, loggedIn>>

EnterSector(t) ==
    LET s == thread[t].me
    IN  /\ thread[t].pc = "enter"
        /\ CanLock(t, player[s].at)
        /\ sector' = [sector EXCEPT ![player[s].at] = @ \cup {s}]
        /\ Goto(t, "finish")
        /\ UNCHANGED <<sess, nextID, player, keys, owner, loggedIn>>

(* ... and a later one takes it to another, the position first; SyncSector  *)
(* has nothing to do if it is the same.                                    *)
HandleSectorMoveMessage(t, s, p) ==
    /\ player[s].status = "PLAYER"
    /\ Waiting(t)
    /\ sess[s].recv = "pending" /\ sess[s].sent < MaxMessages
    /\ sess' = [sess EXCEPT ![s].recv = "taken", ![s].sent = @ + 1]
    /\ player' = [player EXCEPT ![s].at = p]
    /\ thread' = [thread EXCEPT ![t] =
                    IF p = player[s].at
                    THEN [Idle EXCEPT !.pc = "finish", !.me = s]
                    ELSE [Idle EXCEPT !.pc = "locksync", !.me = s,
                            !.from = player[s].at, !.todo = {player[s].at, p}]]
    /\ UNCHANGED <<nextID, sector, keys, owner, loggedIn>>

(* SectorLockByIndexOrder, and the order of the loops of a broadcast.      *)
Before(p, q) == p[1] < q[1] \/ (p[1] = q[1] /\ p[2] <= q[2])

NextLock_OldFirst(t) ==
    IF thread[t].pc = "locksync" /\ thread[t].from \in thread[t].todo
    THEN thread[t].from
    ELSE CHOOSE p \in thread[t].todo : \A q \in thread[t].todo : Before(p, q)

NextLock(t) ==
    CHOOSE p \in thread[t].todo : \A q \in thread[t].todo : Before(p, q)

Lock(t, from, place) ==
    /\ thread[t].pc = from
    /\ thread[t].todo # {}
    /\ CanLock(t, NextLock(t))
    /\ owner' = [owner EXCEPT ![NextLock(t)] = t]
    /\ thread' = [thread EXCEPT ![t].todo = @ \ {NextLock(t)},
                                ![t].pc = IF thread[t].todo = {NextLock(t)}
                                          THEN place ELSE from]

LockSync(t) ==
    /\ Lock(t, "locksync", "sync")
    /\ UNCHANGED <<sess, nextID, player, sector, keys, loggedIn>>

SyncSector_Stays(t) ==
    LET s == thread[t].me
        old == thread[t].from
    IN  /\ thread[t].pc = "sync"
        /\ sector' = [sector EXCEPT ![player[s].at] = @ \cup {s}]
        /\ owner' = [owner EXCEPT ![old] = Nobody, ![player[s].at] = Nobody]
        /\ Goto(t, "finish")
        /\ UNCHANGED <<sess, nextID, player, keys, loggedIn>>

SyncSector(t) ==
    LET s == thread[t].me
        old == thread[t].from
    IN  /\ thread[t].pc = "sync"
        /\ sector' = [sector EXCEPT ![old] = @ \ {s},
                                    ![player[s].at] = @ \cup {s}]
        /\ owner' = [owner EXCEPT ![old] = Nobody, ![player[s].at] = Nobody]
        /\ Goto(t, "finish")
        /\ UNCHANGED <<sess, nextID, player, keys, loggedIn>>

(* A move of a session that has not logged in meets a __debugbreak() and    *)
(* stops the program.                                                      *)
MoveTooEarly(t, s) ==
    /\ Waiting(t)
    /\ sess[s].recv = "pending" /\ sess[s].sent < MaxMessages
    /\ player[s].status = "SESSION"
    /\ halted' = TRUE
    /\ UNCHANGED server

-----------------------------------------------------------------------------
(* HandleChatMessage and MsgSectorBroadCasting *)

Around(p) ==
    {q \in Sector : q[1] - p[1] \in -1 .. 1 /\ q[2] - p[2] \in -1 .. 1}

(* The account is all it asks of the sender, 0 before it has logged in:     *)
(* who has no sector yet speaks in <<0, 0>>.                               *)
HandleChatMessage(t, s) ==
    /\ Waiting(t)
    /\ sess[s].recv = "pending" /\ sess[s].sent < MaxMessages
    /\ sess' = [sess EXCEPT ![s].recv = "taken", ![s].sent = @ + 1]
    /\ thread' = [thread EXCEPT ![t] =
                    [Idle EXCEPT !.pc = "lockall", !.me = s,
                       !.from = player[s].at, !.todo = Around(player[s].at)]]
    /\ UNCHANGED <<nextID, player, sector, keys, owner, loggedIn>>

LockAll(t) ==
    /\ Lock(t, "lockall", "listen")
    /\ UNCHANGED <<sess, nextID, player, sector, keys, loggedIn>>

(* All the locks are held: the lists say who is to hear it.                *)
Listeners(t) == UNION {sector[q] : q \in Around(thread[t].from)}

Listen(t) ==
    /\ thread[t].pc = "listen"
    /\ thread' = [thread EXCEPT ![t].todo = Listeners(t), ![t].pc = "cast"]
    /\ UNCHANGED <<sess, nextID, player, sector, keys, owner, loggedIn>>

(* SendPacket to the next one: the count, the packet ...                   *)
SendBegin(t) ==
    LET d == CHOOSE s \in thread[t].todo : TRUE
    IN  /\ thread[t].pc = "cast"
        /\ thread[t].todo # {}
        /\ sess' = [sess EXCEPT ![d].io = @ + 1]
        /\ thread' = [thread EXCEPT ![t].todo = @ \ {d}, ![t].heard = @ \cup {d},
                                    ![t].who = d, ![t].pc = "sent"]
        /\ UNCHANGED <<nextID, player, sector, keys, owner, loggedIn>>

(* ... and the count back.                                                 *)
SendEnd(t) ==
    /\ thread[t].pc = "sent"
    /\ Decrement(t, thread[t].who, sess[thread[t].who], "cast")
    /\ UNCHANGED <<nextID, player, sector, keys, owner, loggedIn>>

UnlockAll(t) ==
    /\ thread[t].pc = "cast"
    /\ thread[t].todo = {}
    /\ owner' = [l \in DOMAIN owner |->
                   IF l \in Around(thread[t].from) THEN Nobody ELSE owner[l]]
    /\ Goto(t, "finish")
    /\ UNCHANGED <<sess, nextID, player, sector, keys, loggedIn>>

-----------------------------------------------------------------------------
(* _OnDisConnect, in whichever thread gave the last count back.            *)

Freed(s) ==
    /\ player' = [player EXCEPT ![s].status = "IDLE"]
    /\ sess' = [sess EXCEPT ![s] = [NoSession EXCEPT !.io = sess[s].io]]

(* Before its first move the player is in no sector; its key stays behind. *)
OnDisConnect_Counts(t) ==
    LET s == thread[t].who
    IN  /\ thread[t].pc = "ondisconnect"
        /\ loggedIn' = loggedIn - 1
        /\ IF player[s].status # "PLAYER"
           THEN Freed(s) /\ Goto(t, thread[t].ret)
           ELSE Goto(t, "leavesector") /\ UNCHANGED <<player, sess>>
        /\ UNCHANGED <<nextID, sector, keys, owner>>

OnDisConnect(t) ==
    LET s == thread[t].who
    IN  /\ thread[t].pc = "ondisconnect"
        /\ loggedIn' = IF player[s].status = "SESSION" THEN loggedIn ELSE loggedIn - 1
        /\ IF player[s].status # "PLAYER"
           THEN Freed(s) /\ Goto(t, thread[t].ret)
           ELSE Goto(t, "leavesector") /\ UNCHANGED <<player, sess>>
        /\ UNCHANGED <<nextID, sector, keys, owner>>

LeaveSector_NoLock(t) ==
    LET s == thread[t].who
    IN  /\ thread[t].pc = "leavesector"
        /\ sector' = [sector EXCEPT ![player[s].at] = @ \ {s}]
        /\ Goto(t, "deletekey")
        /\ UNCHANGED <<sess, nextID, player, keys, owner, loggedIn>>

LeaveSector(t) ==
    LET s == thread[t].who
    IN  /\ thread[t].pc = "leavesector"
        /\ CanLock(t, player[s].at)
        /\ sector' = [sector EXCEPT ![player[s].at] = @ \ {s}]
        /\ Goto(t, "deletekey")
        /\ UNCHANGED <<sess, nextID, player, keys, owner, loggedIn>>

(* DeleteID erases the account, whichever session it belongs to.           *)
DeleteID(t) ==
    LET s == thread[t].who
    IN  /\ thread[t].pc = "deletekey"
        /\ CanLock(t, KeyLock)
        /\ keys' = [keys EXCEPT ![player[s].account] = NoID]
        /\ Freed(s)
        /\ Goto(t, thread[t].ret)
        /\ UNCHANGED <<nextID, sector, owner, loggedIn>>

-----------------------------------------------------------------------------
Handle(t, s) ==
    \/ HandleBadMessage(t, s)
    \/ HandleLoginMessage(t, s)
    \/ \E p \in Sector : HandleFirstMove(t, s, p) \/ HandleSectorMoveMessage(t, s, p)
    \/ HandleChatMessage(t, s)

Step(t) ==
    \/ Finish(t) \/ InsertID(t) \/ Login(t) \/ BadName(t)
    \/ EnterSector(t) \/ LockSync(t) \/ SyncSector(t)
    \/ LockAll(t) \/ Listen(t) \/ SendBegin(t) \/ SendEnd(t) \/ UnlockAll(t)
    \/ OnDisConnect(t) \/ LeaveSector(t) \/ DeleteID(t)

Running ==
    \/ \E s \in Slot : OnAccept(s) \/ ClientLeaves(s)
    \/ \E t \in Worker, s \in Slot : TakeFailed(t, s) \/ Handle(t, s)
    \/ \E t \in Worker : Step(t)

Next ==
    /\ ~halted
    /\ \/ Running /\ UNCHANGED halted
       \/ \E t \in Worker, s \in Slot : MoveTooEarly(t, s)

(* The same with accounts that come back.                                  *)
AnyNext ==
    \/ Next
    \/ /\ ~halted
       /\ \E t \in Worker : Evict(t) \/ Replace(t)
       /\ UNCHANGED halted

(* Until the program stops workers run, and take the failed receives.      *)
Fairness ==
    /\ \A t \in Worker : WF_vars(~halted /\ Step(t) /\ UNCHANGED halted)
    /\ \A s \in Slot :
          SF_vars(~halted /\ (\E t \in Worker : TakeFailed(t, s)) /\ UNCHANGED halted)

Spec == Init /\ [][Next]_vars /\ Fairness

AnySpec == Init /\ [][AnyNext]_vars

-----------------------------------------------------------------------------
Place == {"idle", "finish", "insert", "evict", "replace", "login", "enter",
          "locksync", "sync", "lockall", "listen", "cast", "sent",
          "ondisconnect", "leavesector", "deletekey"}

(* Every variable has its type. *)
TypeOK ==
    /\ \A s \in Slot :
          /\ sess[s].id \in 0 .. MaxSessions /\ sess[s].io \in Nat
          /\ sess[s].recv \in {"none", "pending", "taken", "failed"}
          /\ player[s].status \in {"IDLE", "SESSION", "PENDING_SECTOR", "PLAYER"}
          /\ player[s].account \in 0 .. MaxSessions
          /\ player[s].at \in Sector
    /\ sector \in [Sector -> SUBSET Slot]
    /\ \A a \in Account : keys[a].id \in 0 .. MaxSessions
    /\ owner \in [Sector \cup {KeyLock} -> Worker \cup {Nobody}]
    /\ loggedIn \in 0 .. Cardinality(Slot)
    /\ \A t \in Worker : thread[t].pc \in Place
    /\ halted \in BOOLEAN

(* Where the lists have player s: at its position, unless a thread is about *)
(* to put it there, still has it in the sector it moves from, or has taken  *)
(* it out for good.                                                        *)
Listed(s) ==
    LET busy == {t \in Worker : thread[t].me = s /\ thread[t].pc \in {"enter", "locksync", "sync"}}
        closing == {t \in Worker : thread[t].who = s /\ thread[t].pc = "deletekey"}
    IN  IF player[s].status # "PLAYER" \/ closing # {} THEN {}
        ELSE IF \E t \in busy : thread[t].pc = "enter" THEN {}
        ELSE {IF busy = {} THEN player[s].at
              ELSE thread[CHOOSE t \in busy : TRUE].from}

(* Whatever moves, logins and disconnects interleave to, each player is in  *)
(* exactly one sector list, that of its position, and nobody else is in any *)
(* list: what MsgSectorBroadCasting, SyncSector and CheckSector assert.     *)
SectorsAgree ==
    \A s \in Slot : {p \in Sector : s \in sector[p]} = Listed(s)

(* A broadcast walks the lists while players come, move and leave: the ones *)
(* it still has to visit stay in the lists around it, alive, and nobody is  *)
(* added behind its back.                                                  *)
ListsHoldStill ==
    \A t \in Worker :
        thread[t].pc \in {"cast", "sent"} =>
            /\ thread[t].todo \subseteq Listeners(t)
            /\ Listeners(t) \subseteq thread[t].todo \cup thread[t].heard

(* The lock a thread is waiting for.                                       *)
Wanted(t) ==
    CASE thread[t].pc \in {"locksync", "lockall"} -> {NextLock(t)}
      [] thread[t].pc = "enter" -> {player[thread[t].me].at}
      [] thread[t].pc = "leavesector" -> {player[thread[t].who].at}
      [] thread[t].pc \in {"insert", "deletekey"} -> {KeyLock}
      [] OTHER -> {}

(* No threads wait for each other in a circle, whether they broadcast, move *)
(* or close a session in the middle of a broadcast: the order of            *)
(* SectorLockByIndexOrder and of the broadcast's loops is enough.          *)
NoLockCycle ==
    ~ \E S \in SUBSET Worker :
        /\ S # {}
        /\ \A t \in S : \E l \in Wanted(t) : owner[l] \in S \ {t}

(* A player's key is there, and its own, from InsertID to DeleteID: so      *)
(* DeleteID never misses it; and g_PlayerLogInCount counts the players.    *)
KeysAgree ==
    /\ \A s \in Slot :
          player[s].status \in {"PENDING_SECTOR", "PLAYER"} =>
              keys[player[s].account] = [id |-> sess[s].id, slot |-> s]
    /\ loggedIn =
          Cardinality({s \in Slot :
              /\ player[s].status \in {"PENDING_SECTOR", "PLAYER"}
              /\ \A t \in Worker :
                    ~(thread[t].who = s /\ thread[t].pc \in {"leavesector", "deletekey"})})

(* Unless the program stops, a broadcast comes to its end, and a session    *)
(* whose client left is closed, even by a broadcast in which it is one of   *)
(* the listeners.                                                          *)
EverythingEnds ==
    /\ \A t \in Worker : thread[t].pc = "lockall" ~> thread[t].pc = "idle" \/ halted
    /\ \A s \in Slot : sess[s].recv = "failed" ~> sess[s] = NoSession \/ halted

==============================================================================
