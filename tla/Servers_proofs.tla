---------------------------- MODULE Servers_proofs ----------------------------
(***************************************************************************)
(* Proofs about the servers of Programs, for any number of slots, workers   *)
(* and accounts and any map: the invariant of each, which Programs_proofs   *)
(* puts together.                                                           *)
(*   The chat server with one contents thread: a session's identifier is in *)
(* one slot only (Homes); the jobs of a slot are in the order of its        *)
(* sessions, each creation before and each deletion behind what is of the   *)
(* same session (Ordered, Bounds), so that a message finds its player       *)
(* (Started) and every player that stays has its session or its deletion to *)
(* come (Ended).  A living player is in the list of its sector and of no    *)
(* other (Situated), and the counters count (Counts).                       *)
(*   The login server: the users are the clients here (LoginUsers), counted *)
(* modulo Wrap but for the one that the lost connection to the monitoring   *)
(* server takes (LoginCount, LoginLost); a worker is at work on a session   *)
(* that is still here (LoginWork), so no login is of another session.       *)
(*   The monitoring server: each list has the agents of its kind, and else  *)
(* only those that changed it, since Without drops all and only what it is  *)
(* told; an average stays                                                   *)
(* between the least and the greatest value it was made of.                 *)
(***************************************************************************)
EXTENDS Programs, FiniteSetTheorems, SequenceTheorems, WellFoundedInduction,
        TLAPS

(* A set of numbers has a least one; so what holds of 0 and of i + 1 with i *)
(* holds of n.                                                              *)
LEMMA Least ==
    ASSUME NEW S \in SUBSET Nat, S # {}
    PROVE  \E n \in S : \A m \in S : n <= m
  <1>1. PICK n \in S : \A m \in S : ~(<<m, n>> \in OpToRel(<, Nat))
    BY NatLessThanWellFounded, WFMin
  <1>2. \A m \in S : ~(m < n)
    BY <1>1 DEF OpToRel
  <1>3. \A m \in S : n <= m
    BY <1>2
  <1> QED
    BY <1>3

LEMMA Induction ==
    ASSUME NEW n \in Nat, NEW Z, 0 \in Z,
           \A i \in 0 .. n : i < n /\ i \in Z => i + 1 \in Z
    PROVE  n \in Z
  <1> SUFFICES ASSUME n \notin Z PROVE FALSE
    OBVIOUS
  <1> DEFINE S == {i \in Nat : i <= n /\ i \notin Z}
  <1>1. S \in SUBSET Nat /\ S # {}
    OBVIOUS
  <1>2. PICK k \in S : \A m \in S : k <= m
    <2> HIDE DEF S
    <2> QED
      BY <1>1, Least
  <1>3. k # 0 /\ k - 1 \in Nat /\ k - 1 \notin S /\ k <= n
    BY <1>2
  <1>4. k - 1 \in Z /\ k - 1 \in 0 .. n /\ k - 1 < n /\ (k - 1) + 1 = k
    BY <1>3
  <1> QED
    BY <1>2, <1>4

(* The remainder of a number less than twice the divisor away from zero.    *)
Wrapped(x, n) == IF x < 0 THEN x + n ELSE IF x < n THEN x ELSE x - n

LEMMA Remainder ==
    ASSUME NEW n \in Nat, n > 0, NEW x \in Int, -n <= x, x < 2 * n
    PROVE  x % n = Wrapped(x, n) /\ Wrapped(x, n) \in 0 .. n - 1
  <1> DEFINE d == x \div n
             r == x % n
  <1>1. x = n * d + r /\ d \in Int /\ r \in 0 .. n - 1
    OBVIOUS
  <1> HIDE DEF d, r
  <1>2. d <= -2 => n * d <= n * (-2)
    BY <1>1
  <1>3. d >= 2 => n * d >= n * 2
    BY <1>1
  <1>4. d \in {-1, 0, 1}
    BY <1>1, <1>2, <1>3
  <1>5. /\ d = -1 => n * d = -n
        /\ d = 0 => n * d = 0
        /\ d = 1 => n * d = n
    OBVIOUS
  <1>6. r = Wrapped(x, n)
    BY <1>1, <1>4, <1>5 DEF Wrapped
  <1> QED
    BY <1>1, <1>6 DEF r

(* One more or one less in a finite set that was told by a condition.       *)
LEMMA OneMore ==
    ASSUME NEW S, IsFiniteSet(S), NEW x, x \notin S, NEW T, T = S \cup {x}
    PROVE  IsFiniteSet(T) /\ Cardinality(T) = Cardinality(S) + 1
           /\ Cardinality(S) \in Nat
  BY FS_AddElement, FS_CardinalityType

LEMMA OneLess ==
    ASSUME NEW S, IsFiniteSet(S), NEW x \in S, NEW T, T = S \ {x}
    PROVE  IsFiniteSet(T) /\ Cardinality(T) = Cardinality(S) - 1
           /\ Cardinality(S) \in Nat \ {0} /\ Cardinality(T) \in Nat
  <1>1. Cardinality(T) = Cardinality(S) - 1 /\ IsFiniteSet(T)
    BY FS_RemoveElement
  <1>2. Cardinality(S) \in Nat /\ Cardinality(T) \in Nat
    BY <1>1, FS_CardinalityType
  <1> QED
    BY <1>1, <1>2

-----------------------------------------------------------------------------
(* What the servers see of the sessions: an ID is of one session, and there   *)
(* is one connection to the monitoring server.                              *)
EmptySlot == [id |-> 0, phase |-> "free", kind |-> "client"]
SlotType == [id : 0 .. MaxIds, kind : {"client", "server"},
             phase : {"free", "open", "left", "closing"}]
Used(s) == slot[s].phase # "free"
IsHere(s) == slot[s].phase \in {"open", "left"}

Sessions ==
    /\ slot \in [Slot -> SlotType]
    /\ lastId \in 0 .. MaxIds
    /\ \A s \in Slot : /\ ~Used(s) => slot[s] = EmptySlot
                       /\ Used(s) => slot[s].id \in 1 .. lastId
    /\ \A s, r \in Slot : slot[s].kind = "server" /\ slot[r].kind = "server" => r = s
    /\ \A s, r \in Slot : Used(s) /\ slot[r].id = slot[s].id => r = s

Opening(s, kind) ==
    /\ ~Used(s) /\ lastId < MaxIds
    /\ lastId' = lastId + 1
    /\ slot' = [slot EXCEPT ![s] = [id |-> lastId', phase |-> "open",
                                    kind |-> kind]]
Turning(s, phase) ==
    /\ Used(s) /\ phase \in {"open", "left", "closing"}
    /\ slot' = [slot EXCEPT ![s].phase = phase]
    /\ lastId' = lastId
Freeing(s) ==
    /\ slot[s].phase = "closing"
    /\ slot' = [slot EXCEPT ![s] = EmptySlot]
    /\ lastId' = lastId

NoServer == \A s \in Slot : slot[s].kind # "server"

SessionMove ==
    \/ \E s \in Slot : \/ Opening(s, "client")
                       \/ Opening(s, "server") /\ NoServer
                       \/ \E phase \in {"open", "left", "closing"} :
                             Turning(s, phase)
                       \/ Freeing(s)
    \/ UNCHANGED <<slot, lastId>>

(* ServerSessions: at first no slot is used, and each step opens, turns or  *)
(* frees one.                                                               *)
LEMMA SessionsStart ==
    ASSUME ProgramsAssumption, C!SessionsInit
    PROVE  Sessions
  <1>1. MaxIds \in Nat
    BY DEF ProgramsAssumption
  <1>2. slot = [s \in Slot |-> EmptySlot] /\ lastId = 0
    BY DEF C!SessionsInit, C!NoSession, EmptySlot
  <1>3. EmptySlot \in SlotType /\ EmptySlot.phase = "free"
        /\ EmptySlot.kind = "client"
    BY <1>1 DEF EmptySlot, SlotType
  <1> QED
    BY <1>1, <1>2, <1>3 DEF Sessions, Used

LEMMA OpeningDoes ==
    ASSUME Sessions, MaxIds \in Nat, NEW s \in Slot,
           NEW kind \in {"client", "server"}, Opening(s, kind),
           kind = "server" => NoServer
    PROVE  /\ Sessions' /\ lastId' = lastId + 1 /\ ~Used(s)
           /\ slot'[s] = [id |-> lastId + 1, phase |-> "open", kind |-> kind]
           /\ \A r \in Slot \ {s} : slot'[r] = slot[r]
  <1> DEFINE new == [id |-> lastId + 1, phase |-> "open", kind |-> kind]
  <1>1. lastId \in 0 .. MaxIds /\ lastId' = lastId + 1
        /\ lastId + 1 \in 0 .. MaxIds /\ slot \in [Slot -> SlotType]
        /\ ~Used(s)
    BY DEF Sessions, Opening
  <1>2. new \in SlotType
    BY <1>1 DEF SlotType
  <1>3. slot' = [slot EXCEPT ![s] = new]
    BY <1>1 DEF Opening
  <1>4. /\ slot'[s] = new /\ slot' \in [Slot -> SlotType]
        /\ \A r \in Slot \ {s} : slot'[r] = slot[r]
    BY <1>1, <1>2, <1>3
  <1>5. ASSUME NEW r \in Slot
        PROVE  /\ ~Used(r)' => slot'[r] = EmptySlot
               /\ Used(r)' => slot'[r].id \in 1 .. lastId'
    BY <1>1, <1>4 DEF Sessions, Used
  <1>6. \A r \in Slot : slot[r].id <= lastId /\ slot[r].id \in Nat
    BY <1>1 DEF Sessions, Used, EmptySlot
  <1>7. ASSUME NEW r \in Slot, NEW q \in Slot, Used(r)',
               slot'[q].id = slot'[r].id
        PROVE  q = r
    BY <1>1, <1>4, <1>6, <1>7 DEF Sessions, Used
  <1>8. ASSUME NEW r \in Slot, NEW q \in Slot, slot'[r].kind = "server",
               slot'[q].kind = "server"
        PROVE  q = r
    BY <1>1, <1>4, <1>8 DEF Sessions, NoServer
  <1> QED
    BY <1>1, <1>4, <1>5, <1>7, <1>8 DEF Sessions

LEMMA TurningDoes ==
    ASSUME Sessions, NEW s \in Slot, NEW phase, Turning(s, phase)
    PROVE  /\ Sessions' /\ lastId' = lastId /\ Used(s)
           /\ slot'[s].phase = phase /\ slot'[s].id = slot[s].id
           /\ slot'[s].kind = slot[s].kind
           /\ \A r \in Slot \ {s} : slot'[r] = slot[r]
  <1>1. slot \in [Slot -> SlotType] /\ slot[s] \in SlotType
        /\ \A r, q \in Slot : slot[r].kind = "server" /\ slot[q].kind = "server" => q = r
    BY DEF Sessions
  <1>2. /\ slot' \in [Slot -> SlotType]
        /\ slot'[s].phase = phase /\ slot'[s].id = slot[s].id
        /\ slot'[s].kind = slot[s].kind
        /\ \A r \in Slot \ {s} : slot'[r] = slot[r]
    BY <1>1 DEF Turning, SlotType
  <1>3. lastId' = lastId /\ Used(s) /\ phase # "free"
    BY DEF Turning
  <1>4. \A r, q \in Slot :
           slot'[r].kind = "server" /\ slot'[q].kind = "server" => q = r
    BY <1>1, <1>2
  <1> QED
    BY <1>2, <1>3, <1>4 DEF Sessions, Used

LEMMA FreeingDoes ==
    ASSUME Sessions, MaxIds \in Nat, NEW s \in Slot, Freeing(s)
    PROVE  /\ Sessions' /\ lastId' = lastId /\ slot[s].phase = "closing"
           /\ slot'[s] = EmptySlot
           /\ \A r \in Slot \ {s} : slot'[r] = slot[r]
  <1>1. slot \in [Slot -> SlotType] /\ EmptySlot.id = 0
        /\ EmptySlot.kind = "client" /\ EmptySlot.phase = "free"
        /\ lastId' = lastId /\ slot[s].phase = "closing"
    BY DEF Sessions, EmptySlot, Freeing
  <1>2. EmptySlot \in SlotType
    BY DEF Sessions, EmptySlot, SlotType
  <1>3. /\ slot'[s] = EmptySlot /\ slot' \in [Slot -> SlotType]
        /\ \A r \in Slot \ {s} : slot'[r] = slot[r]
    BY <1>1, <1>2 DEF Freeing
  <1>4. \A r \in Slot : Used(r)' => r # s /\ Used(r) /\ slot[r].id \in 1 .. lastId
    BY <1>1, <1>3 DEF Sessions, Used
  <1>5. ASSUME NEW r \in Slot, NEW q \in Slot, Used(r)',
               slot'[q].id = slot'[r].id
        PROVE  q = r
    BY <1>1, <1>3, <1>4, <1>5 DEF Sessions, Used
  <1>6. ASSUME NEW r \in Slot
        PROVE  /\ ~Used(r)' => slot'[r] = EmptySlot
               /\ Used(r)' => slot'[r].id \in 1 .. lastId'
    BY <1>1, <1>3 DEF Sessions, Used
  <1>7. \A r, q \in Slot :
           slot'[r].kind = "server" /\ slot'[q].kind = "server" => q = r
    BY <1>1, <1>3 DEF Sessions
  <1> QED
    BY <1>1, <1>3, <1>5, <1>6, <1>7 DEF Sessions

LEMMA SessionsMove ==
    ASSUME Sessions, MaxIds \in Nat, SessionMove
    PROVE  Sessions'
  <1>1. CASE UNCHANGED <<slot, lastId>>
    BY <1>1 DEF Sessions, Used
  <1> QED
    BY <1>1, OpeningDoes, TurningDoes, FreeingDoes DEF SessionMove

-----------------------------------------------------------------------------
(* The login server. *)
Clients == {s \in Slot : IsHere(s) /\ slot[s].kind = "client"}
Counting == {w \in Worker : wTh[w].pc = "count"}
LoginThread == [pc : {"idle", "check", "token", "send", "count"}, slot : Slot,
                id : 0 .. MaxIds, account : Account]

LoginTypes ==
    /\ user \in [Slot -> [alive : BOOLEAN, sessionID : 0 .. MaxIds]]
    /\ currentUserCount \in 0 .. Wrap - 1
    /\ token \in [Account -> 0 .. MaxIds]
    /\ wTh \in [Worker -> LoginThread]
    /\ logins \in Nat /\ answered \in Nat /\ loginSuccessCount \in Nat
    /\ reported \in Nat /\ wLost \in 0 .. 1
LoginUsers ==
    \A s \in Slot : user[s] = IF s \in Clients
                              THEN [alive |-> TRUE, sessionID |-> slot[s].id]
                              ELSE [alive |-> FALSE, sessionID |-> 0]
LoginCount == currentUserCount = Wrapped(Cardinality(Clients) - wLost, Wrap)
(* The connection to the monitoring server is lost once at most.            *)
LoginLost ==
    wLost = 1 => \A s \in Slot : IsHere(s) => slot[s].kind = "client"
(* A worker is at work on a session that is still here.                     *)
LoginWork ==
    \A w \in Worker : wTh[w].pc # "idle" =>
        wTh[w].slot \in Clients /\ slot[wTh[w].slot].id = wTh[w].id
LoginSent == \A w \in Worker : wTh[w].pc = "send" => token[wTh[w].account] # 0
LoginSum == reported + loginSuccessCount + Cardinality(Counting) = answered

LoginInv == LoginTypes /\ LoginUsers /\ LoginCount /\ LoginLost /\ LoginWork
            /\ LoginSent /\ LoginSum

(* What ProgramsAssumption says of this part.                               *)
LEMMA LoginParameters ==
    ASSUME ProgramsAssumption
    PROVE  /\ MaxIds \in Nat /\ Wrap \in Nat /\ Cardinality(Slot) < Wrap
           /\ Cardinality(Slot) \in Nat /\ 1 < Wrap
           /\ IsFiniteSet(Clients) /\ Cardinality(Clients) \in Nat
           /\ Cardinality(Clients) <= Cardinality(Slot)
           /\ IsFiniteSet(Counting) /\ Cardinality(Counting) \in Nat
  <1>1. /\ IsFiniteSet(Slot) /\ Slot # {} /\ IsFiniteSet(Worker)
        /\ MaxIds \in Nat /\ Wrap \in Nat /\ Wrap > Cardinality(Slot) + MaxIds
    BY DEF ProgramsAssumption
  <1>2. Clients \subseteq Slot /\ Counting \subseteq Worker
    BY DEF Clients, Counting
  <1>3. Cardinality(Slot) \in Nat /\ Cardinality(Slot) # 0
    BY <1>1, FS_CardinalityType, FS_EmptySet
  <1>4. /\ IsFiniteSet(Clients) /\ Cardinality(Clients) <= Cardinality(Slot)
        /\ IsFiniteSet(Counting)
    BY <1>1, <1>2, FS_Subset
  <1>5. Cardinality(Clients) \in Nat /\ Cardinality(Counting) \in Nat
    BY <1>4, FS_CardinalityType
  <1> QED
    BY <1>1, <1>3, <1>4, <1>5

(* At first there is no user.                                               *)
LEMMA LoginStart ==
    ASSUME ProgramsAssumption, C!SessionsInit, L!LoginInit(Idle)
    PROVE  LoginInv
  <1>1. /\ slot = [s \in Slot |-> EmptySlot] /\ lastId = 0
        /\ EmptySlot.phase = "free"
    BY DEF C!SessionsInit, C!NoSession, EmptySlot
  <1>2. Clients = {} /\ Cardinality(Clients) = 0
    BY <1>1, FS_EmptySet DEF Clients, IsHere
  <1>3. /\ user = [s \in Slot |-> [alive |-> FALSE, sessionID |-> 0]]
        /\ currentUserCount = 0 /\ token = [a \in Account |-> 0]
        /\ wTh = [w \in Worker |-> Idle]
        /\ logins = 0 /\ answered = 0 /\ loginSuccessCount = 0
        /\ reported = 0 /\ wLost = 0
    BY DEF L!LoginInit, L!NoUser
  <1>4. Idle \in LoginThread /\ Idle.pc = "idle"
    BY LoginParameters DEF Idle, LoginThread, ProgramsAssumption
  <1>5. Counting = {} /\ Cardinality(Counting) = 0
    BY <1>3, <1>4, FS_EmptySet DEF Counting
  <1>6. Wrapped(0 - 0, Wrap) = 0
    BY LoginParameters DEF Wrapped
  <1>7. LoginTypes
    BY <1>3, <1>4, LoginParameters DEF LoginTypes
  <1> QED
    BY <1>2, <1>3, <1>4, <1>5, <1>6, <1>7
       DEF LoginInv, LoginUsers, LoginCount, LoginLost, LoginWork, LoginSent,
           LoginSum

(* currentUserCount wraps around as the number of clients less wLost does.  *)
LEMMA CountUp ==
    ASSUME NEW W \in Nat, NEW k \in Nat, NEW l \in 0 .. 1, k + 1 < W
    PROVE  /\ (Wrapped(k - l, W) + 1) % W = Wrapped(k + 1 - l, W)
           /\ Wrapped(k + 1 - l, W) \in 0 .. W - 1
  <1>1. PICK c \in Int : c = Wrapped(k - l, W)
    BY DEF Wrapped
  <1>2. W > 0 /\ c + 1 \in Int /\ -W <= c + 1 /\ c + 1 < 2 * W
    BY <1>1 DEF Wrapped
  <1>3. (c + 1) % W = Wrapped(c + 1, W)
    BY <1>2, Remainder
  <1>4. Wrapped(c + 1, W) = Wrapped(k + 1 - l, W)
    BY <1>1 DEF Wrapped
  <1>5. Wrapped(k + 1 - l, W) \in 0 .. W - 1
    BY DEF Wrapped
  <1> QED
    BY <1>1, <1>3, <1>4, <1>5

LEMMA CountDown ==
    ASSUME NEW W \in Nat, NEW k \in Nat, NEW l \in 0 .. 1, k < W, k - l >= 0
    PROVE  /\ (Wrapped(k - l, W) - 1) % W = Wrapped(k - l - 1, W)
           /\ Wrapped(k - l - 1, W) \in 0 .. W - 1
  <1>1. PICK c \in Int : c = Wrapped(k - l, W)
    BY DEF Wrapped
  <1>2. W > 0 /\ c - 1 \in Int /\ -W <= c - 1 /\ c - 1 < 2 * W
    BY <1>1 DEF Wrapped
  <1>3. (c - 1) % W = Wrapped(c - 1, W)
    BY <1>2, Remainder
  <1>4. Wrapped(c - 1, W) = Wrapped(k - l - 1, W)
    BY <1>1 DEF Wrapped
  <1>5. Wrapped(k - l - 1, W) \in 0 .. W - 1
    BY DEF Wrapped
  <1> QED
    BY <1>1, <1>3, <1>4, <1>5

(* The actions of the login server, one by one.                             *)
LEMMA LoginAccepts ==
    ASSUME ProgramsAssumption, Sessions, LoginInv, NEW s \in Slot, L!OnAccept(s)
    PROVE  Sessions' /\ LoginInv'
  <1>1. Opening(s, "client")
    BY DEF L!OnAccept, L!Opened, Opening, Used
  <1>2. /\ Sessions' /\ lastId' = lastId + 1 /\ ~Used(s)
        /\ slot'[s] = [id |-> lastId + 1, phase |-> "open", kind |-> "client"]
        /\ \A r \in Slot \ {s} : slot'[r] = slot[r]
    BY <1>1, OpeningDoes, LoginParameters
  <1>3. lastId + 1 \in 0 .. MaxIds /\ lastId \in Nat
    BY <1>2 DEF Sessions
  <1>4. s \notin Clients /\ Clients' = Clients \cup {s} /\ Clients \subseteq Slot
    BY <1>2 DEF Clients, IsHere, Used
  <1>5. /\ user' = [user EXCEPT ![s] = [alive |-> TRUE, sessionID |-> lastId + 1]]
        /\ currentUserCount' = (currentUserCount + 1) % Wrap
        /\ UNCHANGED <<token, wTh, logins, answered, loginSuccessCount,
                       reported, wLost>>
    BY <1>2 DEF L!OnAccept
  <1>6. PICK k \in Nat : k = Cardinality(Clients)
    BY LoginParameters
  <1>7. Cardinality(Clients') = k + 1
    BY <1>4, <1>6, LoginParameters, OneMore
  <1>8. k + 1 < Wrap /\ Wrap \in Nat
    <2>1. Clients' \subseteq Slot /\ IsFiniteSet(Slot)
      BY DEF Clients, ProgramsAssumption
    <2>2. Cardinality(Clients') <= Cardinality(Slot)
      BY <2>1, FS_Subset
    <2> QED
      BY <1>7, <2>2, LoginParameters
  <1>9. wLost \in 0 .. 1 /\ currentUserCount = Wrapped(k - wLost, Wrap)
    BY <1>6 DEF LoginInv, LoginTypes, LoginCount
  <1>10. currentUserCount' = Wrapped(k + 1 - wLost, Wrap)
         /\ currentUserCount' \in 0 .. Wrap - 1
    BY <1>5, <1>8, <1>9, CountUp
  <1>11. LoginTypes'
    BY <1>3, <1>5, <1>10 DEF LoginInv, LoginTypes
  <1>12. LoginUsers'
    <2>1. ASSUME NEW r \in Slot
          PROVE  user'[r] = IF r \in Clients'
                            THEN [alive |-> TRUE, sessionID |-> slot'[r].id]
                            ELSE [alive |-> FALSE, sessionID |-> 0]
      <3>1. r = s => user'[r] = [alive |-> TRUE, sessionID |-> lastId + 1]
        BY <1>5 DEF LoginInv, LoginTypes
      <3>2. r # s => user'[r] = user[r] /\ slot'[r] = slot[r]
        BY <1>2, <1>5 DEF LoginInv, LoginTypes
      <3>3. slot'[s].id = lastId + 1
        BY <1>2
      <3> QED
        BY <3>1, <3>2, <3>3, <1>4 DEF LoginInv, LoginUsers
    <2> QED
      BY <2>1 DEF LoginUsers
  <1>13. LoginCount'
    <2>1. wLost' = wLost /\ Cardinality(Clients') - wLost' = k + 1 - wLost
      BY <1>5, <1>7, <1>9
    <2>2. currentUserCount' = Wrapped(Cardinality(Clients') - wLost', Wrap)
      BY <2>1, <1>10
    <2> QED
      BY <2>2 DEF LoginCount
  <1>14. LoginLost'
    BY <1>2, <1>3, <1>5 DEF LoginInv, LoginLost, IsHere
  <1>15. LoginWork'
    BY <1>2, <1>4, <1>5 DEF LoginInv, LoginWork
  <1>16. LoginSent'
    BY <1>5 DEF LoginInv, LoginSent
  <1>17. LoginSum'
    BY <1>5 DEF LoginInv, LoginSum, Counting
  <1> QED
    BY <1>2, <1>11, <1>12, <1>13, <1>14, <1>15, <1>16, <1>17 DEF LoginInv

(* When the users and those who count are as before, so is the rest.        *)
LEMMA LoginRests ==
    ASSUME LoginInv,
           UNCHANGED <<user, currentUserCount, token, wTh, logins, answered,
                       loginSuccessCount, reported, wLost>>,
           Clients' = Clients,
           \A s \in Clients : slot'[s].id = slot[s].id,
           \A s \in Slot : /\ wLost = 1 /\ IsHere(s)' => IsHere(s)
                           /\ IsHere(s) => slot'[s].kind = slot[s].kind
    PROVE  LoginInv'
  <1>1. LoginTypes'
    BY DEF LoginInv, LoginTypes
  <1>2. LoginUsers'
    BY DEF LoginInv, LoginUsers
  <1>3. LoginCount'
    BY DEF LoginInv, LoginCount
  <1>4. LoginLost'
    BY DEF LoginInv, LoginLost
  <1>5. LoginWork'
    BY DEF LoginInv, LoginWork
  <1>6. LoginSent' /\ LoginSum'
    BY DEF LoginInv, LoginSent, LoginSum, Counting
  <1> QED
    BY <1>1, <1>2, <1>3, <1>4, <1>5, <1>6 DEF LoginInv

LEMMA LoginRegists ==
    ASSUME ProgramsAssumption, Sessions, LoginInv, NEW s \in Slot,
           L!RegistMonitor(s)
    PROVE  Sessions' /\ LoginInv'
  <1>1. Opening(s, "server") /\ NoServer /\ wLost = 0
    BY DEF L!RegistMonitor, L!Opened, Opening, Used, NoServer
  <1>2. /\ Sessions' /\ lastId' = lastId + 1 /\ ~Used(s)
        /\ slot'[s] = [id |-> lastId + 1, phase |-> "open", kind |-> "server"]
        /\ \A r \in Slot \ {s} : slot'[r] = slot[r]
    BY <1>1, OpeningDoes, LoginParameters
  <1>3. Clients' = Clients /\ s \notin Clients /\ ~IsHere(s)
    BY <1>2 DEF Clients, IsHere, Used
  <1> QED
    BY <1>1, <1>2, <1>3, LoginRests DEF L!RegistMonitor, L!loginVars, Clients

LEMMA LoginLeaves ==
    ASSUME ProgramsAssumption, Sessions, LoginInv, NEW s \in Slot, L!PeerLeaves(s)
    PROVE  Sessions' /\ LoginInv'
  <1>1. Turning(s, "left") /\ slot[s].phase = "open"
    BY DEF L!PeerLeaves, L!Leaves, Turning, Used
  <1>2. /\ Sessions' /\ lastId' = lastId /\ lastId \in Nat
        /\ slot'[s].phase = "left" /\ slot'[s].id = slot[s].id
        /\ slot'[s].kind = slot[s].kind
        /\ \A r \in Slot \ {s} : slot'[r] = slot[r]
    BY <1>1, TurningDoes DEF Sessions
  <1>3. Clients' = Clients /\ \A r \in Slot : IsHere(r)' <=> IsHere(r)
    BY <1>1, <1>2 DEF Clients, IsHere
  <1> QED
    BY <1>1, <1>2, <1>3, LoginRests DEF L!PeerLeaves, L!loginVars, Clients

LEMMA LoginFrees ==
    ASSUME ProgramsAssumption, Sessions, LoginInv, NEW s \in Slot, L!Free(s)
    PROVE  Sessions' /\ LoginInv'
  <1>1. Freeing(s)
    BY DEF L!Free, L!Freed, L!NoSession, EmptySlot, Freeing
  <1>2. /\ Sessions' /\ lastId' = lastId /\ lastId \in Nat
        /\ slot[s].phase = "closing" /\ slot'[s] = EmptySlot
        /\ \A r \in Slot \ {s} : slot'[r] = slot[r]
    BY <1>1, FreeingDoes, LoginParameters DEF Sessions
  <1>3. /\ Clients' = Clients /\ s \notin Clients /\ ~IsHere(s)
        /\ \A r \in Slot : IsHere(r)' <=> IsHere(r)
    BY <1>2 DEF Clients, IsHere, EmptySlot
  <1> QED
    BY <1>2, <1>3, LoginRests DEF L!Free, L!loginVars, Clients

LEMMA LoginDisconnects ==
    ASSUME ProgramsAssumption, Sessions, LoginInv, NEW s \in Slot,
           L!OnDisConnect(s)
    PROVE  Sessions' /\ LoginInv'
  <1>1. Turning(s, "closing") /\ slot[s].phase = "left"
    BY DEF L!OnDisConnect, L!Disconnected, Turning, Used
  <1>2. /\ Sessions' /\ lastId' = lastId /\ lastId \in Nat
        /\ slot'[s].phase = "closing" /\ slot'[s].id = slot[s].id
        /\ slot'[s].kind = slot[s].kind
        /\ \A r \in Slot \ {s} : slot'[r] = slot[r]
    BY <1>1, TurningDoes DEF Sessions
  <1>3. /\ currentUserCount' = (currentUserCount - 1) % Wrap
        /\ user' = IF user[s].sessionID = slot[s].id
                   THEN [user EXCEPT ![s] = [alive |-> FALSE, sessionID |-> 0]]
                   ELSE user
        /\ wLost' = IF slot[s].kind = "server" THEN wLost + 1 ELSE wLost
        /\ UNCHANGED <<token, wTh, logins, answered, loginSuccessCount, reported>>
        /\ \A w \in Worker : wTh[w].pc # "idle" => wTh[w].slot # s
    BY DEF L!OnDisConnect, L!DeleteUser, L!NoUser, L!AtWorkOn
  <1>4. Clients' = Clients \ {s} /\ IsHere(s) /\ ~IsHere(s)'
        /\ Clients \subseteq Slot
        /\ \A r \in Slot \ {s} : IsHere(r)' <=> IsHere(r)
    BY <1>1, <1>2 DEF Clients, IsHere
  <1>5. PICK k \in Nat : k = Cardinality(Clients)
    BY LoginParameters
  <1>6. /\ wLost \in 0 .. 1 /\ currentUserCount = Wrapped(k - wLost, Wrap)
        /\ k < Wrap /\ Wrap \in Nat
    BY <1>5, LoginParameters DEF LoginInv, LoginTypes, LoginCount
  <1>7. /\ wLost' \in 0 .. 1 /\ k - wLost >= 0
        /\ Cardinality(Clients') - wLost' = k - wLost - 1
        /\ slot[s].kind = "server" => wLost' = 1
        /\ slot[s].kind # "server" => wLost' = wLost /\ slot[s].kind = "client"
    <2>1. CASE slot[s].kind = "server"
      <3>1. wLost # 1 /\ s \notin Clients
        BY <2>1, <1>4 DEF LoginInv, LoginLost, Clients
      <3>2. Clients' = Clients
        BY <3>1, <1>4
      <3> QED
        BY <2>1, <3>1, <3>2, <1>3, <1>5, <1>6 DEF Sessions
    <2>2. CASE slot[s].kind # "server"
      <3>1. s \in Clients
        BY <2>2, <1>4 DEF Clients, Sessions, SlotType
      <3>2. Cardinality(Clients') = k - 1 /\ k # 0
        BY <3>1, <1>4, <1>5, LoginParameters, OneLess
      <3> QED
        BY <2>2, <3>1, <3>2, <1>3, <1>5, <1>6 DEF Clients
    <2> QED
      BY <2>1, <2>2
  <1>8. /\ currentUserCount' = Wrapped(Cardinality(Clients') - wLost', Wrap)
        /\ currentUserCount' \in 0 .. Wrap - 1
    BY <1>3, <1>6, <1>7, CountDown
  <1>9. LoginTypes'
    <2>1. user' \in [Slot -> [alive : BOOLEAN, sessionID : 0 .. MaxIds]]
      BY <1>3, LoginParameters DEF LoginInv, LoginTypes
    <2> QED
      BY <2>1, <1>3, <1>7, <1>8 DEF LoginInv, LoginTypes
  <1>10. LoginUsers'
    <2>1. ASSUME NEW r \in Slot
          PROVE  user'[r] = IF r \in Clients'
                            THEN [alive |-> TRUE, sessionID |-> slot'[r].id]
                            ELSE [alive |-> FALSE, sessionID |-> 0]
      <3>1. CASE r = s
        <4>1. s \notin Clients' /\ user \in [Slot -> [alive : BOOLEAN, sessionID : 0 .. MaxIds]]
          BY <1>4 DEF LoginInv, LoginTypes
        <4>2. CASE s \in Clients
          BY <3>1, <4>1, <4>2, <1>3 DEF LoginInv, LoginUsers
        <4>3. CASE s \notin Clients
          <5>1. user[s] = [alive |-> FALSE, sessionID |-> 0]
            BY <4>3 DEF LoginInv, LoginUsers
          <5> QED
            BY <3>1, <5>1, <4>1, <1>3
        <4> QED
          BY <4>2, <4>3
      <3>2. CASE r # s
        <4>1. user'[r] = user[r]
          BY <3>2, <1>3 DEF LoginInv, LoginTypes
        <4> QED
          BY <4>1, <3>2, <1>2, <1>4 DEF LoginInv, LoginUsers
      <3> QED
        BY <3>1, <3>2
    <2> QED
      BY <2>1 DEF LoginUsers
  <1>11. LoginCount'
    BY <1>8 DEF LoginCount
  <1>12. LoginLost'
    <2>1. ASSUME NEW r \in Slot, slot[r].kind # "client", r # s,
                 slot[s].kind = "server"
          PROVE  FALSE
      BY <2>1, <1>1 DEF Sessions, SlotType, Used
    <2>2. wLost' = 1 => wLost = 1 \/ slot[s].kind = "server"
      BY <1>7
    <2> QED
      BY <2>1, <2>2, <1>2, <1>4 DEF LoginInv, LoginLost
  <1>13. LoginWork'
    BY <1>2, <1>3, <1>4 DEF LoginInv, LoginWork
  <1>14. LoginSent' /\ LoginSum'
    BY <1>3 DEF LoginInv, LoginSent, LoginSum, Counting
  <1> QED
    BY <1>2, <1>9, <1>10, <1>11, <1>12, <1>13, <1>14 DEF LoginInv

-----------------------------------------------------------------------------
LEMMA LoginMessage ==
    ASSUME ProgramsAssumption, Sessions, LoginInv, NEW s \in Slot,
           NEW w \in Worker, NEW a \in Account, L!OnMessage(w, s, a)
    PROVE  Sessions' /\ LoginInv'
  <1> DEFINE new == [pc |-> "check", slot |-> s, id |-> slot[s].id, account |-> a]
  <1>1. /\ IsHere(s) /\ slot[s].kind = "client"
        /\ wTh[w].pc = "idle"
        /\ wTh' = [wTh EXCEPT ![w] = new]
        /\ logins' = logins + 1
        /\ UNCHANGED <<slot, lastId, user, currentUserCount, token, answered,
                       loginSuccessCount, reported, wLost>>
    BY DEF L!OnMessage, L!sessionVars, L!Here, IsHere
  <1>2. new \in LoginThread /\ wTh \in [Worker -> LoginThread]
    BY DEF LoginThread, Sessions, SlotType, LoginInv, LoginTypes
  <1>3. wTh' \in [Worker -> LoginThread] /\ wTh'[w] = new
        /\ \A v \in Worker \ {w} : wTh'[v] = wTh[v]
    BY <1>1, <1>2
  <1>4. Sessions'
    BY <1>1, SessionsMove, LoginParameters DEF SessionMove
  <1>5. Clients' = Clients /\ s \in Clients
    BY <1>1 DEF Clients, IsHere
  <1>6. LoginTypes' /\ LoginUsers' /\ LoginCount' /\ LoginLost'
    BY <1>1, <1>3, <1>5
       DEF LoginInv, LoginTypes, LoginUsers, LoginCount, LoginLost, IsHere
  <1>7. LoginWork' /\ LoginSent'
    BY <1>1, <1>3, <1>5 DEF LoginInv, LoginWork, LoginSent
  <1>8. Counting' = Counting
    BY <1>1, <1>3 DEF Counting
  <1>9. LoginSum'
    BY <1>1, <1>8 DEF LoginInv, LoginSum
  <1> QED
    BY <1>4, <1>6, <1>7, <1>9 DEF LoginInv

(* A worker goes on.                                                        *)
LEMMA LoginGoes ==
    ASSUME LoginInv, NEW w \in Worker,
           NEW to \in {"idle", "check", "token", "send", "count"}, L!Goto(w, to)
    PROVE  /\ wTh' \in [Worker -> LoginThread]
           /\ wTh'[w].pc = to /\ wTh'[w].slot = wTh[w].slot
           /\ wTh'[w].id = wTh[w].id /\ wTh'[w].account = wTh[w].account
           /\ \A v \in Worker \ {w} : wTh'[v] = wTh[v]
           /\ Counting' = IF to = "count" THEN Counting \cup {w}
                          ELSE Counting \ {w}
  <1>1. wTh \in [Worker -> LoginThread]
        /\ wTh' = [wTh EXCEPT ![w].pc = to]
    BY DEF LoginInv, LoginTypes, L!Goto
  <1>2. /\ wTh' \in [Worker -> LoginThread]
        /\ wTh'[w].pc = to /\ wTh'[w].slot = wTh[w].slot
        /\ wTh'[w].id = wTh[w].id /\ wTh'[w].account = wTh[w].account
        /\ \A v \in Worker \ {w} : wTh'[v] = wTh[v]
    BY <1>1 DEF LoginThread
  <1> QED
    BY <1>2 DEF Counting

(* The steps of a worker on a login.                                        *)
LEMMA LoginChecks ==
    ASSUME ProgramsAssumption, Sessions, LoginInv, NEW w \in Worker,
           L!CheckUser(w)
    PROVE  Sessions' /\ LoginInv'
  <1>1. /\ wTh[w].pc = "check" /\ L!Goto(w, "token")
        /\ UNCHANGED <<slot, lastId, user, currentUserCount, token, logins,
                       answered, loginSuccessCount, reported, wLost>>
    BY DEF L!CheckUser, L!sessionVars
  <1>2. /\ wTh' \in [Worker -> LoginThread]
        /\ wTh'[w].pc = "token" /\ wTh'[w].slot = wTh[w].slot
        /\ wTh'[w].id = wTh[w].id
        /\ \A v \in Worker \ {w} : wTh'[v] = wTh[v]
        /\ Counting' = Counting \ {w}
    BY <1>1, LoginGoes
  <1>3. Sessions' /\ Clients' = Clients /\ Counting' = Counting
    BY <1>1, <1>2, SessionsMove, LoginParameters
       DEF SessionMove, Clients, IsHere, Counting
  <1>4. LoginTypes' /\ LoginUsers' /\ LoginCount' /\ LoginLost'
    BY <1>1, <1>2, <1>3
       DEF LoginInv, LoginTypes, LoginUsers, LoginCount, LoginLost, IsHere
  <1>5. LoginWork' /\ LoginSent'
    BY <1>1, <1>2, <1>3 DEF LoginInv, LoginWork, LoginSent
  <1>6. LoginSum'
    BY <1>1, <1>3 DEF LoginInv, LoginSum
  <1> QED
    BY <1>3, <1>4, <1>5, <1>6 DEF LoginInv

LEMMA LoginRefuses ==
    ASSUME ProgramsAssumption, Sessions, LoginInv, NEW w \in Worker,
           L!BadMessage(w)
    PROVE  Sessions' /\ LoginInv'
  <1> DEFINE s == wTh[w].slot
  <1>1. /\ wTh[w].pc = "check" /\ L!Goto(w, "idle")
        /\ slot' = L!Aborted(s, wTh[w].id)
        /\ UNCHANGED <<lastId, user, currentUserCount, token, logins,
                       answered, loginSuccessCount, reported, wLost>>
    BY DEF L!BadMessage
  <1>2. /\ wTh' \in [Worker -> LoginThread] /\ wTh'[w].pc = "idle"
        /\ \A v \in Worker \ {w} : wTh'[v] = wTh[v]
        /\ Counting' = Counting \ {w}
    BY <1>1, LoginGoes
  <1>3. Counting' = Counting
    BY <1>1, <1>2 DEF Counting
  <1>4. s \in Clients /\ s \in Slot
    BY <1>1 DEF LoginInv, LoginWork, Clients
  <1>5. \/ slot' = slot
        \/ slot[s].phase = "open" /\ slot' = [slot EXCEPT ![s].phase = "left"]
    BY <1>1 DEF L!Aborted
  <1> HIDE DEF s
  <1>6. slot' = slot \/ Turning(s, "left")
    BY <1>1, <1>5 DEF Turning, Used
  <1>7. /\ Sessions' /\ \A r \in Slot : /\ slot'[r].id = slot[r].id
                                        /\ slot'[r].kind = slot[r].kind
                                        /\ IsHere(r)' <=> IsHere(r)
    <2>1. CASE slot' = slot
      BY <2>1, <1>1, SessionsMove, LoginParameters DEF SessionMove, IsHere
    <2>2. CASE slot' # slot
      <3>1. /\ Sessions' /\ slot'[s].phase = "left"
            /\ slot'[s].id = slot[s].id /\ slot'[s].kind = slot[s].kind
            /\ \A r \in Slot \ {s} : slot'[r] = slot[r]
        BY <2>2, <1>4, <1>6, TurningDoes
      <3> QED
        BY <3>1, <1>4 DEF IsHere, Clients
    <2> QED
      BY <2>1, <2>2
  <1>8. Clients' = Clients /\ Clients \subseteq Slot
    BY <1>7 DEF Clients
  <1>9. LoginTypes' /\ LoginUsers' /\ LoginCount' /\ LoginLost'
    BY <1>1, <1>2, <1>7, <1>8
       DEF LoginInv, LoginTypes, LoginUsers, LoginCount, LoginLost
  <1>10. LoginWork' /\ LoginSent'
    BY <1>1, <1>2, <1>7, <1>8 DEF LoginInv, LoginWork, LoginSent
  <1>11. LoginSum'
    BY <1>1, <1>3 DEF LoginInv, LoginSum
  <1> QED
    BY <1>7, <1>9, <1>10, <1>11 DEF LoginInv

LEMMA LoginTokens ==
    ASSUME ProgramsAssumption, Sessions, LoginInv, NEW w \in Worker,
           L!SetToken(w)
    PROVE  Sessions' /\ LoginInv'
  <1> DEFINE a == wTh[w].account
             i == wTh[w].id
  <1>1. /\ wTh[w].pc = "token" /\ L!Goto(w, "send")
        /\ token' = [token EXCEPT ![a] = i]
        /\ UNCHANGED <<slot, lastId, user, currentUserCount, logins,
                       answered, loginSuccessCount, reported, wLost>>
    BY DEF L!SetToken, L!sessionVars
  <1>2. /\ wTh' \in [Worker -> LoginThread] /\ wTh'[w].pc = "send"
        /\ wTh'[w].slot = wTh[w].slot
        /\ wTh'[w].id = wTh[w].id /\ wTh'[w].account = a
        /\ \A v \in Worker \ {w} : wTh'[v] = wTh[v]
        /\ Counting' = Counting \ {w}
    BY <1>1, LoginGoes
  <1>3. Sessions' /\ Clients' = Clients /\ Counting' = Counting
    BY <1>1, <1>2, SessionsMove, LoginParameters
       DEF SessionMove, Clients, IsHere, Counting
  <1>4. a \in Account /\ i \in 0 .. MaxIds /\ token \in [Account -> 0 .. MaxIds]
    BY DEF LoginInv, LoginTypes, LoginThread
  <1>5. i # 0
    BY <1>1 DEF LoginInv, LoginWork, Sessions, Clients, IsHere, Used
  <1> HIDE DEF a, i
  <1>6. token' \in [Account -> 0 .. MaxIds] /\ token'[a] # 0
        /\ \A b \in Account : token[b] # 0 => token'[b] # 0
    BY <1>1, <1>4, <1>5
  <1>7. LoginTypes' /\ LoginUsers' /\ LoginCount' /\ LoginLost'
    BY <1>1, <1>2, <1>3, <1>6
       DEF LoginInv, LoginTypes, LoginUsers, LoginCount, LoginLost, IsHere
  <1>8. LoginWork'
    BY <1>1, <1>2, <1>3 DEF LoginInv, LoginWork
  <1>9. LoginSent'
    BY <1>2, <1>6 DEF LoginInv, LoginSent, LoginTypes, LoginThread
  <1>10. LoginSum'
    BY <1>1, <1>3 DEF LoginInv, LoginSum
  <1> QED
    BY <1>3, <1>7, <1>8, <1>9, <1>10 DEF LoginInv

LEMMA LoginAnswers ==
    ASSUME ProgramsAssumption, Sessions, LoginInv, NEW w \in Worker,
           L!SendPacket(w)
    PROVE  Sessions' /\ LoginInv'
  <1>1. /\ wTh[w].pc = "send" /\ L!Goto(w, "count") /\ answered' = answered + 1
        /\ UNCHANGED <<slot, lastId, user, currentUserCount, token, logins,
                       loginSuccessCount, reported, wLost>>
    BY DEF L!SendPacket, L!sessionVars
  <1>2. /\ wTh' \in [Worker -> LoginThread] /\ wTh'[w].pc = "count"
        /\ wTh'[w].slot = wTh[w].slot /\ wTh'[w].id = wTh[w].id
        /\ \A v \in Worker \ {w} : wTh'[v] = wTh[v]
        /\ Counting' = Counting \cup {w}
    BY <1>1, LoginGoes
  <1>3. Sessions' /\ Clients' = Clients /\ w \notin Counting
    BY <1>1, SessionsMove, LoginParameters
       DEF SessionMove, Clients, IsHere, Counting
  <1>4. Cardinality(Counting') = Cardinality(Counting) + 1
        /\ Cardinality(Counting) \in Nat
    BY <1>2, <1>3, LoginParameters, OneMore
  <1>5. answered \in Nat /\ reported \in Nat /\ loginSuccessCount \in Nat
    BY DEF LoginInv, LoginTypes
  <1>6. LoginTypes' /\ LoginUsers' /\ LoginCount' /\ LoginLost'
    BY <1>1, <1>2, <1>3
       DEF LoginInv, LoginTypes, LoginUsers, LoginCount, LoginLost, IsHere
  <1>7. LoginWork' /\ LoginSent'
    BY <1>1, <1>2, <1>3 DEF LoginInv, LoginWork, LoginSent
  <1>8. LoginSum'
    BY <1>1, <1>4, <1>5 DEF LoginInv, LoginSum
  <1> QED
    BY <1>3, <1>6, <1>7, <1>8 DEF LoginInv

LEMMA LoginCounts ==
    ASSUME ProgramsAssumption, Sessions, LoginInv, NEW w \in Worker,
           L!CountSuccess(w)
    PROVE  Sessions' /\ LoginInv'
  <1>1. /\ wTh[w].pc = "count" /\ L!Goto(w, "idle")
        /\ loginSuccessCount' = loginSuccessCount + 1
        /\ UNCHANGED <<slot, lastId, user, currentUserCount, token, logins,
                       answered, reported, wLost>>
    BY DEF L!CountSuccess, L!sessionVars
  <1>2. /\ wTh' \in [Worker -> LoginThread] /\ wTh'[w].pc = "idle"
        /\ \A v \in Worker \ {w} : wTh'[v] = wTh[v]
        /\ Counting' = Counting \ {w}
    BY <1>1, LoginGoes
  <1>3. Sessions' /\ Clients' = Clients /\ w \in Counting
    BY <1>1, SessionsMove, LoginParameters
       DEF SessionMove, Clients, IsHere, Counting
  <1>4. Cardinality(Counting') = Cardinality(Counting) - 1
        /\ Cardinality(Counting) \in Nat
    BY <1>2, <1>3, LoginParameters, OneLess
  <1>5. answered \in Nat /\ reported \in Nat /\ loginSuccessCount \in Nat
    BY DEF LoginInv, LoginTypes
  <1>6. LoginTypes' /\ LoginUsers' /\ LoginCount' /\ LoginLost'
    BY <1>1, <1>2, <1>3
       DEF LoginInv, LoginTypes, LoginUsers, LoginCount, LoginLost, IsHere
  <1>7. LoginWork' /\ LoginSent'
    BY <1>1, <1>2, <1>3 DEF LoginInv, LoginWork, LoginSent
  <1>8. LoginSum'
    BY <1>1, <1>4, <1>5 DEF LoginInv, LoginSum
  <1> QED
    BY <1>3, <1>6, <1>7, <1>8 DEF LoginInv

LEMMA LoginReports ==
    ASSUME ProgramsAssumption, Sessions, LoginInv, L!UpdateAllMonitorData
    PROVE  Sessions' /\ LoginInv'
  <1>1. /\ reported' = reported + loginSuccessCount /\ loginSuccessCount' = 0
        /\ UNCHANGED <<slot, lastId, user, currentUserCount, token, wTh, logins,
                       answered, wLost>>
    BY DEF L!UpdateAllMonitorData, L!sessionVars
  <1>2. Sessions' /\ Clients' = Clients /\ Counting' = Counting
    BY <1>1, SessionsMove, LoginParameters
       DEF SessionMove, Clients, IsHere, Counting
  <1>3. LoginTypes' /\ LoginUsers' /\ LoginCount' /\ LoginLost'
    BY <1>1, <1>2
       DEF LoginInv, LoginTypes, LoginUsers, LoginCount, LoginLost, IsHere
  <1>4. LoginWork' /\ LoginSent'
    BY <1>1, <1>2 DEF LoginInv, LoginWork, LoginSent
  <1>5. /\ answered \in Nat /\ reported \in Nat /\ loginSuccessCount \in Nat
        /\ Cardinality(Counting) \in Nat
    BY LoginParameters DEF LoginInv, LoginTypes
  <1>6. LoginSum'
    BY <1>1, <1>2, <1>5 DEF LoginInv, LoginSum
  <1> QED
    BY <1>2, <1>3, <1>4, <1>6 DEF LoginInv

(* Every step keeps the invariant.                                          *)
LEMMA LoginKept ==
    ASSUME ProgramsAssumption, Sessions, LoginInv, L!LoginNext
    PROVE  Sessions' /\ LoginInv'
  BY LoginAccepts, LoginRegists, LoginLeaves, LoginDisconnects, LoginFrees,
     LoginMessage, LoginChecks, LoginRefuses, LoginTokens, LoginAnswers,
     LoginCounts, LoginReports DEF L!LoginNext

(* What ServersAgree says of it.                                            *)
LEMMA LoginThen ==
    ASSUME ProgramsAssumption, Sessions, LoginInv
    PROVE  L!UsersAgree /\ L!LoginsAgree /\ L!LoginTypeOK
  <1>1. Clients = {s \in Slot : L!Here(s) /\ slot[s].kind = "client"}
    BY DEF Clients, IsHere, L!Here
  <1>2. PICK k \in Nat : k = Cardinality(Clients)
    BY LoginParameters
  <1>3. /\ wLost \in 0 .. 1 /\ k < Wrap /\ Wrap \in Nat /\ Wrap > 1
        /\ currentUserCount = Wrapped(k - wLost, Wrap)
    BY <1>2, LoginParameters DEF LoginInv, LoginTypes, LoginCount
  <1>4. /\ k - wLost \in Int /\ -Wrap <= k - wLost /\ k - wLost < 2 * Wrap
        /\ Wrap > 0
    BY <1>3
  <1>5. (k - wLost) % Wrap = Wrapped(k - wLost, Wrap)
    BY <1>3, <1>4, Remainder
  <1>6. currentUserCount =
          (Cardinality({s \in Slot : L!Here(s) /\ slot[s].kind = "client"})
             - wLost) % Wrap
    BY <1>1, <1>2, <1>3, <1>5
  <1>7. \A s \in Slot : user[s] = IF L!Here(s) /\ slot[s].kind = "client"
                                  THEN [alive |-> TRUE, sessionID |-> slot[s].id]
                                  ELSE L!NoUser
    BY <1>1 DEF LoginInv, LoginUsers, L!NoUser
  <1>8. L!UsersAgree
    BY <1>6, <1>7 DEF L!UsersAgree, L!Cardinality, Cardinality
  <1>9. \A w \in Worker : wTh[w].pc = "check" => L!IsUser(w)
    BY DEF LoginInv, LoginWork, LoginUsers, L!IsUser, Clients
  <1>10. L!LoginsAgree
    BY <1>9 DEF LoginInv, LoginSent, LoginSum, L!LoginsAgree, Counting,
              L!Cardinality, Cardinality
  <1>11. L!LoginTypeOK
    BY DEF LoginInv, LoginTypes, L!LoginTypeOK
  <1> QED
    BY <1>8, <1>10, <1>11

-----------------------------------------------------------------------------
In(q, x) == \E i \in 1 .. Len(q) : q[i] = x

(* What Without computes, step by step. *)
Kept(f, q, x, m) ==
    f = [i \in 0 .. m |->
            IF i = 0 THEN <<>>
            ELSE IF q[i] = x THEN f[i - 1] ELSE Append(f[i - 1], q[i])]

(* Without is a recursive function: there is one, and it drops what it      *)
(* should.                                                                  *)
LEMMA KeptExists ==
    ASSUME NEW q, NEW x, NEW n \in Nat
    PROVE  \E f : Kept(f, q, x, n)
  <1> DEFINE Z == {m \in 0 .. n : \E f : Kept(f, q, x, m)}
  <1>1. 0 \in Z
    <2>1. Kept([i \in 0 .. 0 |-> <<>>], q, x, 0)
      BY DEF Kept
    <2>2. \E f : Kept(f, q, x, 0)
      BY <2>1
    <2> QED
      BY <2>2
  <1>2. ASSUME NEW m \in 0 .. n, m < n, m \in Z
        PROVE  m + 1 \in Z
    <2>1. PICK f : Kept(f, q, x, m)
      BY <1>2
    <2>2. \A k \in 0 .. m :
             f[k] = IF k = 0 THEN <<>>
                    ELSE IF q[k] = x THEN f[k - 1] ELSE Append(f[k - 1], q[k])
      BY <2>1 DEF Kept
    <2> DEFINE g == [i \in 0 .. m + 1 |->
                       IF i <= m THEN f[i]
                       ELSE IF q[i] = x THEN f[m] ELSE Append(f[m], q[i])]
    <2>3. ASSUME NEW i \in 0 .. m + 1
          PROVE  g[i] = IF i = 0 THEN <<>>
                        ELSE IF q[i] = x THEN g[i - 1]
                             ELSE Append(g[i - 1], q[i])
      <3>1. CASE i <= m
        <4>1. g[i] = f[i] /\ (i # 0 => g[i - 1] = f[i - 1])
          BY <3>1, <2>3
        <4>2. f[i] = IF i = 0 THEN <<>>
                     ELSE IF q[i] = x THEN f[i - 1] ELSE Append(f[i - 1], q[i])
          BY <2>2, <3>1, <2>3
        <4> QED
          BY <4>1, <4>2
      <3>2. CASE i = m + 1
        <4>1. g[i] = IF q[i] = x THEN f[m] ELSE Append(f[m], q[i])
          BY <3>2
        <4>2. i # 0 /\ g[i - 1] = f[m]
          BY <3>2
        <4> QED
          BY <4>1, <4>2
      <3> QED
        BY <3>1, <3>2
    <2>4. DOMAIN g = 0 .. m + 1 /\ g = [i \in 0 .. m + 1 |-> g[i]]
      OBVIOUS
    <2>5. Kept(g, q, x, m + 1)
      <3> HIDE DEF g
      <3> QED
        BY <2>3, <2>4 DEF Kept
    <2>6. m + 1 \in 0 .. n
      BY <1>2
    <2> QED
      BY <2>5, <2>6
  <1>3. n \in Z
    <2> HIDE DEF Z
    <2> QED
      BY <1>1, <1>2, Induction
  <1> QED
    BY <1>3

(* What is left of the first i elements of q. *)
Remains(g, q, x, i) ==
    \A y : In(g, y) <=> y # x /\ \E j \in 1 .. i : q[j] = y

LEMMA KeptOne ==
    ASSUME NEW S, NEW q \in Seq(S), NEW x, NEW i \in 0 .. Len(q) - 1,
           NEW g \in Seq(S), Remains(g, q, x, i),
           NEW h, h = IF q[i + 1] = x THEN g ELSE Append(g, q[i + 1])
    PROVE  h \in Seq(S) /\ Remains(h, q, x, i + 1)
  <1> DEFINE z == q[i + 1]
  <1>1. z \in S /\ i + 1 \in 1 .. Len(q) /\ DOMAIN q = 1 .. Len(q) /\ i \in Nat
    OBVIOUS
  <1>2. \A y : (\E j \in 1 .. i + 1 : q[j] = y)
                 <=> (\E j \in 1 .. i : q[j] = y) \/ z = y
    BY <1>1
  <1>4. CASE z = x
    <2>1. h = g
      BY <1>4
    <2>2. \A y : In(h, y) <=> y # x /\ \E j \in 1 .. i + 1 : q[j] = y
      BY <2>1, <1>2, <1>4 DEF Remains
    <2> QED
      BY <2>1, <2>2 DEF Remains
  <1>5. CASE z # x
    <2>1. h = Append(g, z) /\ h \in Seq(S) /\ Len(h) = Len(g) + 1
      BY <1>1, <1>5
    <2>2. \A y : In(h, y) <=> In(g, y) \/ y = z
      BY <2>1, <1>1 DEF In
    <2>3. \A y : In(h, y) <=> y # x /\ \E j \in 1 .. i + 1 : q[j] = y
      BY <2>2, <1>2, <1>5 DEF Remains
    <2> QED
      BY <2>1, <2>3 DEF Remains
  <1> QED
    BY <1>4, <1>5

(* Without takes every x out of a list and leaves everything else in it.    *)
LEMMA Removing ==
    ASSUME NEW S, NEW q \in Seq(S), NEW x
    PROVE  /\ M!Without(q, x) \in Seq(S)
           /\ \A y : In(M!Without(q, x), y) <=> In(q, y) /\ y # x
  <1>1. Len(q) \in Nat /\ DOMAIN q = 1 .. Len(q)
    OBVIOUS
  <1>2. PICK f : Kept(f, q, x, Len(q)) /\ M!Without(q, x) = f[Len(q)]
    <2>1. \E f : Kept(f, q, x, Len(q))
      BY <1>1, KeptExists
    <2>2. M!Without(q, x) = (CHOOSE f : Kept(f, q, x, Len(q)))[Len(q)]
      BY DEF M!Without, Kept
    <2>3. Kept(CHOOSE f : Kept(f, q, x, Len(q)), q, x, Len(q))
      BY <2>1
    <2> QED
      BY <2>2, <2>3
  <1>3. /\ f[0] = <<>>
        /\ \A i \in 0 .. Len(q) - 1 :
              f[i + 1] = IF q[i + 1] = x THEN f[i] ELSE Append(f[i], q[i + 1])
    <2>1. \A k \in 0 .. Len(q) :
            f[k] = IF k = 0 THEN <<>>
                   ELSE IF q[k] = x THEN f[k - 1] ELSE Append(f[k - 1], q[k])
      BY <1>2 DEF Kept
    <2>2. \A i \in 0 .. Len(q) - 1 :
              i + 1 \in 0 .. Len(q) /\ i + 1 # 0 /\ (i + 1) - 1 = i
      BY <1>1
    <2> QED
      BY <2>1, <2>2, <1>1
  <1> DEFINE Z == {i \in 0 .. Len(q) : f[i] \in Seq(S)
         /\ Remains(f[i], q, x, i)}
  <1>4. 0 \in Z
    <2>1. <<>> \in Seq(S) /\ Remains(<<>>, q, x, 0)
      BY DEF Remains, In
    <2>2. f[0] \in Seq(S) /\ Remains(f[0], q, x, 0)
      BY <2>1, <1>3
    <2> QED
      BY <2>2, <1>1
  <1>5. ASSUME NEW i \in 0 .. Len(q), i < Len(q), i \in Z
        PROVE  i + 1 \in Z
    <2>1. i \in 0 .. Len(q) - 1 /\ i + 1 \in 0 .. Len(q)
      BY <1>1, <1>5
    <2>2. f[i + 1] \in Seq(S) /\ Remains(f[i + 1], q, x, i + 1)
      BY <2>1, <1>3, <1>5, KeptOne
    <2> QED
      BY <2>1, <2>2
  <1>6. Len(q) \in Z
    <2> HIDE DEF Z
    <2> QED
      BY <1>1, <1>4, <1>5, Induction
  <1>7. f[Len(q)] \in Seq(S) /\ Remains(f[Len(q)], q, x, Len(q))
    BY <1>6
  <1> QED
    BY <1>1, <1>2, <1>7 DEF Remains, In


(* An ID comes behind the others.                                           *)
LEMMA Appending ==
    ASSUME NEW S, NEW q \in Seq(S), NEW x \in S
    PROVE  /\ Append(q, x) \in Seq(S)
           /\ \A y : In(Append(q, x), y) <=> In(q, y) \/ y = x
  <1>1. /\ Append(q, x) \in Seq(S) /\ Len(Append(q, x)) = Len(q) + 1
        /\ Len(q) \in Nat /\ Append(q, x)[Len(q) + 1] = x
        /\ \A i \in 1 .. Len(q) : Append(q, x)[i] = q[i]
    BY AppendProperties
  <1> QED
    BY <1>1 DEF In

(* The average of c + 1 values, rounded down, is between their bounds.      *)
LEMMA Averages ==
    ASSUME NEW c \in Nat, NEW a \in Nat, NEW v \in Nat, NEW lo \in Nat,
           NEW hi \in Nat, lo <= a, a <= hi, lo <= v, v <= hi
    PROVE  (c * a + v) \div (c + 1) \in lo .. hi
  <1>1. PICK m \in Nat : m = c * a
    OBVIOUS
  <1>2. PICK n \in Nat : n = c + 1 /\ n > 0
    OBVIOUS
  <1> DEFINE d == (m + v) \div n
             r == (m + v) % n
  <1>3. m + v = n * d + r /\ d \in Int /\ r \in 0 .. n - 1
    BY <1>1, <1>2
  <1>4. n * lo <= m + v /\ m + v <= n * hi
    <2>1. c * lo <= c * a /\ c * a <= c * hi
      OBVIOUS
    <2>2. n * lo = c * lo + lo /\ n * hi = c * hi + hi
      BY <1>2
    <2> QED
      BY <1>1, <2>1, <2>2
  <1> HIDE DEF d, r
  <1>5. ~(d <= lo - 1)
    <2> SUFFICES ASSUME d <= lo - 1 PROVE FALSE
      OBVIOUS
    <2>1. n * d <= n * (lo - 1)
      BY <1>2, <1>3
    <2>2. n * (lo - 1) = n * lo - n
      BY <1>2
    <2>3. PICK x \in Int, y \in Int : x = n * d /\ y = n * lo
      BY <1>2, <1>3
    <2> QED
      BY <2>1, <2>2, <2>3, <1>1, <1>2, <1>3, <1>4
  <1>6. ~(d >= hi + 1)
    <2> SUFFICES ASSUME d >= hi + 1 PROVE FALSE
      OBVIOUS
    <2>1. n * d >= n * (hi + 1)
      BY <1>2, <1>3
    <2>2. n * (hi + 1) = n * hi + n
      BY <1>2
    <2>3. PICK x \in Int, y \in Int : x = n * d /\ y = n * hi
      BY <1>2, <1>3
    <2> QED
      BY <2>1, <2>2, <2>3, <1>1, <1>2, <1>3, <1>4
  <1>7. d \in lo .. hi
    BY <1>3, <1>5, <1>6
  <1> QED
    BY <1>1, <1>2, <1>7 DEF d

-----------------------------------------------------------------------------
(* The monitoring server. *)
Entry == [max : Nat, min : Nat, count : Nat, average : Nat]
Sane == {e \in Entry : e.min <= e.average /\ e.average <= e.max}

(* An average stays between its extremes at the first value and at the      *)
(* next.                                                                    *)
LEMMA FirstSane ==
    ASSUME NEW v \in Nat PROVE M!First(v) \in Sane
  BY DEF M!First, Sane, Entry

LEMMA SavedSane ==
    ASSUME NEW e PROVE M!Saved(e) \in Sane
  BY DEF M!Saved, Sane, Entry

LEMMA AveragedSane ==
    ASSUME NEW e \in Sane, NEW v \in Nat
    PROVE  M!Averaged(e, v) \in Sane
  <1>1. PICK c \in Nat, a \in Nat, lo \in Nat, hi \in Nat :
           c = e.count /\ a = e.average /\ lo = e.min /\ hi = e.max
           /\ lo <= a /\ a <= hi
    BY DEF Sane, Entry
  <1>2. PICK up \in Nat : up = (IF hi < v THEN v ELSE hi)
    OBVIOUS
  <1>3. PICK low \in Nat : low = (IF hi >= v /\ lo > v THEN v ELSE lo)
    OBVIOUS
  <1>4. low <= a /\ a <= up /\ low <= v /\ v <= up
    BY <1>1, <1>2, <1>3
  <1>5. (c * a + v) \div (c + 1) \in low .. up
    BY <1>4, Averages
  <1>6. PICK q \in Nat : q = (c * a + v) \div (c + 1) /\ low <= q /\ q <= up
    BY <1>5
  <1>7. M!Averaged(e, v) = [max |-> up, min |-> low, count |-> c + 1, average |-> q]
    BY <1>1, <1>2, <1>3, <1>6 DEF M!Averaged
  <1> QED
    BY <1>6, <1>7 DEF Sane, Entry

IDs == Slot \X (1 .. MaxIds)
OfType(type, i) == \E s \in Slot : agent[s].Type = type /\ i = <<s, slot[s].id>>
(* A list has every agent of its kind, and else only those that changed it.  *)
Lists(list, type) == /\ \A i : OfType(type, i) => In(list, i)
                     /\ \A i : In(list, i) => OfType(type, i) \/ i \in changed

AgentType == [Type : {"IDLE", "Server", "Client"}, sessionID : 0 .. MaxIds]

MonitorTypes ==
    /\ agent \in [Slot -> AgentType]
    /\ clientList \in Seq(IDs) /\ serverList \in Seq(IDs)
    /\ average \in [Slot -> [DataType -> SUBSET Sane]]
    /\ reports \in Nat /\ told \subseteq IDs /\ changed \subseteq IDs
    /\ row \subseteq Sane
MonitorAgents ==
    \A s \in Slot : agent[s].Type # "IDLE" =>
                       IsHere(s) /\ agent[s].sessionID = slot[s].id
MonitorInv ==
    MonitorTypes /\ MonitorAgents
    /\ Lists(clientList, "Client") /\ Lists(serverList, "Server")

LEMMA MaxIdsNat == ASSUME ProgramsAssumption PROVE MaxIds \in Nat
  BY DEF ProgramsAssumption

LEMMA IdsThere ==
    ASSUME NEW S, NEW q \in Seq(S)
    PROVE  M!Ids(q) \subseteq S /\ \A i : i \in M!Ids(q) <=> In(q, i)
  <1>1. DOMAIN q = 1 .. Len(q)
    OBVIOUS
  <1>2. \A i : i \in M!Ids(q) <=> In(q, i)
    BY <1>1 DEF M!Ids, In
  <1>3. M!Ids(q) \subseteq S
    BY <1>1 DEF M!Ids
  <1> QED
    BY <1>2, <1>3

(* At first nobody is in the lists.                                         *)
LEMMA MonitorStart ==
    ASSUME ProgramsAssumption, C!SessionsInit, M!MonitorInit
    PROVE  MonitorInv
  <1>1. /\ agent = [s \in Slot |-> [Type |-> "IDLE", sessionID |-> 0]]
        /\ clientList = <<>> /\ serverList = <<>>
        /\ average = [s \in Slot |-> [d \in DataType |-> {}]]
        /\ reports = 0 /\ told = {} /\ row = {} /\ changed = {}
    BY DEF M!MonitorInit, M!NoAgent
  <1>2. MaxIds \in Nat
    BY DEF ProgramsAssumption
  <1>3. MonitorTypes
    BY <1>1, <1>2 DEF MonitorTypes, AgentType
  <1>4. \A s \in Slot : agent[s].Type = "IDLE"
    BY <1>1
  <1>5. \A i : ~OfType("Client", i) /\ ~OfType("Server", i)
    BY <1>4 DEF OfType
  <1>6. \A i : ~In(<<>>, i)
    BY DEF In
  <1>7. Lists(clientList, "Client") /\ Lists(serverList, "Server")
    BY <1>1, <1>5, <1>6 DEF Lists
  <1> QED
    BY <1>3, <1>4, <1>7 DEF MonitorInv, MonitorAgents

(* A step that leaves the agents and their sessions as they are.            *)
LEMMA MonitorRests ==
    ASSUME MonitorInv, MonitorTypes', UNCHANGED <<agent, clientList, serverList, changed>>,
           \A s \in Slot : /\ IsHere(s) => IsHere(s)' /\ slot'[s].id = slot[s].id
    PROVE  MonitorInv'
  <1>1. \A s \in Slot : agent[s].Type # "IDLE" => slot'[s].id = slot[s].id /\ IsHere(s)'
    BY DEF MonitorInv, MonitorAgents
  <1>2. MonitorAgents'
    BY <1>1 DEF MonitorInv, MonitorAgents
  <1>3. ASSUME NEW type \in {"Client", "Server"}, NEW i
        PROVE  OfType(type, i)' <=> OfType(type, i)
    BY <1>1 DEF OfType
  <1>4. Lists(clientList, "Client")'
    BY <1>3 DEF MonitorInv, Lists
  <1>5. Lists(serverList, "Server")'
    BY <1>3 DEF MonitorInv, Lists
  <1> QED
    BY <1>2, <1>4, <1>5 DEF MonitorInv

LEMMA MonitorTypesRest ==
    ASSUME MonitorInv,
           UNCHANGED <<agent, clientList, serverList, average, reports, told, row, changed>>
    PROVE  MonitorTypes'
  BY DEF MonitorInv, MonitorTypes

(* The actions of the monitoring server, one by one.                        *)
LEMMA MonitorAccepts ==
    ASSUME ProgramsAssumption, Sessions, MonitorInv, NEW s \in Slot, M!Accept(s)
    PROVE  Sessions' /\ MonitorInv'
  <1>1. Opening(s, "client") /\ MaxIds \in Nat
    BY DEF M!Accept, M!Opened, Opening, Used, ProgramsAssumption
  <1>2. /\ Sessions' /\ ~Used(s)
        /\ \A r \in Slot \ {s} : slot'[r] = slot[r]
    BY <1>1, OpeningDoes
  <1>3. \A r \in Slot : IsHere(r) => IsHere(r)' /\ slot'[r].id = slot[r].id
    BY <1>2 DEF IsHere, Used
  <1>4. UNCHANGED <<agent, clientList, serverList, average, reports, told, row, changed>>
    BY DEF M!Accept, M!monitorVars
  <1> QED
    BY <1>2, <1>3, <1>4, MonitorTypesRest, MonitorRests

LEMMA MonitorLeaves ==
    ASSUME ProgramsAssumption, Sessions, MonitorInv, NEW s \in Slot,
           M!PeerLeaves(s) \/ M!BadMessage(s)
    PROVE  Sessions' /\ MonitorInv'
  <1>1. Turning(s, "left") \/ UNCHANGED <<slot, lastId>>
    BY DEF M!PeerLeaves, M!Leaves, M!BadMessage, M!Aborted, Turning, Used
  <1>2. /\ Sessions' /\ slot'[s].id = slot[s].id
        /\ IsHere(s) => IsHere(s)'
        /\ \A r \in Slot \ {s} : slot'[r] = slot[r]
    <2>1. CASE Turning(s, "left")
      BY <2>1, TurningDoes DEF IsHere
    <2>2. CASE UNCHANGED <<slot, lastId>>
      BY <2>2, SessionsMove, MaxIdsNat DEF SessionMove, IsHere
    <2> QED
      BY <1>1, <2>1, <2>2
  <1>3. \A r \in Slot : IsHere(r) => IsHere(r)' /\ slot'[r].id = slot[r].id
    BY <1>2 DEF IsHere
  <1>4. UNCHANGED <<agent, clientList, serverList, average, reports, told, row, changed>>
    BY DEF M!PeerLeaves, M!BadMessage, M!monitorVars
  <1> QED
    BY <1>2, <1>3, <1>4, MonitorTypesRest, MonitorRests

LEMMA MonitorFrees ==
    ASSUME ProgramsAssumption, Sessions, MonitorInv, NEW s \in Slot, M!Free(s)
    PROVE  Sessions' /\ MonitorInv'
  <1>1. Freeing(s) /\ MaxIds \in Nat
    BY DEF M!Free, M!Freed, M!NoSession, EmptySlot, Freeing, ProgramsAssumption
  <1>2. /\ Sessions' /\ slot[s].phase = "closing"
        /\ \A r \in Slot \ {s} : slot'[r] = slot[r]
    BY <1>1, FreeingDoes
  <1>3. \A r \in Slot : IsHere(r) => IsHere(r)' /\ slot'[r].id = slot[r].id
    BY <1>2 DEF IsHere
  <1>4. UNCHANGED <<agent, clientList, serverList, average, reports, told, row, changed>>
    BY DEF M!Free, M!monitorVars
  <1> QED
    BY <1>2, <1>3, <1>4, MonitorTypesRest, MonitorRests

(* One agent goes out of its list, and no other.                            *)
LEMMA MonitorTakesOut ==
    ASSUME MonitorInv, NEW s \in Slot,
           NEW type \in {"Client", "Server"}, NEW q \in Seq(IDs), Lists(q, type),
           agent' = [agent EXCEPT ![s].Type = "IDLE"], changed' = changed,
           \A u \in Slot : slot'[u].id = slot[u].id,
           NEW r, r = IF agent[s].Type = type
                      THEN M!Without(q, <<s, slot[s].id>>) ELSE q
    PROVE  /\ r \in Seq(IDs)
           /\ \A i : OfType(type, i)' => In(r, i)
           /\ \A i : In(r, i) => OfType(type, i)' \/ i \in changed'
  <1>1. agent'[s].Type = "IDLE" /\ \A u \in Slot \ {s} : agent'[u] = agent[u]
    BY DEF MonitorInv, MonitorTypes, AgentType
  <1>2. \A i : OfType(type, i)' <=> OfType(type, i) /\ i # <<s, slot[s].id>>
    <2>1. ASSUME NEW i, NEW u \in Slot, i = <<u, slot[u].id>>
          PROVE  i = <<s, slot[s].id>> <=> u = s
      BY <2>1
    <2> QED
      BY <1>1, <2>1 DEF OfType
  <1>3. CASE agent[s].Type = type
    <2>1. PICK x : x = <<s, slot[s].id>>
      OBVIOUS
    <2>2. r = M!Without(q, x)
      BY <1>3, <2>1
    <2>3. r \in Seq(IDs) /\ \A i : In(r, i) <=> In(q, i) /\ i # x
      <3>1. PICK S : S = IDs
        OBVIOUS
      <3>2. q \in Seq(S)
        BY <3>1
      <3>3. /\ M!Without(q, x) \in Seq(S)
            /\ \A i : In(M!Without(q, x), i) <=> In(q, i) /\ i # x
        BY <3>2, Removing
      <3> QED
        BY <2>2, <3>1, <3>3
    <2> QED
      BY <1>2, <2>1, <2>3 DEF Lists
  <1>4. CASE agent[s].Type # type
    <2>1. r = q
      BY <1>4
    <2>2. \A i : OfType(type, i)' <=> OfType(type, i)
      BY <1>1, <1>4 DEF OfType
    <2> QED
      BY <2>1, <2>2 DEF Lists
  <1> QED
    BY <1>3, <1>4

LEMMA MonitorDisconnects ==
    ASSUME ProgramsAssumption, Sessions, MonitorInv, NEW s \in Slot,
           M!OnDisConnect(s)
    PROVE  Sessions' /\ MonitorInv'
  <1>1. Turning(s, "closing")
    BY DEF M!OnDisConnect, M!Disconnected, Turning, Used
  <1>2. /\ Sessions' /\ slot'[s].id = slot[s].id
        /\ \A r \in Slot \ {s} : slot'[r] = slot[r]
    BY <1>1, TurningDoes
  <1>3. \A r \in Slot : slot'[r].id = slot[r].id
    BY <1>2
  <1>4. /\ agent' = [agent EXCEPT ![s].Type = "IDLE"]
        /\ clientList' = IF agent[s].Type = "Client"
                         THEN M!Without(clientList, <<s, slot[s].id>>) ELSE clientList
        /\ serverList' = IF agent[s].Type = "Server"
                         THEN M!Without(serverList, <<s, slot[s].id>>) ELSE serverList
        /\ UNCHANGED <<average, reports, told, row, changed>>
    BY DEF M!OnDisConnect, M!DeleteAgent, M!ID
  <1>5. /\ clientList \in Seq(IDs) /\ serverList \in Seq(IDs)
        /\ Lists(clientList, "Client") /\ Lists(serverList, "Server")
        /\ agent \in [Slot -> AgentType]
    BY DEF MonitorInv, MonitorTypes
  <1>6. /\ clientList' \in Seq(IDs)
        /\ \A i : OfType("Client", i)' => In(clientList', i)
        /\ \A i : In(clientList', i) => OfType("Client", i)' \/ i \in changed'
    <2>1. PICK r : r = IF agent[s].Type = "Client"
                       THEN M!Without(clientList, <<s, slot[s].id>>) ELSE clientList
      OBVIOUS
    <2>2. changed' = changed /\ clientList' = r
      BY <1>4, <2>1
    <2> QED
      BY <1>3, <1>4, <1>5, <2>1, <2>2, MonitorTakesOut
  <1>7. /\ serverList' \in Seq(IDs)
        /\ \A i : OfType("Server", i)' => In(serverList', i)
        /\ \A i : In(serverList', i) => OfType("Server", i)' \/ i \in changed'
    <2>1. PICK r : r = IF agent[s].Type = "Server"
                       THEN M!Without(serverList, <<s, slot[s].id>>) ELSE serverList
      OBVIOUS
    <2>2. changed' = changed /\ serverList' = r
      BY <1>4, <2>1
    <2> QED
      BY <1>3, <1>4, <1>5, <2>1, <2>2, MonitorTakesOut
  <1>8. Lists(clientList, "Client")' /\ Lists(serverList, "Server")'
    BY <1>6, <1>7 DEF Lists
  <1>9. /\ agent' \in [Slot -> AgentType] /\ agent'[s].Type = "IDLE"
        /\ \A u \in Slot \ {s} : agent'[u] = agent[u]
    BY <1>4, <1>5 DEF AgentType
  <1>10. MonitorTypes'
    BY <1>4, <1>6, <1>7, <1>9 DEF MonitorInv, MonitorTypes
  <1>11. MonitorAgents'
    BY <1>2, <1>9 DEF MonitorInv, MonitorAgents, IsHere
  <1> QED
    BY <1>2, <1>8, <1>10, <1>11 DEF MonitorInv

(* One agent logs in as type, whatever it was: its ID goes to the end of the *)
(* list q of that kind, and it is no more of the other kind, whose list p     *)
(* may keep it.                                                             *)
LEMMA MonitorPutsIn ==
    ASSUME ProgramsAssumption, Sessions, MonitorInv, NEW s \in Slot,
           NEW type \in {"Client", "Server"}, NEW other \in {"Client", "Server"} \ {type},
           M!LogsIn(s, type),
           NEW q \in Seq(IDs), Lists(q, type), NEW p \in Seq(IDs), Lists(p, other)
    PROVE  /\ agent' \in [Slot -> AgentType] /\ MonitorAgents' /\ changed' \subseteq IDs
           /\ Append(q, <<s, slot[s].id>>) \in Seq(IDs)
           /\ \A i : OfType(type, i)' => In(Append(q, <<s, slot[s].id>>), i)
           /\ \A i : In(Append(q, <<s, slot[s].id>>), i) =>
                        OfType(type, i)' \/ i \in changed'
           /\ \A i : OfType(other, i)' => In(p, i)
           /\ \A i : In(p, i) => OfType(other, i)' \/ i \in changed'
  <1>1. /\ IsHere(s) /\ UNCHANGED <<slot, lastId>>
        /\ agent' = [agent EXCEPT ![s] = [Type |-> type, sessionID |-> slot[s].id]]
        /\ changed' = IF agent[s].Type \in {"IDLE", type} THEN changed
                      ELSE changed \cup {<<s, slot[s].id>>}
    BY DEF M!LogsIn, M!ID, M!Here, IsHere, M!sessionVars
  <1>2. PICK x : x = <<s, slot[s].id>>
    OBVIOUS
  <1>3. slot[s].id \in 1 .. MaxIds /\ x \in IDs
    <2>1. lastId \in 0 .. MaxIds /\ slot[s].id \in 1 .. lastId /\ MaxIds \in Nat
      BY <1>1, MaxIdsNat DEF Sessions, Used, IsHere
    <2>2. ASSUME NEW m \in Nat, NEW l \in 0 .. m, NEW i \in 1 .. l
          PROVE  i \in 1 .. m
      OBVIOUS
    <2>3. slot[s].id \in 1 .. MaxIds
      BY <2>1, <2>2
    <2> QED
      BY <1>2, <2>3 DEF IDs
  <1>4. agent \in [Slot -> AgentType] /\ changed \subseteq IDs
    BY DEF MonitorInv, MonitorTypes
  <1>5. /\ agent' \in [Slot -> AgentType]
        /\ agent'[s] = [Type |-> type, sessionID |-> slot[s].id]
        /\ \A u \in Slot \ {s} : agent'[u] = agent[u]
    <2>1. PICK new : new = [Type |-> type, sessionID |-> slot[s].id]
      OBVIOUS
    <2>2. slot[s].id \in 0 .. MaxIds
      <3>1. PICK id \in 1 .. MaxIds : id = slot[s].id
        BY <1>3
      <3>2. id \in 0 .. MaxIds
        BY MaxIdsNat
      <3> QED
        BY <3>1, <3>2
    <2>3. new \in AgentType
      BY <2>1, <2>2 DEF AgentType
    <2>4. agent' = [agent EXCEPT ![s] = new]
      BY <1>1, <2>1
    <2> QED
      BY <1>4, <2>1, <2>3, <2>4
  <1>6. \A i : OfType(type, i)' <=> OfType(type, i) \/ i = x
    BY <1>1, <1>2, <1>5 DEF OfType
  <1>7. \A i : OfType(other, i)' <=> OfType(other, i) /\ i # x
    <2>1. ASSUME NEW i, NEW u \in Slot, i = <<u, slot[u].id>>
          PROVE  i = x <=> u = s
      BY <1>2, <2>1
    <2> QED
      BY <1>1, <1>5, <2>1 DEF OfType
  <1>8. OfType(other, x) => x \in changed'
    <2>1. ASSUME NEW u \in Slot, x = <<u, slot[u].id>>
          PROVE  u = s
      BY <1>2, <2>1
    <2>2. OfType(other, x) => agent[s].Type = other
      BY <2>1 DEF OfType
    <2>3. other \notin {"IDLE", type}
      OBVIOUS
    <2> QED
      BY <1>1, <1>2, <2>2, <2>3
  <1>9. /\ Append(q, x) \in Seq(IDs)
        /\ \A i : In(Append(q, x), i) <=> In(q, i) \/ i = x
    BY <1>3, Appending
  <1>10. changed \subseteq changed' /\ changed' \subseteq IDs
    BY <1>1, <1>2, <1>3, <1>4
  <1>11. MonitorAgents'
    BY <1>1, <1>5 DEF MonitorInv, MonitorAgents, IsHere
  <1>12. /\ \A i : OfType(type, i)' => In(Append(q, x), i)
         /\ \A i : In(Append(q, x), i) => OfType(type, i)' \/ i \in changed'
    BY <1>6, <1>9, <1>10 DEF Lists
  <1>13. /\ \A i : OfType(other, i)' => In(p, i)
         /\ \A i : In(p, i) => OfType(other, i)' \/ i \in changed'
    BY <1>7, <1>8, <1>10 DEF Lists
  <1> QED
    BY <1>2, <1>5, <1>9, <1>10, <1>11, <1>12, <1>13

LEMMA MonitorLogins ==
    ASSUME ProgramsAssumption, Sessions, MonitorInv, NEW s \in Slot,
           M!ServerLogin(s) \/ M!ClientLogin(s)
    PROVE  Sessions' /\ MonitorInv'
  <1>1. /\ clientList \in Seq(IDs) /\ serverList \in Seq(IDs)
        /\ Lists(clientList, "Client") /\ Lists(serverList, "Server")
    BY DEF MonitorInv, MonitorTypes
  <1>2. UNCHANGED <<slot, lastId, average, reports, told, row>>
    BY DEF M!ServerLogin, M!ClientLogin, M!LogsIn, M!sessionVars
  <1>3. Sessions'
    BY <1>2, SessionsMove DEF SessionMove, ProgramsAssumption
  <1>4. CASE M!ServerLogin(s)
    <2>1. /\ M!LogsIn(s, "Server") /\ clientList' = clientList
          /\ serverList' = Append(serverList, <<s, slot[s].id>>)
      BY <1>4 DEF M!ServerLogin, M!ID
    <2>2. /\ agent' \in [Slot -> AgentType] /\ MonitorAgents' /\ changed' \subseteq IDs
          /\ serverList' \in Seq(IDs)
          /\ \A i : OfType("Server", i)' => In(serverList', i)
          /\ \A i : In(serverList', i) => OfType("Server", i)' \/ i \in changed'
          /\ \A i : OfType("Client", i)' => In(clientList', i)
          /\ \A i : In(clientList', i) => OfType("Client", i)' \/ i \in changed'
      BY <1>1, <2>1, MonitorPutsIn
    <2>3. Lists(clientList, "Client")' /\ Lists(serverList, "Server")'
      BY <2>2 DEF Lists
    <2>4. MonitorTypes'
      BY <1>1, <1>2, <2>1, <2>2 DEF MonitorInv, MonitorTypes
    <2> QED
      BY <1>3, <2>2, <2>3, <2>4 DEF MonitorInv
  <1>5. CASE M!ClientLogin(s)
    <2>1. /\ M!LogsIn(s, "Client") /\ serverList' = serverList
          /\ clientList' = Append(clientList, <<s, slot[s].id>>)
      BY <1>5 DEF M!ClientLogin, M!ID
    <2>2. /\ agent' \in [Slot -> AgentType] /\ MonitorAgents' /\ changed' \subseteq IDs
          /\ clientList' \in Seq(IDs)
          /\ \A i : OfType("Client", i)' => In(clientList', i)
          /\ \A i : In(clientList', i) => OfType("Client", i)' \/ i \in changed'
          /\ \A i : OfType("Server", i)' => In(serverList', i)
          /\ \A i : In(serverList', i) => OfType("Server", i)' \/ i \in changed'
      BY <1>1, <2>1, MonitorPutsIn
    <2>3. Lists(clientList, "Client")' /\ Lists(serverList, "Server")'
      BY <2>2 DEF Lists
    <2>4. MonitorTypes'
      BY <1>1, <1>2, <2>1, <2>2 DEF MonitorInv, MonitorTypes
    <2> QED
      BY <1>3, <2>2, <2>3, <2>4 DEF MonitorInv
  <1> QED
    BY <1>4, <1>5

LEMMA UpdatedSane ==
    ASSUME MonitorInv, NEW s \in Slot, NEW d \in DataType, NEW v \in Nat
    PROVE  M!Updated(s, d, v) \in [Slot -> [DataType -> SUBSET Sane]]
  <1>1. average \in [Slot -> [DataType -> SUBSET Sane]]
    BY DEF MonitorInv, MonitorTypes
  <1> DEFINE new == IF average[s][d] = {} THEN {M!First(v)}
                    ELSE {M!Averaged(e, v) : e \in average[s][d]}
  <1>2. new \in SUBSET Sane
    BY <1>1, FirstSane, AveragedSane
  <1>3. M!Updated(s, d, v) = [average EXCEPT ![s][d] = new]
    BY DEF M!Updated
  <1> HIDE DEF new
  <1> QED
    BY <1>1, <1>2, <1>3

LEMMA SavesSane ==
    ASSUME NEW now \in [Slot -> [DataType -> SUBSET Sane]], M!SaveData(now)
    PROVE  average' \in [Slot -> [DataType -> SUBSET Sane]] /\ row' \subseteq Sane
  <1> DEFINE walked == M!Walked
             again == M!WalkedAgain
  <1>1. walked \subseteq Slot /\ again \subseteq Slot
    BY DEF M!Walked, M!WalkedAgain
  <1>2. average' = [s \in Slot |-> [d \in DataType |->
                      IF s \in walked
                      THEN {M!Saved(e) : e \in now[s][d]} ELSE now[s][d]]]
    BY DEF M!SaveData
  <1> DEFINE once == UNION {now[s][d] : s \in walked, d \in DataType}
             anew == UNION {{M!Saved(o) : o \in now[s][d]} : s \in again, d \in DataType}
  <1>3. row' = once \cup anew
    BY DEF M!SaveData
  <1> HIDE DEF walked, again
  <1>4. ASSUME NEW s \in Slot, NEW d \in DataType
        PROVE  now[s][d] \in SUBSET Sane
               /\ {M!Saved(e) : e \in now[s][d]} \in SUBSET Sane
    BY SavedSane
  <1>5. average' \in [Slot -> [DataType -> SUBSET Sane]]
    BY <1>1, <1>2, <1>4
  <1>6. once \subseteq Sane /\ anew \subseteq Sane
    <2>1. ASSUME NEW e \in once
          PROVE  e \in Sane
      <3>1. PICK s \in walked, d \in DataType : e \in now[s][d]
        BY <2>1
      <3>2. s \in Slot
        BY <1>1, <3>1
      <3> QED
        BY <3>1, <3>2, <1>4
    <2>2. ASSUME NEW e \in anew
          PROVE  e \in Sane
      <3>1. PICK s \in again, d \in DataType : e \in {M!Saved(o) : o \in now[s][d]}
        BY <2>2
      <3>2. s \in Slot
        BY <1>1, <3>1
      <3> QED
        BY <3>1, <3>2, <1>4
    <2> QED
      BY <2>1, <2>2
  <1> HIDE DEF once, anew
  <1>7. row' \subseteq Sane
    BY <1>3, <1>6
  <1> QED
    BY <1>5, <1>7

LEMMA MonitorUpdates ==
    ASSUME ProgramsAssumption, Sessions, MonitorInv, NEW s \in Slot,
           NEW d \in DataType, NEW v \in Value, M!HandleDataUpdateMsg(s, d, v)
    PROVE  Sessions' /\ MonitorInv'
  <1>1. /\ reports' = reports + 1 /\ told' = M!Ids(clientList)
        /\ UNCHANGED <<slot, lastId, agent, clientList, serverList, changed>>
        /\ \/ average' = M!Updated(s, d, v) /\ row' = row
           \/ M!SaveData(M!Updated(s, d, v))
    BY DEF M!HandleDataUpdateMsg, M!sessionVars
  <1>2. v \in Nat /\ MaxIds \in Nat
    BY DEF ProgramsAssumption
  <1>3. M!Updated(s, d, v) \in [Slot -> [DataType -> SUBSET Sane]]
    BY <1>2, UpdatedSane
  <1>4. row \subseteq Sane /\ reports \in Nat /\ clientList \in Seq(IDs)
    BY DEF MonitorInv, MonitorTypes
  <1>5. average' \in [Slot -> [DataType -> SUBSET Sane]] /\ row' \subseteq Sane
    BY <1>1, <1>3, <1>4, SavesSane
  <1>6. told' \subseteq IDs
    BY <1>1, <1>4, IdsThere
  <1>7. MonitorTypes'
    BY <1>1, <1>4, <1>5, <1>6, SMTT(20) DEF MonitorInv, MonitorTypes
  <1>8. Sessions' /\ \A r \in Slot : IsHere(r) => IsHere(r)' /\ slot'[r].id = slot[r].id
    BY <1>1, <1>2, SessionsMove DEF SessionMove, IsHere
  <1> QED
    BY <1>1, <1>7, <1>8, MonitorRests

(* Every step keeps the invariant.                                          *)
LEMMA MonitorKept ==
    ASSUME ProgramsAssumption, Sessions, MonitorInv, M!MonitorNext
    PROVE  Sessions' /\ MonitorInv'
  BY MonitorAccepts, MonitorLeaves, MonitorFrees, MonitorDisconnects,
     MonitorLogins, MonitorUpdates DEF M!MonitorNext

(* What ServersAgree says of a list.                                        *)
LEMMA ListAgrees ==
    ASSUME MonitorInv, NEW type \in {"Client", "Server"},
           NEW q \in Seq(IDs), Lists(q, type),
           NEW T, T = {M!ID(s) : s \in {r \in Slot : M!Here(r) /\ agent[r].Type = type}}
    PROVE  T \subseteq M!Ids(q) /\ M!Ids(q) \subseteq T \cup changed
  <1>1. \A i : OfType(type, i) <=> i \in T
    BY DEF OfType, MonitorInv, MonitorAgents, M!Here, IsHere, M!ID
  <1>2. \A i : i \in M!Ids(q) <=> In(q, i)
    BY IdsThere
  <1> QED
    BY <1>1, <1>2 DEF Lists

(* So the lists are what the agents say.                                    *)
LEMMA MonitorThen ==
    ASSUME ProgramsAssumption, MonitorInv
    PROVE  M!AgentsAgree
  <1> DEFINE Of(type) == {M!ID(s) : s \in {r \in Slot : M!Here(r) /\ agent[r].Type = type}}
  <1>1. /\ Of("Client") \subseteq M!Ids(clientList)
        /\ M!Ids(clientList) \subseteq Of("Client") \cup changed
    BY ListAgrees DEF MonitorInv, MonitorTypes
  <1>2. /\ Of("Server") \subseteq M!Ids(serverList)
        /\ M!Ids(serverList) \subseteq Of("Server") \cup changed
    BY ListAgrees DEF MonitorInv, MonitorTypes
  <1>3. \A s \in Slot :
           IF M!Here(s) /\ agent[s].Type # "IDLE" THEN agent[s].sessionID = slot[s].id
           ELSE agent[s].Type = "IDLE"
    BY DEF MonitorInv, MonitorAgents, M!Here, IsHere
  <1> QED
    BY <1>1, <1>2, <1>3 DEF M!AgentsAgree

(* And the averages are between their extremes, whoever runs.               *)
LEMMA MonitorTypesThen ==
    ASSUME MonitorTypes
    PROVE  M!MonitorTypeOK /\ M!AveragesBounded
  <1>1. M!Ids(clientList) \subseteq IDs /\ M!Ids(serverList) \subseteq IDs
    BY IdsThere DEF MonitorTypes
  <1>2. M!MonitorTypeOK
    BY <1>1 DEF MonitorTypes, AgentType, M!MonitorTypeOK, IDs
  <1>3. ASSUME NEW e \in row \cup UNION {average[s][d] : s \in Slot, d \in DataType}
        PROVE  e \in Sane
    BY <1>3 DEF MonitorTypes
  <1>4. M!AveragesBounded
    BY <1>3 DEF M!AveragesBounded, Sane
  <1> QED
    BY <1>2, <1>4

-----------------------------------------------------------------------------
(* The chat server with one thread for the contents. *)
JobType == [type : {"Create", "Delete", "MoveStart", "MoveStop", "LocalChat",
                    "Bad"},
            slot : Slot, id : 1 .. MaxIds]
PlayerType == [status : {"ALIVE", "DELETED"}, id : 0 .. MaxIds,
               x : 0 .. Right - 1, y : 0 .. Bottom - 1,
               dir : Direction \cup {"LL", "RR"}, move : BOOLEAN]
Sectors == C!SectorX \X C!SectorY

Alive(s) == player[s].status = "ALIVE"
At(s) == C!SectorOf(player[s].x, player[s].y)
AliveSlots == {s \in Slot : Alive(s)}
ClientSlots == {s \in Slot : IsHere(s) /\ slot[s].kind = "client"}

SingleTypes ==
    /\ jobs \in Seq(JobType)
    /\ player \in [Slot -> PlayerType]
    /\ sector \in [Sectors -> [Slot -> 0 .. 1]]
    /\ playerCount \in Int /\ loginCount \in Int /\ lost \in Int
    /\ received \in 0 .. MaxMessages

(* The queue q has such a job, and before place i. *)
IsJob(job, type, s, id) == job.type = type /\ job.slot = s /\ job.id = id
HasJob(q, type, s, id) == \E i \in 1 .. Len(q) : IsJob(q[i], type, s, id)
Earlier(q, i, type, s, id) == \E k \in 1 .. i - 1 : IsJob(q[k], type, s, id)
HasAny(q, s, id) == \E i \in 1 .. Len(q) : q[i].slot = s /\ q[i].id = id

(* Session id is, or was, in slot s. *)
HasHome(s, id) ==
    \/ Used(s) /\ slot[s].id = id
    \/ player[s].id = id /\ id # 0
    \/ HasAny(jobs, s, id)
Homes == \A s \in Slot : \A id : HasHome(s, id) =>
            id \in 1 .. lastId /\ \A r \in Slot : HasHome(r, id) => r = s

(* The jobs of a slot are in the order of its sessions, with the creation of *)
(* a session's player first and its deletion last.                          *)
Ordered ==
    \A i \in 1 .. Len(jobs) : \A j \in 1 .. Len(jobs) :
        i < j /\ jobs[i].slot = jobs[j].slot =>
            /\ jobs[i].id <= jobs[j].id
            /\ jobs[i].id = jobs[j].id =>
                  jobs[i].type # "Delete" /\ jobs[j].type # "Create"
(* No job and no player is of a session to come, ...                        *)
Bounds ==
    /\ \A s \in Slot : Used(s) => player[s].id <= slot[s].id
    /\ \A i \in 1 .. Len(jobs) :
          /\ slot[jobs[i].slot].phase # "free" =>
                jobs[i].id <= slot[jobs[i].slot].id
          /\ player[jobs[i].slot].id <= jobs[i].id
          /\ jobs[i].type = "Create" => player[jobs[i].slot].id # jobs[i].id
    /\ \A s \in Slot : IsHere(s) => ~HasJob(jobs, "Delete", s, slot[s].id)
(* ... a message comes behind the creation of the player, which waits or has *)
(* been done, ...                                                           *)
Started ==
    /\ \A i \in 1 .. Len(jobs) : jobs[i].type \notin {"Create", "Delete"} =>
          \/ Earlier(jobs, i, "Create", jobs[i].slot, jobs[i].id)
          \/ /\ player[jobs[i].slot].status = "ALIVE"
             /\ player[jobs[i].slot].id = jobs[i].id
    /\ \A s \in ClientSlots :
          \/ HasJob(jobs, "Create", s, slot[s].id)
          \/ Alive(s) /\ player[s].id = slot[s].id
(* ... and a player whose session is not here has its deletion to come.      *)
Lasting(q, now, s, id) ==
    \/ /\ now[s].phase \in {"open", "left"} /\ now[s].kind = "client"
       /\ now[s].id = id
    \/ HasJob(q, "Delete", s, id)
Ended ==
    /\ \A s \in Slot : Alive(s) =>
          player[s].id # 0 /\ Lasting(jobs, slot, s, player[s].id)
    /\ \A i \in 1 .. Len(jobs) : jobs[i].type = "Create" =>
          Lasting(jobs, slot, jobs[i].slot, jobs[i].id)
Situated ==
    \A p \in Sectors, s \in Slot :
        sector[p][s] = IF Alive(s) /\ At(s) = p THEN 1 ELSE 0
Counts ==
    /\ playerCount + lost = Cardinality(ClientSlots)
    /\ loginCount = Cardinality(AliveSlots)

SingleInv == SingleTypes /\ Homes /\ Ordered /\ Bounds /\ Started /\ Ended
             /\ Situated /\ Counts

(* A place on the map is in a sector of it.                                 *)
LEMMA SectorIn ==
    ASSUME ProgramsAssumption, NEW x \in 0 .. Right - 1, NEW y \in 0 .. Bottom - 1
    PROVE  C!SectorOf(x, y) \in Sectors
  <1>1. ASSUME NEW n \in Nat, NEW r \in Nat, r > 0, n % r = 0, NEW z \in 0 .. n - 1
        PROVE  z \div r \in 0 .. n \div r - 1
    <2>1. PICK m \in Int : m = n \div r
      BY <1>1
    <2>2. n = r * m
      BY <1>1, <2>1
    <2>3. PICK d \in Int, e \in 0 .. r - 1 : d = z \div r /\ z = r * d + e
      BY <1>1
    <2>4. ~(d <= -1)
      <3> SUFFICES ASSUME d <= -1 PROVE FALSE
        OBVIOUS
      <3>1. r * d <= r * (-1)
        BY <1>1
      <3> QED
        BY <3>1, <2>3, <1>1
    <2>5. ~(d >= m)
      <3> SUFFICES ASSUME d >= m PROVE FALSE
        OBVIOUS
      <3>1. r * d >= r * m
        BY <1>1
      <3> QED
        BY <3>1, <2>2, <2>3, <1>1
    <2> QED
      BY <2>1, <2>3, <2>4, <2>5
  <1>2. /\ Right \in Nat /\ Bottom \in Nat /\ SECTOR_RATIO \in Nat
        /\ SECTOR_RATIO > 0 /\ Right % SECTOR_RATIO = 0
        /\ Bottom % SECTOR_RATIO = 0
    BY DEF ProgramsAssumption
  <1>3. /\ x \div SECTOR_RATIO \in 0 .. Right \div SECTOR_RATIO - 1
        /\ y \div SECTOR_RATIO \in 0 .. Bottom \div SECTOR_RATIO - 1
    BY <1>1, <1>2
  <1> QED
    BY <1>3 DEF C!SectorOf, Sectors, C!SectorX, C!SectorY

LEMMA SingleFinite ==
    ASSUME ProgramsAssumption
    PROVE  /\ IsFiniteSet(Slot)
           /\ IsFiniteSet(ClientSlots) /\ Cardinality(ClientSlots) \in Nat
           /\ IsFiniteSet(AliveSlots) /\ Cardinality(AliveSlots) \in Nat
           /\ ClientSlots \subseteq Slot /\ AliveSlots \subseteq Slot
  <1>1. IsFiniteSet(Slot)
    BY DEF ProgramsAssumption
  <1>2. ClientSlots \subseteq Slot /\ AliveSlots \subseteq Slot
    BY DEF ClientSlots, AliveSlots
  <1>3. IsFiniteSet(ClientSlots) /\ IsFiniteSet(AliveSlots)
    BY <1>1, <1>2, FS_Subset
  <1> QED
    BY <1>1, <1>2, <1>3, FS_CardinalityType

LEMMA SingleParameters ==
    ASSUME ProgramsAssumption
    PROVE  /\ MaxIds \in Nat /\ Right \in Nat /\ Bottom \in Nat
           /\ Right > 0 /\ Bottom > 0 /\ MaxMessages \in Nat
           /\ StartX \subseteq 0 .. Right - 1 /\ StartY \subseteq 0 .. Bottom - 1
  BY DEF ProgramsAssumption

(* At first there is no job and no player.                                  *)
LEMMA SingleStart ==
    ASSUME ProgramsAssumption, C!SessionsInit, C!SingleInit
    PROVE  SingleInv
  <1>1. /\ slot = [s \in Slot |-> EmptySlot] /\ lastId = 0
        /\ EmptySlot.phase = "free"
    BY DEF C!SessionsInit, C!NoSession, EmptySlot
  <1>2. /\ jobs = <<>> /\ playerCount = 0 /\ loginCount = 0
        /\ received = 0 /\ lost = 0
        /\ player = [s \in Slot |-> C!NoPlayer]
        /\ sector = [p \in Sectors |-> [s \in Slot |-> 0]]
    BY DEF C!SingleInit, Sectors
  <1>3. C!NoPlayer \in PlayerType /\ C!NoPlayer.status = "DELETED"
        /\ C!NoPlayer.id = 0
    BY SingleParameters DEF C!NoPlayer, PlayerType
  <1>4. Len(jobs) = 0
    BY <1>2
  <1>5. \A s \in Slot : ~Alive(s) /\ player[s].id = 0 /\ ~Used(s) /\ ~IsHere(s)
    BY <1>1, <1>2, <1>3 DEF Alive, Used, IsHere
  <1>6. SingleTypes
    BY <1>2, <1>3, SingleParameters DEF SingleTypes
  <1>7. AliveSlots = {} /\ ClientSlots = {}
    BY <1>5 DEF AliveSlots, ClientSlots
  <1>8. Counts
    BY <1>2, <1>7, FS_EmptySet DEF Counts
  <1>9. Situated
    BY <1>2, <1>5 DEF Situated
  <1>10. Homes
    BY <1>4, <1>5 DEF Homes, HasHome, HasAny
  <1>11. Ordered /\ Bounds /\ Started /\ Ended
    BY <1>4, <1>5, <1>7 DEF Ordered, Bounds, Started, Ended, HasJob
  <1> QED
    BY <1>6, <1>8, <1>9, <1>10, <1>11 DEF SingleInv

(* What a job at the end, or the first done, changes.                       *)
LEMMA JobAdded ==
    ASSUME SingleTypes, NEW new \in JobType, jobs' = Append(jobs, new)
    PROVE  /\ Len(jobs) \in Nat /\ Len(jobs') = Len(jobs) + 1
           /\ jobs' \in Seq(JobType)
           /\ \A i \in 1 .. Len(jobs) : jobs'[i] = jobs[i] /\ jobs[i] \in JobType
           /\ jobs'[Len(jobs) + 1] = new
           /\ \A type, s, id : HasJob(jobs', type, s, id) <=>
                 HasJob(jobs, type, s, id) \/ IsJob(new, type, s, id)
           /\ \A s, id : HasAny(jobs', s, id) <=>
                 HasAny(jobs, s, id) \/ (new.slot = s /\ new.id = id)
  <1>1. jobs \in Seq(JobType)
    BY DEF SingleTypes
  <1>2. PICK n \in Nat : n = Len(jobs)
    BY <1>1
  <1>3. /\ Len(jobs') = n + 1 /\ jobs' \in Seq(JobType)
        /\ \A i \in 1 .. n : jobs'[i] = jobs[i] /\ jobs[i] \in JobType
        /\ jobs'[n + 1] = new
    BY <1>1, <1>2
  <1>4. 1 .. n + 1 = (1 .. n) \cup {n + 1}
    BY <1>2
  <1>5. ASSUME NEW type, NEW s, NEW id
        PROVE  HasJob(jobs', type, s, id) <=>
                 HasJob(jobs, type, s, id) \/ IsJob(new, type, s, id)
    BY <1>2, <1>3, <1>4 DEF HasJob
  <1>6. ASSUME NEW s, NEW id
        PROVE  HasAny(jobs', s, id) <=>
                 HasAny(jobs, s, id) \/ (new.slot = s /\ new.id = id)
    BY <1>2, <1>3, <1>4 DEF HasAny
  <1> QED
    BY <1>2, <1>3, <1>5, <1>6

(* The first job goes, and the others move up.                              *)
LEMMA JobDone ==
    ASSUME SingleTypes, jobs # <<>>, jobs' = Tail(jobs)
    PROVE  /\ Len(jobs) \in Nat \ {0} /\ Len(jobs') = Len(jobs) - 1
           /\ jobs' \in Seq(JobType)
           /\ \A i \in 1 .. Len(jobs) - 1 : jobs'[i] = jobs[i + 1]
           /\ \A i \in 1 .. Len(jobs) : jobs[i] \in JobType
           /\ Head(jobs) = jobs[1] /\ Head(jobs) \in JobType
           /\ \A type, s, id : HasJob(jobs, type, s, id) <=>
                 HasJob(jobs', type, s, id) \/ IsJob(Head(jobs), type, s, id)
           /\ \A s, id : HasAny(jobs', s, id) => HasAny(jobs, s, id)
           /\ HasAny(jobs, Head(jobs).slot, Head(jobs).id)
           /\ \A type, s, id : \A i \in 1 .. Len(jobs) - 1 :
                 Earlier(jobs, i + 1, type, s, id) <=>
                   \/ Earlier(jobs', i, type, s, id)
                   \/ IsJob(Head(jobs), type, s, id)
  <1>1. jobs \in Seq(JobType)
    BY DEF SingleTypes
  <1>2. PICK n \in Nat : n = Len(jobs)
    BY <1>1
  <1>3. /\ n > 0 /\ Len(jobs') = n - 1 /\ jobs' \in Seq(JobType)
        /\ \A i \in 1 .. n - 1 : jobs'[i] = jobs[i + 1]
        /\ \A i \in 1 .. n : jobs[i] \in JobType
        /\ Head(jobs) = jobs[1] /\ Head(jobs) \in JobType
    BY <1>1, <1>2
  <1>4. /\ 1 \in 1 .. n /\ \A i \in 1 .. n - 1 : i + 1 \in 1 .. n
        /\ \A i \in 1 .. n : i # 1 => i - 1 \in 1 .. n - 1 /\ (i - 1) + 1 = i
    BY <1>3
  <1>5. ASSUME NEW type, NEW s, NEW id
        PROVE  HasJob(jobs, type, s, id) <=>
                 HasJob(jobs', type, s, id) \/ IsJob(Head(jobs), type, s, id)
    BY <1>2, <1>3, <1>4 DEF HasJob
  <1>6. /\ \A s, id : HasAny(jobs', s, id) => HasAny(jobs, s, id)
        /\ HasAny(jobs, Head(jobs).slot, Head(jobs).id)
    BY <1>2, <1>3, <1>4 DEF HasAny
  <1>7. ASSUME NEW type, NEW s, NEW id, NEW i \in 1 .. n - 1
        PROVE  Earlier(jobs, i + 1, type, s, id) <=>
                   \/ Earlier(jobs', i, type, s, id)
                   \/ IsJob(Head(jobs), type, s, id)
    <2>1. /\ 1 .. (i + 1) - 1 = 1 .. i /\ 1 \in 1 .. i
          /\ \A k \in 1 .. i - 1 : k \in 1 .. n - 1 /\ k + 1 \in 1 .. i
          /\ \A k \in 1 .. i : k # 1 => k - 1 \in 1 .. i - 1
                                        /\ (k - 1) + 1 = k
      BY <1>3
    <2> QED
      BY <1>3, <2>1 DEF Earlier
  <1> QED
    BY <1>2, <1>3, <1>5, <1>6, <1>7

LEMMA OrderedAfter ==
    ASSUME SingleTypes, Ordered, NEW new \in JobType,
           jobs' = Append(jobs, new),
           \A i \in 1 .. Len(jobs) : jobs[i].slot = new.slot =>
              /\ jobs[i].id <= new.id
              /\ jobs[i].id = new.id =>
                    jobs[i].type # "Delete" /\ new.type # "Create"
    PROVE  Ordered'
  <1>1. /\ Len(jobs) \in Nat /\ Len(jobs') = Len(jobs) + 1
        /\ \A i \in 1 .. Len(jobs) : jobs'[i] = jobs[i]
        /\ jobs'[Len(jobs) + 1] = new
    BY JobAdded
  <1>2. ASSUME NEW i \in 1 .. Len(jobs'), NEW j \in 1 .. Len(jobs'), i < j,
               jobs'[i].slot = jobs'[j].slot
        PROVE  /\ jobs'[i].id <= jobs'[j].id
               /\ jobs'[i].id = jobs'[j].id =>
                  jobs'[i].type # "Delete" /\ jobs'[j].type # "Create"
    <2>1. i \in 1 .. Len(jobs)
      BY <1>1, <1>2
    <2>2. j \in 1 .. Len(jobs) \/ j = Len(jobs) + 1
      BY <1>1, <1>2
    <2>3. CASE j \in 1 .. Len(jobs)
      BY <1>1, <1>2, <2>1, <2>3 DEF Ordered
    <2>4. CASE j = Len(jobs) + 1
      BY <1>1, <1>2, <2>1, <2>4
    <2> QED
      BY <2>2, <2>3, <2>4
  <1> QED
    BY <1>2 DEF Ordered

LEMMA OrderedDone ==
    ASSUME SingleTypes, Ordered, jobs # <<>>, jobs' = Tail(jobs)
    PROVE  /\ Ordered'
           /\ \A i \in 1 .. Len(jobs') : jobs'[i].slot = Head(jobs).slot =>
                 /\ Head(jobs).id <= jobs'[i].id
                 /\ Head(jobs).id = jobs'[i].id =>
                       Head(jobs).type # "Delete" /\ jobs'[i].type # "Create"
  <1>1. /\ Len(jobs) \in Nat \ {0} /\ Len(jobs') = Len(jobs) - 1
        /\ \A i \in 1 .. Len(jobs) - 1 : jobs'[i] = jobs[i + 1]
        /\ Head(jobs) = jobs[1]
    BY JobDone
  <1>2. \A i \in 1 .. Len(jobs') : i + 1 \in 1 .. Len(jobs) /\ 1 < i + 1
    BY <1>1
  <1>3. 1 \in 1 .. Len(jobs)
    BY <1>1
  <1>4. \A i \in 1 .. Len(jobs') : \A j \in 1 .. Len(jobs') :
           i < j => i + 1 < j + 1
    BY <1>1
  <1> QED
    BY <1>1, <1>2, <1>3, <1>4 DEF Ordered

(* The homes stay, but for that of a new session.                           *)
LEMMA HomesKept ==
    ASSUME Sessions, Homes, MaxIds \in Nat, lastId' \in {lastId, lastId + 1},
           NEW o \in Slot,
           \A s \in Slot : \A id : HasHome(s, id)' =>
              HasHome(s, id) \/ (s = o /\ id = lastId + 1 /\ lastId' = id)
    PROVE  Homes'
  <1>1. lastId \in Nat /\ lastId' \in Nat /\ 1 .. lastId \subseteq 1 .. lastId'
        /\ lastId + 1 \notin 1 .. lastId
    BY DEF Sessions
  <1>2. ASSUME NEW s \in Slot, NEW id, HasHome(s, id)'
        PROVE  id \in 1 .. lastId' /\ \A r \in Slot : HasHome(r, id)' => r = s
    <2>1. CASE HasHome(s, id)
      BY <1>1, <2>1 DEF Homes
    <2>2. CASE s = o /\ id = lastId + 1 /\ lastId' = id
      BY <1>1, <2>2 DEF Homes
    <2> QED
      BY <1>2, <2>1, <2>2
  <1> QED
    BY <1>2 DEF Homes

(* The contents see no change of the sessions.                              *)
Keeping ==
    /\ Sessions' /\ lastId' = lastId
    /\ \A r \in Slot : /\ Used(r)' <=> Used(r)
                       /\ IsHere(r)' <=> IsHere(r)
                       /\ slot'[r].id = slot[r].id
                       /\ slot'[r].kind = slot[r].kind

(* When no session comes or goes, the clients are the same.                 *)
LEMMA KeepsSlots ==
    ASSUME Sessions, MaxIds \in Nat, UNCHANGED <<slot, lastId>>
    PROVE  Keeping
  <1>1. Sessions'
    BY SessionsMove DEF SessionMove
  <1> QED
    BY <1>1 DEF Keeping, Used, IsHere

LEMMA KeepsLeaving ==
    ASSUME Sessions, NEW s \in Slot, slot[s].phase = "open",
           Turning(s, "left")
    PROVE  Keeping
  <1>1. /\ Sessions' /\ lastId' = lastId
        /\ slot'[s].phase = "left" /\ slot'[s].id = slot[s].id
        /\ slot'[s].kind = slot[s].kind
        /\ \A r \in Slot \ {s} : slot'[r] = slot[r]
    BY TurningDoes
  <1> QED
    BY <1>1 DEF Keeping, Used, IsHere

LEMMA KeepsClients ==
    ASSUME Keeping
    PROVE  ClientSlots' = ClientSlots
  BY DEF Keeping, ClientSlots

(* Nothing but the sessions changes, and not for the contents. *)
LEMMA SingleQuiet ==
    ASSUME SingleInv, Keeping, MaxIds \in Nat, Sessions,
           UNCHANGED <<jobs, player, sector, playerCount, loginCount,
                       received, lost>>
    PROVE  SingleInv'
  <1>1. /\ UNCHANGED <<jobs, player, sector, playerCount, loginCount,
                       received, lost>>
        /\ ClientSlots' = ClientSlots
    BY KeepsClients
  <1>2. /\ lastId' = lastId
        /\ \A r \in Slot : /\ Used(r)' <=> Used(r)
                           /\ IsHere(r)' <=> IsHere(r)
                           /\ slot'[r].id = slot[r].id
    BY DEF Keeping
  <1>3. SingleTypes' /\ Ordered' /\ Situated' /\ Counts'
    <2>1. SingleTypes' /\ Ordered'
      BY <1>1 DEF SingleInv, SingleTypes, Ordered
    <2>2. Situated'
      BY <1>1 DEF SingleInv, Situated, Alive, At
    <2>3. Counts'
      <3>1. AliveSlots' = AliveSlots
        BY <1>1 DEF AliveSlots, Alive
      <3> QED
        BY <1>1, <3>1 DEF SingleInv, Counts
    <2> QED
      BY <2>1, <2>2, <2>3
  <1>4. Homes'
    BY <1>1, <1>2 DEF SingleInv, Homes, HasHome
  <1>5. \A i \in 1 .. Len(jobs) : jobs[i].slot \in Slot
    <2>1. jobs \in Seq(JobType)
      BY DEF SingleInv, SingleTypes
    <2>2. \A i \in 1 .. Len(jobs) : jobs[i] \in JobType
      BY <2>1
    <2> QED
      BY <2>2 DEF JobType
  <1>6. Bounds'
    BY <1>1, <1>2, <1>5 DEF SingleInv, Bounds, Used
  <1>7. ClientSlots \subseteq Slot
    BY DEF ClientSlots
  <1>8. Started'
    BY <1>1, <1>2, <1>7 DEF SingleInv, Started, Alive
  <1>9. Ended'
    BY <1>1, <1>2, <1>5 DEF SingleInv, Ended, Lasting, Alive, IsHere, Keeping
  <1> QED
    BY <1>3, <1>4, <1>6, <1>8, <1>9 DEF SingleInv

(* The actions of the network side, one by one.                             *)
LEMMA SingleLeaves ==
    ASSUME ProgramsAssumption, Sessions, SingleInv, NEW s \in Slot,
           C!PeerLeaves(s)
    PROVE  Sessions' /\ SingleInv'
  <1>1. /\ slot[s].phase = "open" /\ Turning(s, "left")
        /\ UNCHANGED <<jobs, player, sector, playerCount, loginCount,
                       received, lost>>
    BY DEF C!PeerLeaves, C!Leaves, Turning, Used, C!quiet, C!contents
  <1>2. Keeping
    BY <1>1, KeepsLeaving
  <1> QED
    BY <1>1, <1>2, SingleQuiet, SingleParameters DEF Keeping

LEMMA SingleAccepts ==
    ASSUME ProgramsAssumption, Sessions, SingleInv, NEW s \in Slot,
           C!OnAccept(s)
    PROVE  Sessions' /\ SingleInv'
  <1> DEFINE new == [type |-> "Create", slot |-> s, id |-> lastId + 1]
  <1>1. /\ Opening(s, "client") /\ jobs' = Append(jobs, new)
        /\ playerCount' = playerCount + 1
        /\ UNCHANGED <<player, sector, loginCount, received, lost>>
    BY DEF C!OnAccept, C!Opened, Opening, Used, C!contents
  <1>2. /\ Sessions' /\ lastId' = lastId + 1 /\ ~Used(s)
        /\ slot'[s] = [id |-> lastId + 1, phase |-> "open", kind |-> "client"]
        /\ \A r \in Slot \ {s} : slot'[r] = slot[r]
    BY <1>1, OpeningDoes, SingleParameters
  <1>3. lastId \in 0 .. MaxIds /\ lastId + 1 \in 1 .. MaxIds
        /\ lastId + 1 # 0 /\ MaxIds \in Nat
    BY <1>1, SingleParameters, SMTT(20) DEF Sessions, Opening
  <1>4. new \in JobType /\ new.type = "Create" /\ new.slot = s
        /\ new.id = lastId + 1
    BY <1>3 DEF JobType
  <1> HIDE DEF new
  <1>5. /\ Len(jobs) \in Nat /\ Len(jobs') = Len(jobs) + 1
        /\ jobs' \in Seq(JobType)
        /\ \A i \in 1 .. Len(jobs) : jobs'[i] = jobs[i] /\ jobs[i] \in JobType
        /\ jobs'[Len(jobs) + 1] = new
        /\ \A type, r, id : HasJob(jobs', type, r, id) <=>
              HasJob(jobs, type, r, id) \/ IsJob(new, type, r, id)
        /\ \A r, id : HasAny(jobs', r, id) <=>
              HasAny(jobs, r, id) \/ (new.slot = r /\ new.id = id)
    BY <1>1, <1>4, JobAdded DEF SingleInv
  <1>6. /\ \A r \in Slot \ {s} : /\ Used(r)' <=> Used(r)
                                 /\ IsHere(r)' <=> IsHere(r)
        /\ Used(s)' /\ IsHere(s)' /\ ~IsHere(s)
    BY <1>2 DEF Used, IsHere
  <1>7. ClientSlots' = ClientSlots \cup {s} /\ s \notin ClientSlots
    BY <1>2, <1>6 DEF ClientSlots
  (* No number of the past is that of the new session. *)
  <1>8. \A r \in Slot : \A id : HasHome(r, id) => id \in 1 .. lastId
    BY DEF SingleInv, Homes
  <1>9. \A i \in 1 .. Len(jobs) :
          jobs[i].slot \in Slot /\ jobs[i].id \in 1 .. lastId
    <2> SUFFICES ASSUME NEW i \in 1 .. Len(jobs)
                 PROVE  jobs[i].slot \in Slot /\ jobs[i].id \in 1 .. lastId
      OBVIOUS
    <2>1. jobs[i].slot \in Slot
      BY <1>5 DEF JobType
    <2>2. HasHome(jobs[i].slot, jobs[i].id)
      BY DEF HasHome, HasAny
    <2> QED
      BY <1>8, <2>1, <2>2
  <1>10. player \in [Slot -> PlayerType]
    BY DEF SingleInv, SingleTypes
  <1>11. \A r \in Slot : player[r].id \in 0 .. lastId
    <2> SUFFICES ASSUME NEW r \in Slot, player[r].id # 0
                 PROVE  player[r].id \in 0 .. lastId
      BY <1>3
    <2>1. HasHome(r, player[r].id)
      BY DEF HasHome
    <2> QED
      BY <1>8, <2>1
  <1>12. Homes'
    <2>1. \A r \in Slot : \A id : HasHome(r, id)' =>
              HasHome(r, id) \/ (r = s /\ id = lastId + 1 /\ lastId' = id)
      BY <1>1, <1>2, <1>4, <1>5, <1>6, SMTT(20) DEF HasHome
    <2> QED
      BY <1>2, <1>3, <2>1, HomesKept DEF SingleInv
  <1>13. Ordered'
    <2>1. \A j \in 1 .. lastId : j <= lastId + 1 /\ j # lastId + 1
      BY <1>3
    <2>2. \A i \in 1 .. Len(jobs) : jobs[i].slot = new.slot =>
              /\ jobs[i].id <= new.id
              /\ jobs[i].id = new.id =>
                    jobs[i].type # "Delete" /\ new.type # "Create"
      BY <1>4, <1>9, <2>1
    <2> QED
      BY <1>1, <1>4, <2>2, OrderedAfter DEF SingleInv
  <1>14. 1 .. Len(jobs') = (1 .. Len(jobs)) \cup {Len(jobs) + 1}
    BY <1>5, SMTT(20)
  <1>15. Bounds'
    <2>1. ASSUME NEW r \in Slot, Used(r)'
          PROVE  player[r].id <= slot'[r].id
      <3>1. CASE r = s
        <4>1. \A j \in 0 .. lastId : j <= lastId + 1
          BY <1>3
        <4> QED
          BY <1>2, <1>11, <3>1, <4>1
      <3>2. CASE r # s
        BY <1>2, <1>6, <2>1, <3>2 DEF SingleInv, Bounds
      <3> QED
        BY <3>1, <3>2
    <2>2. ASSUME NEW i \in 1 .. Len(jobs)
          PROVE  /\ slot'[jobs[i].slot].phase # "free" =>
                       jobs[i].id <= slot'[jobs[i].slot].id
                 /\ player[jobs[i].slot].id <= jobs[i].id
                 /\ jobs[i].type = "Create" =>
                       player[jobs[i].slot].id # jobs[i].id
      <3>1. PICK r \in Slot, id \in 1 .. lastId :
               r = jobs[i].slot /\ id = jobs[i].id
        BY <1>9
      <3>2. /\ Used(r) => id <= slot[r].id
            /\ player[r].id <= id
            /\ jobs[i].type = "Create" => player[r].id # id
        BY <3>1 DEF SingleInv, Bounds, Used
      <3>3. id <= lastId + 1
        BY <1>3
      <3>4. Used(r)' => id <= slot'[r].id
        <4>1. CASE r = s
          BY <1>2, <3>3, <4>1, SMTT(20)
        <4>2. CASE r # s
          BY <1>2, <1>6, <3>2, <4>2
        <4> QED
          BY <4>1, <4>2
      <3> QED
        BY <3>1, <3>2, <3>4 DEF Used
    <2>3. /\ new.id <= slot'[new.slot].id /\ player[new.slot].id <= new.id
          /\ player[new.slot].id # new.id
      BY <1>2, <1>3, <1>4, <1>11
    <2>4. ASSUME NEW r \in Slot, IsHere(r)'
          PROVE  ~HasJob(jobs', "Delete", r, slot'[r].id)
      <3>1. ~IsJob(new, "Delete", r, slot'[r].id)
        BY <1>4 DEF IsJob
      <3>2. CASE r # s
        BY <1>2, <1>5, <1>6, <2>4, <3>1, <3>2 DEF SingleInv, Bounds
      <3>3. CASE r = s
        <4>1. ~HasJob(jobs, "Delete", s, lastId + 1)
          BY <1>3, <1>9, SMTT(20) DEF HasJob, IsJob
        <4> QED
          BY <1>2, <1>5, <3>1, <3>3, <4>1, SMTT(20)
      <3> QED
        BY <3>2, <3>3
    <2>5. ASSUME NEW i \in 1 .. Len(jobs')
          PROVE  /\ slot'[jobs'[i].slot].phase # "free" =>
                       jobs'[i].id <= slot'[jobs'[i].slot].id
                 /\ player'[jobs'[i].slot].id <= jobs'[i].id
                 /\ jobs'[i].type = "Create" =>
                       player'[jobs'[i].slot].id # jobs'[i].id
      <3>1. CASE i \in 1 .. Len(jobs)
        BY <1>1, <1>5, <2>2, <3>1
      <3>2. CASE i = Len(jobs) + 1
        BY <1>1, <1>5, <2>3, <3>2
      <3> QED
        BY <1>14, <3>1, <3>2
    <2> QED
      BY <1>1, <2>1, <2>4, <2>5 DEF Bounds
  <1>16. Started'
    <2>1. ASSUME NEW i \in 1 .. Len(jobs'),
                 jobs'[i].type \notin {"Create", "Delete"}
          PROVE  \/ Earlier(jobs', i, "Create", jobs'[i].slot, jobs'[i].id)
                 \/ /\ player'[jobs'[i].slot].status = "ALIVE"
                    /\ player'[jobs'[i].slot].id = jobs'[i].id
      <3>1. i \in 1 .. Len(jobs) /\ jobs'[i] = jobs[i]
        BY <1>4, <1>5, <1>14, <2>1
      <3>2. \/ Earlier(jobs, i, "Create", jobs[i].slot, jobs[i].id)
            \/ /\ player[jobs[i].slot].status = "ALIVE"
               /\ player[jobs[i].slot].id = jobs[i].id
        BY <2>1, <3>1 DEF SingleInv, Started
      <3>3. \A k \in 1 .. i - 1 : jobs'[k] = jobs[k]
        <4>1. \A k \in 1 .. i - 1 : k \in 1 .. Len(jobs)
          BY <1>5, <3>1, SMTT(20)
        <4> QED
          BY <1>5, <4>1
      <3> QED
        BY <1>1, <3>1, <3>2, <3>3 DEF Earlier, Alive
    <2>2. ASSUME NEW r \in ClientSlots'
          PROVE  \/ HasJob(jobs', "Create", r, slot'[r].id)
                 \/ Alive(r)' /\ player'[r].id = slot'[r].id
      <3>1. CASE r = s
        BY <1>2, <1>4, <1>5, <3>1, SMTT(20) DEF IsJob
      <3>2. CASE r # s
        <4>1. r \in ClientSlots /\ slot'[r] = slot[r]
          BY <1>2, <1>7, <2>2, <3>2 DEF ClientSlots
        <4> QED
          BY <1>1, <1>5, <4>1 DEF SingleInv, Started, Alive
      <3> QED
        BY <3>1, <3>2
    <2> QED
      BY <2>1, <2>2 DEF Started
  <1>17. ASSUME NEW r \in Slot, NEW id, Lasting(jobs, slot, r, id)
         PROVE  Lasting(jobs', slot', r, id)
    BY <1>2, <1>5, <1>7, <1>17 DEF Lasting, ClientSlots, IsHere
  <1>18. Lasting(jobs', slot', s, lastId + 1)
    BY <1>2 DEF Lasting
  <1>19. Ended'
    <2>1. \A r \in Slot : Alive(r) =>
             player[r].id # 0 /\ Lasting(jobs', slot', r, player[r].id)
      BY <1>17 DEF SingleInv, Ended
    <2>2. \A i \in 1 .. Len(jobs) : jobs[i].type = "Create" =>
             Lasting(jobs', slot', jobs[i].slot, jobs[i].id)
      BY <1>9, <1>17 DEF SingleInv, Ended
    <2>3. ASSUME NEW i \in 1 .. Len(jobs'), jobs'[i].type = "Create"
          PROVE  Lasting(jobs', slot', jobs'[i].slot, jobs'[i].id)
      <3>1. CASE i \in 1 .. Len(jobs)
        BY <1>5, <2>2, <2>3, <3>1
      <3>2. CASE i = Len(jobs) + 1
        BY <1>4, <1>5, <1>18, <3>2
      <3> QED
        BY <1>14, <3>1, <3>2
    <2> QED
      BY <1>1, <2>1, <2>3 DEF Ended, Alive
  <1>20. SingleTypes'
    BY <1>1, <1>5, SMTT(20) DEF SingleInv, SingleTypes
  <1>21. Situated' /\ AliveSlots' = AliveSlots
    BY <1>1 DEF SingleInv, Situated, Alive, At, AliveSlots
  <1>22. Cardinality(ClientSlots') = Cardinality(ClientSlots) + 1
         /\ Cardinality(ClientSlots) \in Nat
    BY <1>7, SingleFinite, OneMore
  <1>23. playerCount \in Int /\ lost \in Int
    BY DEF SingleInv, SingleTypes
  <1>24. Counts'
    BY <1>1, <1>21, <1>22, <1>23 DEF SingleInv, Counts
  <1> QED
    BY <1>2, <1>12, <1>13, <1>15, <1>16, <1>19, <1>20, <1>21, <1>24
       DEF SingleInv

(* RegistMonitor: a session that is no client's. *)
LEMMA SingleRegists ==
    ASSUME ProgramsAssumption, Sessions, SingleInv, NEW s \in Slot,
           C!RegistMonitor(s)
    PROVE  Sessions' /\ SingleInv'
  <1>1. /\ NoServer /\ Opening(s, "server")
        /\ UNCHANGED <<jobs, player, sector, playerCount, loginCount,
                       received, lost>>
    BY DEF C!RegistMonitor, C!Opened, Opening, Used, C!quiet, C!contents, NoServer
  <1>2. /\ Sessions' /\ lastId' = lastId + 1 /\ ~Used(s)
        /\ slot'[s] = [id |-> lastId + 1, phase |-> "open", kind |-> "server"]
        /\ \A r \in Slot \ {s} : slot'[r] = slot[r]
    BY <1>1, OpeningDoes, SingleParameters
  <1>3. lastId \in Nat
    BY SingleParameters DEF Sessions
  <1>4. /\ \A r \in Slot \ {s} : /\ Used(r)' <=> Used(r)
                                 /\ IsHere(r)' <=> IsHere(r)
        /\ Used(s)' /\ IsHere(s)' /\ ~IsHere(s)
    BY <1>2 DEF Used, IsHere
  <1>5. ClientSlots' = ClientSlots /\ s \notin ClientSlots
    BY <1>2, <1>4 DEF ClientSlots
  <1>6. SingleTypes' /\ Situated' /\ Ordered' /\ Counts'
    BY <1>1, <1>5, ZenonT(40) DEF SingleInv, SingleTypes, Situated, Ordered, Counts,
                      Alive, At, AliveSlots
  (* No number of the past is that of the new session. *)
  <1>7. \A r \in Slot : \A id : HasHome(r, id) => id \in 1 .. lastId
    BY DEF SingleInv, Homes
  <1>8. ASSUME NEW i \in 1 .. Len(jobs)
        PROVE  jobs[i].slot \in Slot /\ jobs[i].id \in 1 .. lastId
    <2>1. jobs[i] \in JobType
      <3>1. jobs \in Seq(JobType)
        BY DEF SingleInv, SingleTypes
      <3> QED
        BY <3>1
    <2>2. jobs[i].slot \in Slot
      BY <2>1 DEF JobType
    <2>3. HasHome(jobs[i].slot, jobs[i].id)
      BY DEF HasHome, HasAny
    <2> QED
      BY <1>7, <2>2, <2>3
  <1>9. player[s].id \in 0 .. lastId
    <2>1. CASE player[s].id = 0
      BY <2>1, <1>3
    <2>2. CASE player[s].id # 0
      <3>1. PICK p \in 1 .. lastId : p = player[s].id
        BY <2>2, <1>7 DEF HasHome
      <3>2. p \in 0 .. lastId
        BY <1>3
      <3> QED
        BY <3>1, <3>2
    <2> QED
      BY <2>1, <2>2
  <1>10. Homes'
    <2>1. \A r \in Slot : \A id : HasHome(r, id)' =>
              HasHome(r, id) \/ (r = s /\ id = lastId + 1 /\ lastId' = id)
      BY <1>1, <1>2, <1>4 DEF HasHome
    <2> QED
      BY <1>2, <2>1, HomesKept, SingleParameters DEF SingleInv
  <1>11. Bounds'
    <2>1. \A j \in 0 .. lastId : j <= lastId + 1
      BY <1>3
    <2>2. ASSUME NEW r \in Slot, Used(r)'
          PROVE  player[r].id <= slot'[r].id
      <3>1. CASE r = s
        <4>1. slot'[s].id = lastId + 1
          BY <1>2
        <4> QED
          BY <3>1, <4>1, <1>9, <2>1
      <3>2. CASE r # s
        BY <1>2, <1>4, <2>2, <3>2 DEF SingleInv, Bounds
      <3> QED
        BY <3>1, <3>2
    <2>3. ASSUME NEW i \in 1 .. Len(jobs), slot'[jobs[i].slot].phase # "free"
          PROVE  jobs[i].id <= slot'[jobs[i].slot].id
      <3>1. CASE jobs[i].slot = s
        <4>1. PICK id \in 1 .. lastId : id = jobs[i].id
          BY <1>8
        <4>2. id <= lastId + 1 /\ slot'[s].id = lastId + 1
          BY <1>2, <1>3
        <4> QED
          BY <3>1, <4>1, <4>2
      <3>2. CASE jobs[i].slot # s
        BY <3>2, <2>3, <1>2, <1>8 DEF SingleInv, Bounds
      <3> QED
        BY <3>1, <3>2
    <2>4. \A i \in 1 .. Len(jobs) :
             /\ player[jobs[i].slot].id <= jobs[i].id
             /\ jobs[i].type = "Create" => player[jobs[i].slot].id # jobs[i].id
      BY DEF SingleInv, Bounds
    <2>5. ASSUME NEW r \in Slot, IsHere(r)'
          PROVE  ~HasJob(jobs, "Delete", r, slot'[r].id)
      <3>1. CASE r = s
        <4>1. lastId + 1 \notin 1 .. lastId /\ slot'[s].id = lastId + 1
          BY <1>2, <1>3
        <4>2. \A i \in 1 .. Len(jobs) : jobs[i].id # lastId + 1
          BY <1>8, <4>1
        <4> QED
          BY <3>1, <4>1, <4>2 DEF HasJob, IsJob
      <3>2. CASE r # s
        BY <3>2, <2>5, <1>2, <1>4 DEF SingleInv, Bounds
      <3> QED
        BY <3>1, <3>2
    <2> QED
      BY <1>1, <2>2, <2>3, <2>4, <2>5 DEF Bounds
  <1>12. ClientSlots \subseteq Slot \ {s}
    BY <1>5 DEF ClientSlots
  <1>13. Started'
    BY <1>1, <1>2, <1>5, <1>12 DEF SingleInv, Started, Alive
  <1>14. Ended'
    <2>1. \A r \in Slot : \A id : Lasting(jobs, slot, r, id) =>
             Lasting(jobs', slot', r, id)
      BY <1>1, <1>2, <1>4 DEF Lasting, IsHere
    <2> QED
      BY <1>1, <1>8, <2>1 DEF SingleInv, Ended, Alive
  <1> QED
    BY <1>2, <1>6, <1>10, <1>11, <1>13, <1>14 DEF SingleInv

(* The index goes back. *)
LEMMA SingleFrees ==
    ASSUME ProgramsAssumption, Sessions, SingleInv, NEW s \in Slot,
           C!Free(s)
    PROVE  Sessions' /\ SingleInv'
  <1>1. /\ Freeing(s)
        /\ UNCHANGED <<jobs, player, sector, playerCount, loginCount,
                       received, lost>>
    BY DEF C!Free, C!Freed, C!NoSession, Freeing, EmptySlot, C!quiet,
           C!contents
  <1>2. /\ Sessions' /\ lastId' = lastId /\ slot[s].phase = "closing"
        /\ slot'[s] = EmptySlot
        /\ \A r \in Slot \ {s} : slot'[r] = slot[r]
    BY <1>1, FreeingDoes, SingleParameters
  <1>3. EmptySlot.phase = "free"
    BY DEF EmptySlot
  <1>4. /\ ~Used(s)' /\ ~IsHere(s)' /\ ~IsHere(s)
        /\ \A r \in Slot \ {s} : /\ Used(r)' <=> Used(r)
                                 /\ IsHere(r)' <=> IsHere(r)
    BY <1>2, <1>3 DEF Used, IsHere
  <1>5. ClientSlots' = ClientSlots /\ s \notin ClientSlots
    BY <1>2, <1>4 DEF ClientSlots
  <1>6. SingleTypes' /\ Situated' /\ Ordered' /\ Counts'
    BY <1>1, <1>5, ZenonT(40) DEF SingleInv, SingleTypes, Situated, Ordered, Counts,
                      Alive, At, AliveSlots
  <1>7. Homes'
    <2>1. \A r \in Slot : \A id : HasHome(r, id)' =>
              HasHome(r, id) \/ (r = s /\ id = lastId + 1 /\ lastId' = id)
      BY <1>1, <1>2, <1>4 DEF HasHome
    <2> QED
      BY <1>2, <2>1, HomesKept, SingleParameters DEF SingleInv
  <1>8. \A i \in 1 .. Len(jobs) : slot'[jobs[i].slot].phase # "free" =>
           jobs[i].slot # s
    BY <1>2, <1>3
  <1>9. \A i \in 1 .. Len(jobs) : jobs[i].slot \in Slot
    <2>1. jobs \in Seq(JobType)
      BY DEF SingleInv, SingleTypes
    <2>2. \A i \in 1 .. Len(jobs) : jobs[i] \in JobType
      BY <2>1, SMTT(20)
    <2> QED
      BY <2>2 DEF JobType
  <1>10. Bounds'
    BY <1>1, <1>2, <1>4, <1>8, <1>9 DEF SingleInv, Bounds
  <1>11. ClientSlots \subseteq Slot \ {s}
    BY <1>5 DEF ClientSlots
  <1>12. Started'
    BY <1>1, <1>2, <1>5, <1>11 DEF SingleInv, Started, Alive
  <1>13. Ended'
    <2>1. \A r \in Slot : \A id : Lasting(jobs, slot, r, id) =>
             Lasting(jobs', slot', r, id)
      BY <1>1, <1>2 DEF Lasting
    <2> QED
      BY <1>1, <1>9, <2>1 DEF SingleInv, Ended, Alive
  <1> QED
    BY <1>2, <1>6, <1>7, <1>10, <1>12, <1>13 DEF SingleInv

(* A job of a session that is here, which goes when it is the deletion.      *)
LEMMA SingleAppends ==
    ASSUME ProgramsAssumption, Sessions, SingleInv, NEW s \in Slot,
           NEW new \in JobType, new.slot = s, new.id = slot[s].id,
           new.type # "Create", IsHere(s), jobs' = Append(jobs, new),
           new.type # "Delete" => s \in ClientSlots,
           UNCHANGED <<player, sector, lastId>>, Sessions',
           slot'[s].id = slot[s].id /\ slot'[s].kind = slot[s].kind,
           \A r \in Slot \ {s} : slot'[r] = slot[r],
           new.type = "Delete" <=> ~IsHere(s)'
    PROVE  /\ Homes' /\ Ordered' /\ Bounds' /\ Started' /\ Ended' /\ Situated'
           /\ jobs' \in Seq(JobType) /\ AliveSlots' = AliveSlots
  <1>1. /\ Len(jobs) \in Nat /\ Len(jobs') = Len(jobs) + 1
        /\ jobs' \in Seq(JobType)
        /\ \A i \in 1 .. Len(jobs) : jobs'[i] = jobs[i] /\ jobs[i] \in JobType
        /\ jobs'[Len(jobs) + 1] = new
        /\ \A type, r, id : HasJob(jobs', type, r, id) <=>
              HasJob(jobs, type, r, id) \/ IsJob(new, type, r, id)
        /\ \A r, id : HasAny(jobs', r, id) <=>
              HasAny(jobs, r, id) \/ (new.slot = r /\ new.id = id)
    BY JobAdded DEF SingleInv
  <1>2. 1 .. Len(jobs') = (1 .. Len(jobs)) \cup {Len(jobs) + 1}
    BY <1>1, SMTT(20)
  <1>3. Used(s) /\ \A i \in 1 .. Len(jobs) : jobs[i].slot \in Slot
    BY <1>1 DEF IsHere, Used, JobType
  <1>4. \A r \in Slot \ {s} : /\ Used(r)' <=> Used(r)
                              /\ IsHere(r)' <=> IsHere(r)
    BY DEF Used, IsHere
  <1>5. ~HasJob(jobs, "Delete", s, slot[s].id)
    BY DEF SingleInv, Bounds
  <1>6. \A i \in 1 .. Len(jobs) : jobs[i].slot = s =>
           /\ jobs[i].id <= slot[s].id
           /\ jobs[i].id = slot[s].id => jobs[i].type # "Delete"
    <2>1. \A i \in 1 .. Len(jobs) : jobs[i].slot = s => jobs[i].id <= slot[s].id
      BY <1>3 DEF SingleInv, Bounds, Used
    <2>2. \A i \in 1 .. Len(jobs) : jobs[i].slot = s /\ jobs[i].id = slot[s].id
             => jobs[i].type # "Delete"
      BY <1>5 DEF HasJob, IsJob
    <2> QED
      BY <2>1, <2>2
  <1>7. Ordered'
    BY <1>6, OrderedAfter DEF SingleInv
  <1>8. Homes'
    <2>1. \A r \in Slot : \A id : HasHome(r, id)' =>
              HasHome(r, id) \/ (r = s /\ id = lastId + 1 /\ lastId' = id)
      BY <1>1, <1>3, <1>4 DEF HasHome, Used
    <2> QED
      BY <2>1, HomesKept, SingleParameters DEF SingleInv
  <1>9. player[s].id <= slot[s].id
    BY <1>3 DEF SingleInv, Bounds
  <1>10. Bounds'
    <2>1. \A r \in Slot : Used(r)' => player'[r].id <= slot'[r].id
      BY <1>4, <1>9 DEF SingleInv, Bounds
    <2>2. ASSUME NEW i \in 1 .. Len(jobs')
          PROVE  /\ slot'[jobs'[i].slot].phase # "free" =>
                       jobs'[i].id <= slot'[jobs'[i].slot].id
                 /\ player'[jobs'[i].slot].id <= jobs'[i].id
                 /\ jobs'[i].type = "Create" =>
                       player'[jobs'[i].slot].id # jobs'[i].id
      <3>1. CASE i \in 1 .. Len(jobs)
        <4>1. /\ slot[jobs[i].slot].phase # "free" =>
                    jobs[i].id <= slot[jobs[i].slot].id
              /\ player[jobs[i].slot].id <= jobs[i].id
              /\ jobs[i].type = "Create" =>
                    player[jobs[i].slot].id # jobs[i].id
          BY <3>1 DEF SingleInv, Bounds
        <4>2. slot'[jobs[i].slot].phase # "free" =>
                 jobs[i].id <= slot'[jobs[i].slot].id
          BY <1>3, <1>6, <3>1, <4>1
        <4> QED
          BY <1>1, <3>1, <4>1, <4>2
      <3>2. CASE i = Len(jobs) + 1
        <4>1. slot[s].id <= slot[s].id
          BY <1>3, SMTT(20) DEF Sessions
        <4> QED
          BY <1>1, <1>9, <3>2, <4>1
      <3> QED
        BY <1>2, <3>1, <3>2
    <2>3. ASSUME NEW r \in Slot, IsHere(r)'
          PROVE  ~HasJob(jobs', "Delete", r, slot'[r].id)
      <3>1. CASE r = s
        BY <1>1, <1>5, <2>3, <3>1 DEF IsJob
      <3>2. CASE r # s
        <4>1. ~HasJob(jobs, "Delete", r, slot[r].id) /\ slot'[r] = slot[r]
          BY <1>4, <2>3, <3>2 DEF SingleInv, Bounds
        <4>2. ~IsJob(new, "Delete", r, slot[r].id)
          BY <3>2 DEF IsJob
        <4> QED
          BY <1>1, <4>1, <4>2
      <3> QED
        BY <3>1, <3>2
    <2> QED
      BY <2>1, <2>2, <2>3 DEF Bounds
  <1>11. ClientSlots' \subseteq ClientSlots /\ ClientSlots \subseteq Slot
    BY <1>4 DEF ClientSlots
  <1>12. Started'
    <2>1. ASSUME NEW i \in 1 .. Len(jobs'),
                 jobs'[i].type \notin {"Create", "Delete"}
          PROVE  \/ Earlier(jobs', i, "Create", jobs'[i].slot, jobs'[i].id)
                 \/ /\ player'[jobs'[i].slot].status = "ALIVE"
                    /\ player'[jobs'[i].slot].id = jobs'[i].id
      <3>1. CASE i \in 1 .. Len(jobs)
        <4>1. jobs'[i] = jobs[i] /\ \A k \in 1 .. i - 1 : jobs'[k] = jobs[k]
          BY <1>1, <3>1
        <4>2. \/ Earlier(jobs, i, "Create", jobs[i].slot, jobs[i].id)
              \/ /\ player[jobs[i].slot].status = "ALIVE"
                 /\ player[jobs[i].slot].id = jobs[i].id
          BY <2>1, <3>1, <4>1 DEF SingleInv, Started
        <4> QED
          BY <4>1, <4>2 DEF Earlier
      <3>2. CASE i = Len(jobs) + 1
        <4>1. jobs'[i] = new /\ s \in ClientSlots
          BY <1>1, <2>1, <3>2
        <4>2. \/ HasJob(jobs, "Create", s, slot[s].id)
              \/ Alive(s) /\ player[s].id = slot[s].id
          BY <4>1 DEF SingleInv, Started
        <4>3. i - 1 = Len(jobs)
          BY <1>1, <3>2
        <4>4. HasJob(jobs, "Create", s, slot[s].id) =>
                 Earlier(jobs', i, "Create", s, slot[s].id)
          BY <1>1, <4>3 DEF HasJob, Earlier
        <4> QED
          BY <4>1, <4>2, <4>4 DEF Alive
      <3> QED
        BY <1>2, <3>1, <3>2
    <2>2. ASSUME NEW r \in ClientSlots'
          PROVE  \/ HasJob(jobs', "Create", r, slot'[r].id)
                 \/ Alive(r)' /\ player'[r].id = slot'[r].id
      <3>1. r \in ClientSlots /\ slot'[r].id = slot[r].id
        BY <1>11, <2>2
      <3> QED
        BY <1>1, <3>1 DEF SingleInv, Started, Alive
    <2> QED
      BY <2>1, <2>2 DEF Started
  <1>13. ASSUME NEW r \in Slot, NEW id, Lasting(jobs, slot, r, id)
         PROVE  Lasting(jobs', slot', r, id)
    <2>1. CASE r = s
      BY <1>1, <1>13, <2>1 DEF Lasting, IsHere, IsJob
    <2>2. CASE r # s
      BY <1>1, <1>13, <2>2 DEF Lasting
    <2> QED
      BY <2>1, <2>2
  <1>14. Ended'
    <2>1. \A i \in 1 .. Len(jobs') : jobs'[i].type = "Create" =>
             i \in 1 .. Len(jobs) /\ jobs'[i] = jobs[i]
      BY <1>1, <1>2
    <2> QED
      BY <1>3, <1>13, <2>1 DEF SingleInv, Ended, Alive
  <1>15. Situated' /\ AliveSlots' = AliveSlots
    BY DEF SingleInv, Situated, Alive, At, AliveSlots
  <1> QED
    BY <1>1, <1>7, <1>8, <1>10, <1>12, <1>14, <1>15

(* A message is a job more; a session that goes leaves its deletion behind. *)
LEMMA SingleReceives ==
    ASSUME ProgramsAssumption, Sessions, SingleInv, NEW s \in Slot,
           NEW type \in {"MoveStart", "MoveStop", "LocalChat", "Bad"},
           C!OnMessage(s, type)
    PROVE  Sessions' /\ SingleInv'
  <1> DEFINE new == C!Job(type, s)
  <1>1. /\ IsHere(s) /\ received < MaxMessages
        /\ slot[s].kind = "client" /\ jobs' = Append(jobs, new)
        /\ received' = received + 1
        /\ UNCHANGED <<slot, lastId, player, sector, loginCount, playerCount,
                       lost>>
    BY DEF C!OnMessage, C!sessionVars, C!contents, C!Here, IsHere
  <1>2. Sessions' /\ s \in ClientSlots /\ ClientSlots' = ClientSlots
        /\ IsHere(s) /\ IsHere(s)'
    BY <1>1, SessionsMove, SingleParameters
       DEF SessionMove, ClientSlots, IsHere
  <1>3. slot[s].id \in 1 .. MaxIds
    BY <1>1, SingleParameters, SMTT(20) DEF Sessions, Used, IsHere
  <1>4. /\ new.slot = s /\ new.id = slot[s].id /\ new.type = type
        /\ new \in JobType
    BY <1>3 DEF C!Job, JobType
  <1> HIDE DEF new
  <1>5. /\ Homes' /\ Ordered' /\ Bounds' /\ Started' /\ Ended' /\ Situated'
        /\ jobs' \in Seq(JobType) /\ AliveSlots' = AliveSlots
    BY <1>1, <1>2, <1>4, SingleAppends
  <1>6. received' \in 0 .. MaxMessages
    <2>1. received \in 0 .. MaxMessages
      BY DEF SingleInv, SingleTypes
    <2>2. received' = received + 1 /\ received < MaxMessages
      BY <1>1
    <2>3. MaxMessages \in Nat
      BY SingleParameters
    <2> QED
      BY <2>1, <2>2, <2>3
  <1>7. SingleTypes'
    BY <1>1, <1>5, <1>6 DEF SingleInv, SingleTypes
  <1>8. Counts'
    BY <1>1, <1>2, <1>5 DEF SingleInv, Counts
  <1> QED
    BY <1>2, <1>5, <1>7, <1>8 DEF SingleInv

LEMMA SingleDisconnects ==
    ASSUME ProgramsAssumption, Sessions, SingleInv, NEW s \in Slot,
           C!OnDisConnect(s)
    PROVE  Sessions' /\ SingleInv'
  <1> DEFINE new == C!Job("Delete", s)
  <1>1. /\ slot[s].phase = "left" /\ Turning(s, "closing")
        /\ jobs' = Append(jobs, new) /\ playerCount' = playerCount - 1
        /\ lost' = IF slot[s].kind = "server" THEN lost + 1 ELSE lost
        /\ UNCHANGED <<player, sector, loginCount, received>>
    BY DEF C!OnDisConnect, C!Disconnected, Turning, Used, C!contents
  <1>2. /\ Sessions' /\ lastId' = lastId
        /\ slot'[s].phase = "closing" /\ slot'[s].id = slot[s].id
        /\ slot'[s].kind = slot[s].kind
        /\ \A r \in Slot \ {s} : slot'[r] = slot[r]
    BY <1>1, TurningDoes
  <1>3. slot[s].id \in 1 .. MaxIds /\ slot[s].kind \in {"client", "server"}
        /\ IsHere(s) /\ ~IsHere(s)'
    <2>1. slot[s] \in SlotType
      BY DEF Sessions
    <2>2. slot[s].id \in 1 .. lastId /\ lastId \in 0 .. MaxIds
      BY <1>1 DEF Sessions, Used
    <2>3. slot[s].id \in 1 .. MaxIds
      BY <2>2, SingleParameters
    <2> QED
      BY <1>1, <1>2, <2>1, <2>3 DEF IsHere, SlotType
  <1>4. /\ new.slot = s /\ new.id = slot[s].id /\ new.type = "Delete"
        /\ new \in JobType
    BY <1>3 DEF C!Job, JobType
  <1> HIDE DEF new
  <1>5. /\ Homes' /\ Ordered' /\ Bounds' /\ Started' /\ Ended' /\ Situated'
        /\ jobs' \in Seq(JobType) /\ AliveSlots' = AliveSlots
    BY <1>1, <1>2, <1>3, <1>4, SingleAppends
  <1>6. SingleTypes' /\ playerCount \in Int /\ lost \in Int
    <2>1. playerCount \in Int /\ lost \in Int
      BY DEF SingleInv, SingleTypes
    <2>2. playerCount' \in Int /\ lost' \in Int
      BY <1>1, <2>1
    <2> QED
      BY <1>1, <1>5, <2>1, <2>2 DEF SingleInv, SingleTypes
  <1>7. Counts'
    <2>1. CASE slot[s].kind = "server"
      <3>1. ClientSlots' = ClientSlots
        BY <1>2, <1>3, <2>1 DEF ClientSlots, IsHere
      <3> QED
        <4>1. lost' = lost + 1 /\ playerCount' = playerCount - 1
          BY <1>1, <2>1
        <4>2. playerCount' + lost' = playerCount + lost
          BY <1>6, <4>1
        <4> QED
          BY <1>1, <1>5, <3>1, <4>2 DEF SingleInv, Counts
    <2>2. CASE slot[s].kind = "client"
      <3>1. ClientSlots' = ClientSlots \ {s} /\ s \in ClientSlots
        BY <1>2, <1>3, <2>2 DEF ClientSlots, IsHere
      <3>2. Cardinality(ClientSlots') = Cardinality(ClientSlots) - 1
            /\ Cardinality(ClientSlots) \in Nat
        BY <3>1, SingleFinite, OneLess
      <3>3. lost' = lost /\ playerCount' = playerCount - 1
        BY <1>1, <2>2
      <3>4. playerCount + lost = Cardinality(ClientSlots)
        BY DEF SingleInv, Counts
      <3>5. playerCount' + lost' = Cardinality(ClientSlots')
        BY <1>6, <3>2, <3>3, <3>4
      <3> QED
        BY <1>1, <1>5, <3>5 DEF SingleInv, Counts
    <2> QED
      BY <1>3, <2>1, <2>2
  <1> QED
    BY <1>2, <1>5, <1>6, <1>7 DEF SingleInv

(* The first job is done, and nobody but by its deletion comes or goes. *)
LEMMA SingleHandles ==
    ASSUME ProgramsAssumption, Sessions, SingleInv, Keeping, jobs # <<>>,
           jobs' = Tail(jobs), Head(jobs).type # "Create",
           \A s \in Slot : /\ player'[s].id = player[s].id
                           /\ Alive(s)' => Alive(s)
                           /\ Alive(s) /\ ~Alive(s)' =>
                                IsJob(Head(jobs), "Delete", s, player[s].id)
                           /\ IsJob(Head(jobs), "Delete", s, player[s].id) =>
                                ~Alive(s)'
    PROVE  Homes' /\ Ordered' /\ Bounds' /\ Started' /\ Ended'
  <1> DEFINE job == Head(jobs)
  <1>1. /\ Len(jobs) \in Nat \ {0} /\ Len(jobs') = Len(jobs) - 1
        /\ jobs' \in Seq(JobType)
        /\ \A i \in 1 .. Len(jobs) - 1 : jobs'[i] = jobs[i + 1]
        /\ \A i \in 1 .. Len(jobs) : jobs[i] \in JobType
        /\ job = jobs[1] /\ job \in JobType
        /\ \A type, s, id : HasJob(jobs, type, s, id) <=>
              HasJob(jobs', type, s, id) \/ IsJob(job, type, s, id)
        /\ \A s, id : HasAny(jobs', s, id) => HasAny(jobs, s, id)
        /\ \A type, s, id : \A i \in 1 .. Len(jobs) - 1 :
              Earlier(jobs, i + 1, type, s, id) <=>
                \/ Earlier(jobs', i, type, s, id)
                \/ IsJob(job, type, s, id)
    BY JobDone DEF SingleInv
  <1>2. /\ Ordered'
        /\ \A i \in 1 .. Len(jobs') : jobs'[i].slot = job.slot =>
              /\ job.id <= jobs'[i].id
              /\ job.id = jobs'[i].id =>
                    job.type # "Delete" /\ jobs'[i].type # "Create"
    BY OrderedDone DEF SingleInv
  <1> HIDE DEF job
  <1>3. \A i \in 1 .. Len(jobs') :
           i \in 1 .. Len(jobs) - 1 /\ i + 1 \in 1 .. Len(jobs)
    BY <1>1
  <1>4. \A i \in 1 .. Len(jobs') : jobs'[i].slot \in Slot
    BY <1>1, <1>3 DEF JobType
  <1>5. /\ lastId' = lastId
        /\ \A r \in Slot : /\ Used(r)' <=> Used(r)
                           /\ IsHere(r)' <=> IsHere(r)
                           /\ slot'[r].id = slot[r].id
                           /\ slot'[r].kind = slot[r].kind
        /\ ClientSlots' = ClientSlots /\ ClientSlots \subseteq Slot
    BY KeepsClients DEF Keeping, ClientSlots
  <1>6. Homes'
    <2>1. ASSUME NEW s \in Slot, NEW id, HasHome(s, id)'
          PROVE  HasHome(s, id)
      BY <1>1, <1>5, <2>1 DEF HasHome
    <2>2. PICK o \in Slot : TRUE
      BY DEF ProgramsAssumption
    <2> QED
      BY <1>5, <2>1, <2>2, HomesKept, SingleParameters DEF SingleInv
  <1>7. Bounds'
    <2>1. \A r \in Slot : Used(r)' => player'[r].id <= slot'[r].id
      BY <1>5 DEF SingleInv, Bounds
    <2>2. ASSUME NEW i \in 1 .. Len(jobs')
          PROVE  /\ slot'[jobs'[i].slot].phase # "free" =>
                       jobs'[i].id <= slot'[jobs'[i].slot].id
                 /\ player'[jobs'[i].slot].id <= jobs'[i].id
                 /\ jobs'[i].type = "Create" =>
                       player'[jobs'[i].slot].id # jobs'[i].id
      <3>1. PICK j \in 1 .. Len(jobs) : jobs'[i] = jobs[j]
        BY <1>1, <1>3
      <3>2. /\ slot[jobs[j].slot].phase # "free" =>
                  jobs[j].id <= slot[jobs[j].slot].id
            /\ player[jobs[j].slot].id <= jobs[j].id
            /\ jobs[j].type = "Create" =>
                  player[jobs[j].slot].id # jobs[j].id
        BY DEF SingleInv, Bounds
      <3> QED
        BY <1>4, <1>5, <3>1, <3>2 DEF Used
    <2>3. \A r \in Slot : IsHere(r)' => ~HasJob(jobs', "Delete", r, slot'[r].id)
      BY <1>1, <1>5 DEF SingleInv, Bounds
    <2> QED
      BY <2>1, <2>2, <2>3 DEF Bounds
  <1>8. Started'
    <2>1. ASSUME NEW i \in 1 .. Len(jobs'),
                 jobs'[i].type \notin {"Create", "Delete"}
          PROVE  \/ Earlier(jobs', i, "Create", jobs'[i].slot, jobs'[i].id)
                 \/ /\ player'[jobs'[i].slot].status = "ALIVE"
                    /\ player'[jobs'[i].slot].id = jobs'[i].id
      <3>1. PICK s, id : s \in Slot /\ s = jobs'[i].slot /\ id = jobs'[i].id
        BY <1>4
      <3>2. jobs'[i] = jobs[i + 1] /\ i + 1 \in 1 .. Len(jobs)
            /\ i \in 1 .. Len(jobs) - 1 /\ (i + 1) - 1 = i
        BY <1>1, <1>3
      <3>3. \/ Earlier(jobs, i + 1, "Create", s, id)
            \/ Alive(s) /\ player[s].id = id
        BY <2>1, <3>1, <3>2 DEF SingleInv, Started, Alive
      <3>4. CASE Earlier(jobs, i + 1, "Create", s, id)
        <4>1. ~IsJob(job, "Create", s, id)
          BY DEF IsJob, job
        <4> QED
          BY <1>1, <3>1, <3>2, <3>4, <4>1
      <3>5. CASE Alive(s) /\ player[s].id = id
        <4>1. ~IsJob(job, "Delete", s, id)
          BY <1>2, <3>1 DEF IsJob
        <4>2. Alive(s)'
          BY <3>1, <3>5, <4>1 DEF job
        <4> QED
          BY <3>1, <3>5, <4>2 DEF Alive
      <3> QED
        BY <3>3, <3>4, <3>5
    <2>2. ASSUME NEW s \in ClientSlots
          PROVE  \/ HasJob(jobs', "Create", s, slot'[s].id)
                 \/ Alive(s)' /\ player'[s].id = slot'[s].id
      <3>1. s \in Slot /\ IsHere(s) /\ slot'[s].id = slot[s].id
        BY <1>5 DEF ClientSlots
      <3>2. ~IsJob(job, "Create", s, slot[s].id)
        BY DEF IsJob, job
      <3>3. ~IsJob(job, "Delete", s, slot[s].id)
        BY <1>1, <3>1 DEF SingleInv, Bounds
      <3>4. \/ HasJob(jobs, "Create", s, slot[s].id)
            \/ Alive(s) /\ player[s].id = slot[s].id
        BY DEF SingleInv, Started
      <3>5. Alive(s) /\ player[s].id = slot[s].id =>
               Alive(s)' /\ player'[s].id = slot[s].id
        BY <3>1, <3>3 DEF job
      <3> QED
        BY <1>1, <3>1, <3>2, <3>4, <3>5
    <2> QED
      BY <1>5, <2>1, <2>2 DEF Started
  <1>9. ASSUME NEW s \in Slot, NEW id, Lasting(jobs, slot, s, id),
               ~IsJob(job, "Delete", s, id)
        PROVE  Lasting(jobs', slot', s, id)
    BY <1>1, <1>5, <1>9 DEF Lasting, IsHere
  <1>10. Ended'
    <2>1. ASSUME NEW s \in Slot, Alive(s)'
          PROVE  /\ player'[s].id # 0
                 /\ Lasting(jobs', slot', s, player'[s].id)
      <3>1. Alive(s) /\ player'[s].id = player[s].id
        BY <2>1
      <3>2. ~IsJob(job, "Delete", s, player[s].id)
        BY <2>1 DEF job
      <3> QED
        BY <1>9, <3>1, <3>2 DEF SingleInv, Ended
    <2>2. ASSUME NEW i \in 1 .. Len(jobs'), jobs'[i].type = "Create"
          PROVE  Lasting(jobs', slot', jobs'[i].slot, jobs'[i].id)
      <3>1. PICK s, id : s \in Slot /\ s = jobs'[i].slot /\ id = jobs'[i].id
        BY <1>4
      <3>2. PICK j \in 1 .. Len(jobs) : jobs'[i] = jobs[j]
        BY <1>1, <1>3
      <3>3. Lasting(jobs, slot, s, id)
        BY <2>2, <3>1, <3>2 DEF SingleInv, Ended
      <3>4. ~IsJob(job, "Delete", s, id)
        BY <1>2, <3>1 DEF IsJob
      <3> QED
        BY <1>9, <3>1, <3>3, <3>4
    <2> QED
      BY <2>1, <2>2 DEF Ended
  <1> QED
    BY <1>2, <1>6, <1>7, <1>8, <1>10

(* Where a player that is on the map is, the list of its sector has it. *)
LEMMA SingleAt ==
    ASSUME ProgramsAssumption, SingleTypes, NEW s \in Slot
    PROVE  /\ player[s] \in PlayerType /\ At(s) \in Sectors
           /\ player[s].x \in 0 .. Right - 1 /\ player[s].y \in 0 .. Bottom - 1
           /\ At(s) = C!SectorOf(player[s].x, player[s].y)
  <1>1. player[s] \in PlayerType
    BY DEF SingleTypes
  <1>2. player[s].x \in 0 .. Right - 1 /\ player[s].y \in 0 .. Bottom - 1
    BY <1>1 DEF PlayerType
  <1> QED
    BY <1>1, <1>2, SectorIn DEF At

(* A message is handled: nobody comes or goes, and each player that moves is *)
(* in the list of its new sector.                                           *)
LEMMA SingleSame ==
    ASSUME ProgramsAssumption, Sessions, SingleInv, Keeping, jobs # <<>>,
           jobs' = Tail(jobs), Head(jobs).type \notin {"Create", "Delete"},
           player' \in [Slot -> PlayerType],
           \A s \in Slot : /\ player'[s].id = player[s].id
                           /\ player'[s].status = player[s].status,
           sector' \in [Sectors -> [Slot -> 0 .. 1]], Situated',
           UNCHANGED <<playerCount, loginCount, received, lost>>
    PROVE  SingleInv'
  <1>1. \A s \in Slot : Alive(s)' <=> Alive(s)
    BY DEF Alive
  <1>2. \A s \in Slot : ~IsJob(Head(jobs), "Delete", s, player[s].id)
    BY DEF IsJob
  <1>3. Homes' /\ Ordered' /\ Bounds' /\ Started' /\ Ended'
    BY <1>1, <1>2, SingleHandles
  <1>4. AliveSlots' = AliveSlots /\ ClientSlots' = ClientSlots
    BY <1>1, KeepsClients DEF AliveSlots
  <1>5. jobs' \in Seq(JobType)
    BY JobDone DEF SingleInv
  <1>6. SingleTypes'
    BY <1>5 DEF SingleInv, SingleTypes
  <1>7. Counts'
    BY <1>4 DEF SingleInv, Counts
  <1> QED
    BY <1>3, <1>6, <1>7 DEF SingleInv

(* The messages, one by one.                                                *)
LEMMA SingleMoves ==
    ASSUME ProgramsAssumption, Sessions, SingleInv, jobs # <<>>,
           jobs' = Tail(jobs), C!HandleMove(Head(jobs)),
           UNCHANGED <<lastId, playerCount, received, lost>>
    PROVE  Sessions' /\ SingleInv'
  <1>1. /\ Head(jobs).type \in {"MoveStart", "MoveStop"}
        /\ UNCHANGED <<slot, loginCount>>
    BY DEF C!HandleMove
  <1>2. Keeping
    BY <1>1, KeepsSlots, SingleParameters
  <1>3. PICK s \in Slot : s = Head(jobs).slot
    BY JobDone DEF SingleInv, JobType
  <1>4. player \in [Slot -> PlayerType]
        /\ sector \in [Sectors -> [Slot -> 0 .. 1]]
    BY DEF SingleInv, SingleTypes
  <1>5. CASE UNCHANGED <<player, sector>>
    <2>1. Situated'
      BY <1>5 DEF SingleInv, Situated, Alive, At
    <2> QED
      BY <1>1, <1>2, <1>4, <1>5, <2>1, SingleSame DEF Keeping
  <1>6. ASSUME NEW x \in 0 .. Right - 1, NEW y \in 0 .. Bottom - 1,
               NEW dir \in Direction, NEW move \in BOOLEAN,
               C!Placed(s, x, y, dir, move), Alive(s)
        PROVE  Sessions' /\ SingleInv'
    <2> DEFINE old == At(s)
               new == C!SectorOf(x, y)
               moved == [status |-> player[s].status, id |-> player[s].id,
                         x |-> x, y |-> y, dir |-> dir, move |-> move]
    <2>1. player' = [player EXCEPT ![s] = moved]
      BY <1>6 DEF C!Placed
    <2>2. sector' = C!SyncSector(s, old, new)
      BY <1>6 DEF C!Placed, At
    <2>3. old \in Sectors /\ new \in Sectors /\ player[s] \in PlayerType
      BY <1>3, SingleAt, SectorIn DEF SingleInv
    <2>4. moved \in PlayerType
      BY <2>3 DEF PlayerType
    <2>5. /\ player' \in [Slot -> PlayerType] /\ player'[s] = moved
          /\ \A r \in Slot \ {s} : player'[r] = player[r]
      BY <1>3, <1>4, <2>1, <2>4
    <2>6. At(s)' = new /\ \A r \in Slot \ {s} : At(r)' = At(r)
      BY <1>3, <2>5, SMTT(20) DEF At
    <2>7. \A r \in Slot : /\ player'[r].id = player[r].id
                          /\ player'[r].status = player[r].status
      <3>1. moved.id = player[s].id /\ moved.status = player[s].status
        OBVIOUS
      <3> HIDE DEF moved
      <3> QED
        BY <2>5, <3>1
    <2> HIDE DEF old, new, moved
    <2>8. \A r \in Slot : Alive(r)' <=> Alive(r)
      BY <2>7 DEF Alive
    <2>9. \A p \in Sectors, r \in Slot :
            sector[p][r] = IF Alive(r) /\ At(r) = p THEN 1 ELSE 0
      BY DEF SingleInv, Situated
    <2>10. CASE old = new
      <3>1. sector' = sector
        BY <2>2, <2>10 DEF C!SyncSector
      <3>2. \A r \in Slot : At(r)' = At(r)
        BY <2>6, <2>10 DEF old
      <3>3. Situated'
        BY <2>8, <2>9, <3>1, <3>2, SMTT(20) DEF Situated
      <3> QED
        BY <1>1, <1>2, <1>4, <2>5, <2>7, <3>1, <3>3, SingleSame DEF Keeping
    <2>11. CASE old # new
      <3> DEFINE left == [sector EXCEPT ![old][s] = 0]
      <3>1. sector' = [left EXCEPT ![new][s] = @ + 1]
        BY <2>2, <2>11 DEF C!SyncSector
      <3>2. PICK gone : gone = left
        OBVIOUS
      <3>3. /\ gone \in [Sectors -> [Slot -> 0 .. 1]]
            /\ gone[old][s] = 0
            /\ \A q \in Sectors, r \in Slot : q # old \/ r # s =>
                  gone[q][r] = sector[q][r]
        <4>1. PICK list : list = [sector[old] EXCEPT ![s] = 0]
          OBVIOUS
        <4>2. /\ list \in [Slot -> 0 .. 1] /\ list[s] = 0
              /\ \A r \in Slot : r # s => list[r] = sector[old][r]
          BY <1>3, <1>4, <2>3, <4>1, SMTT(20)
        <4>3. gone = [sector EXCEPT ![old] = list]
          BY <3>2, <4>1
        <4>4. /\ gone \in [Sectors -> [Slot -> 0 .. 1]] /\ gone[old] = list
              /\ \A q \in Sectors : q # old => gone[q] = sector[q]
          BY <1>4, <2>3, <4>2, <4>3
        <4> QED
          BY <4>2, <4>4
      <3>4. gone[new][s] = 0
        BY <1>3, <2>3, <2>9, <2>11, <3>3, SMTT(20) DEF old
      <3> HIDE DEF left
      <3>5. sector' = [gone EXCEPT ![new] = [gone[new] EXCEPT ![s] = 1]]
        BY <3>1, <3>2, <3>4
      <3>6. [gone[new] EXCEPT ![s] = 1] \in [Slot -> 0 .. 1]
        BY <2>3, <3>3
      <3>7. /\ sector' \in [Sectors -> [Slot -> 0 .. 1]]
            /\ sector'[new][s] = 1
            /\ \A q \in Sectors, r \in Slot : q # new \/ r # s =>
                  sector'[q][r] = gone[q][r]
        BY <1>3, <2>3, <3>3, <3>5, <3>6
      <3>8. \A p \in Sectors, r \in Slot :
              sector'[p][r] = IF Alive(r)' /\ At(r)' = p THEN 1 ELSE 0
        <4> SUFFICES ASSUME NEW p \in Sectors, NEW r \in Slot
              PROVE sector'[p][r] = IF Alive(r)' /\ At(r)' = p THEN 1 ELSE 0
          OBVIOUS
        <4>1. CASE r # s
          BY <2>6, <2>8, <2>9, <3>3, <3>7, <4>1, SMTT(20)
        <4>2. CASE r = s /\ p = new
          BY <1>6, <2>6, <2>8, <3>7, <4>2
        <4>3. CASE r = s /\ p # new
          <5>1. sector'[p][s] = 0
            <6>1. sector'[p][s] = gone[p][s]
              BY <3>7, <4>3
            <6>2. CASE p = old
              BY <3>3, <6>1, <6>2
            <6>3. CASE p # old
              BY <2>9, <3>3, <6>1, <6>3 DEF old
            <6> QED
              BY <6>2, <6>3
          <5> QED
            BY <2>6, <4>3, <5>1
        <4> QED
          BY <4>1, <4>2, <4>3
      <3>9. Situated'
        BY <3>8 DEF Situated
      <3> QED
        BY <1>1, <1>2, <2>5, <2>7, <3>7, <3>9, SingleSame DEF Keeping
    <2> QED
      BY <2>10, <2>11
  <1>7. CASE C!Speaks(Head(jobs))
    <2>1. PICK x \in 0 .. Right - 1, y \in 0 .. Bottom - 1, dir \in Direction :
             C!Placed(s, x, y, dir, Head(jobs).type = "MoveStart")
      BY <1>3, <1>7 DEF C!HandleMove
    <2>2. PICK move \in BOOLEAN : move = (Head(jobs).type = "MoveStart")
      OBVIOUS
    <2>3. Alive(s)
      BY <1>3, <1>7 DEF C!Speaks, C!IsAlive, Alive
    <2> QED
      BY <1>6, <2>1, <2>2, <2>3
  <1> QED
    BY <1>5, <1>7 DEF C!HandleMove

LEMMA SingleRefuses ==
    ASSUME ProgramsAssumption, Sessions, SingleInv, jobs # <<>>,
           jobs' = Tail(jobs), C!HandleBadMessage(Head(jobs)),
           UNCHANGED <<lastId, playerCount, received, lost>>
    PROVE  Sessions' /\ SingleInv'
  <1> DEFINE s == Head(jobs).slot
  <1>1. /\ Head(jobs).type = "Bad" /\ UNCHANGED <<player, sector, loginCount>>
        /\ slot' = C!Aborted(s, Head(jobs).id)
    BY DEF C!HandleBadMessage
  <1>2. s \in Slot
    BY JobDone DEF SingleInv, JobType
  <1>3. \/ slot' = slot
        \/ slot[s].phase = "open" /\ slot' = [slot EXCEPT ![s].phase = "left"]
    BY <1>1 DEF C!Aborted
  <1> HIDE DEF s
  <1>4. Keeping
    <2>1. CASE slot' = slot
      BY <2>1, KeepsSlots, SingleParameters
    <2>2. CASE slot[s].phase = "open"
               /\ slot' = [slot EXCEPT ![s].phase = "left"]
      <3>1. Turning(s, "left")
        BY <2>2 DEF Turning, Used
      <3> QED
        BY <1>2, <2>2, <3>1, KeepsLeaving
    <2> QED
      BY <1>3, <2>1, <2>2
  <1>5. player \in [Slot -> PlayerType]
        /\ sector \in [Sectors -> [Slot -> 0 .. 1]]
    BY DEF SingleInv, SingleTypes
  <1>6. Situated'
    BY <1>1 DEF SingleInv, Situated, Alive, At
  <1> QED
    BY <1>1, <1>4, <1>5, <1>6, SingleSame DEF Keeping

LEMMA SingleDeletes ==
    ASSUME ProgramsAssumption, Sessions, SingleInv, jobs # <<>>,
           jobs' = Tail(jobs), C!HandleDeletePlayer(Head(jobs)),
           UNCHANGED <<lastId, playerCount, received, lost>>
    PROVE  Sessions' /\ SingleInv'
  <1>1. Head(jobs).type = "Delete" /\ UNCHANGED slot
    BY DEF C!HandleDeletePlayer
  <1>2. Keeping
    BY <1>1, KeepsSlots, SingleParameters
  <1>3. PICK s \in Slot : s = Head(jobs).slot
    BY JobDone DEF SingleInv, JobType
  <1>4. /\ jobs' \in Seq(JobType) /\ SingleTypes
        /\ player \in [Slot -> PlayerType]
        /\ sector \in [Sectors -> [Slot -> 0 .. 1]] /\ loginCount \in Int
    BY JobDone DEF SingleInv, SingleTypes
  <1>5. PICK i : i = Head(jobs).id
    OBVIOUS
  <1>6. \A r \in Slot : IsJob(Head(jobs), "Delete", r, player[r].id) <=>
           r = s /\ player[s].id = i
    BY <1>1, <1>3, <1>5 DEF IsJob
  <1>7. ClientSlots' = ClientSlots
    BY <1>2, KeepsClients
  <1>8. C!Speaks(Head(jobs)) <=> player[s].id = i /\ Alive(s)
    BY <1>3, <1>5 DEF C!Speaks, C!IsAlive, Alive
  <1>9. CASE ~C!Speaks(Head(jobs))
    <2>1. UNCHANGED <<player, sector, loginCount>>
      BY <1>9 DEF C!HandleDeletePlayer
    <2>2. AliveSlots' = AliveSlots /\ Situated'
          /\ \A r \in Slot : Alive(r)' <=> Alive(r)
      BY <2>1 DEF SingleInv, Situated, Alive, At, AliveSlots
    <2>3. Homes' /\ Ordered' /\ Bounds' /\ Started' /\ Ended'
      BY <1>1, <1>2, <1>6, <1>8, <1>9, <2>1, <2>2, SingleHandles
    <2>4. SingleTypes' /\ Counts'
      BY <1>4, <1>7, <2>1, <2>2 DEF SingleInv, SingleTypes, Counts
    <2> QED
      BY <1>2, <2>2, <2>3, <2>4 DEF SingleInv, Keeping
  <1>10. CASE C!Speaks(Head(jobs))
    <2> DEFINE gone == [player[s] EXCEPT !.status = "DELETED"]
    <2>1. PICK p : p = At(s)
      OBVIOUS
    <2>2. /\ player[s] \in PlayerType /\ p \in Sectors
          /\ p = C!SectorOf(player[s].x, player[s].y)
      BY <1>3, <1>4, <2>1, SingleAt
    <2>3. /\ sector' = [sector EXCEPT ![p][s] = 0]
          /\ player' = [player EXCEPT ![s].status = "DELETED"]
          /\ loginCount' = loginCount - 1
      BY <1>3, <1>10, <2>2 DEF C!HandleDeletePlayer
    <2>4. /\ gone \in PlayerType /\ gone.status = "DELETED"
          /\ gone.id = player[s].id
      BY <2>2 DEF PlayerType
    <2>5. player' = [player EXCEPT ![s] = gone]
      BY <2>3
    <2> HIDE DEF gone
    <2>6. /\ player' \in [Slot -> PlayerType] /\ player'[s] = gone
          /\ \A r \in Slot \ {s} : player'[r] = player[r]
      BY <1>3, <1>4, <2>4, <2>5
    <2>7. ~Alive(s)' /\ \A r \in Slot \ {s} : /\ Alive(r)' <=> Alive(r)
                                             /\ At(r)' = At(r)
      BY <2>4, <2>6 DEF Alive, At
    <2>8. \A r \in Slot : player'[r].id = player[r].id
      BY <2>4, <2>6
    <2>9. Homes' /\ Ordered' /\ Bounds' /\ Started' /\ Ended'
      <3>1. \A r \in Slot : /\ Alive(r)' => Alive(r)
                            /\ Alive(r) /\ ~Alive(r)' =>
                                 IsJob(Head(jobs), "Delete", r, player[r].id)
                            /\ IsJob(Head(jobs), "Delete", r, player[r].id) =>
                                 ~Alive(r)'
        BY <1>6, <1>8, <1>10, <2>7
      <3> QED
        BY <1>1, <1>2, <2>8, <3>1, SingleHandles
    <2>10. sector' = [sector EXCEPT ![p] = [sector[p] EXCEPT ![s] = 0]]
      BY <2>3
    <2>11. /\ sector' \in [Sectors -> [Slot -> 0 .. 1]]
           /\ sector'[p][s] = 0
           /\ \A q \in Sectors, r \in Slot : q # p \/ r # s =>
                 sector'[q][r] = sector[q][r]
      <3>1. PICK n \in 0 .. 1 : n = 0
        OBVIOUS
      <3>2. PICK lists : lists = [sector EXCEPT ![p] = [sector[p] EXCEPT ![s] = n]]
        OBVIOUS
      <3>3. /\ lists \in [Sectors -> [Slot -> 0 .. 1]] /\ lists[p][s] = n
            /\ \A q \in Sectors, r \in Slot : q # p \/ r # s =>
                  lists[q][r] = sector[q][r]
        <4>1. sector \in [Sectors -> [Slot -> 0 .. 1]] /\ p \in Sectors
          BY <1>4, <2>2
        <4>2. [sector[p] EXCEPT ![s] = n] \in [Slot -> 0 .. 1]
          BY <4>1
        <4> QED
          BY <3>2, <4>1, <4>2
      <3>4. sector' = lists
        BY <2>10, <3>1, <3>2
      <3> QED
        BY <3>1, <3>3, <3>4
    <2>12. Situated'
      <3>1. \A q \in Sectors, r \in Slot :
              sector[q][r] = IF Alive(r) /\ At(r) = q THEN 1 ELSE 0
        BY DEF SingleInv, Situated
      <3>2. \A q \in Sectors, r \in Slot :
              sector'[q][r] = IF Alive(r)' /\ At(r)' = q THEN 1 ELSE 0
        <4> SUFFICES ASSUME NEW q \in Sectors, NEW r \in Slot
              PROVE sector'[q][r] = IF Alive(r)' /\ At(r)' = q THEN 1 ELSE 0
          OBVIOUS
        <4>1. CASE r # s
          BY <2>7, <2>11, <3>1, <4>1
        <4>2. CASE r = s /\ q = p
          BY <2>7, <2>11, <4>2
        <4>3. CASE r = s /\ q # p
          BY <1>3, <2>1, <2>7, <2>11, <3>1, <4>3
        <4> QED
          BY <4>1, <4>2, <4>3
      <3> QED
        BY <3>2 DEF Situated
    <2>13. SingleTypes'
      <3>1. loginCount' \in Int
        BY <1>4, <2>3, SMTT(20)
      <3> QED
        BY <1>4, <2>6, <2>11, <3>1 DEF SingleTypes
    <2>14. Counts'
      <3>1. AliveSlots' = AliveSlots \ {s} /\ s \in AliveSlots
        BY <1>3, <1>8, <1>10, <2>7 DEF AliveSlots
      <3>2. Cardinality(AliveSlots') = Cardinality(AliveSlots) - 1
        BY <3>1, SingleFinite, OneLess
      <3> QED
        BY <1>7, <2>3, <3>2 DEF SingleInv, Counts
    <2> QED
      BY <1>2, <2>9, <2>12, <2>13, <2>14 DEF SingleInv, Keeping
  <1> QED
    BY <1>9, <1>10

(* Player::Init: the player before has gone. *)
LEMMA SingleCreates ==
    ASSUME ProgramsAssumption, Sessions, SingleInv, jobs # <<>>,
           jobs' = Tail(jobs), C!HandleCreatePlayer(Head(jobs)),
           UNCHANGED <<lastId, playerCount, received, lost>>
    PROVE  Sessions' /\ SingleInv'
  <1>1. Head(jobs).type = "Create" /\ UNCHANGED slot
        /\ loginCount' = loginCount + 1
    BY DEF C!HandleCreatePlayer
  <1>2. Keeping
    BY <1>1, KeepsSlots, SingleParameters
  <1>3. PICK job \in JobType : job = Head(jobs)
    BY JobDone DEF SingleInv
  <1>4. PICK s \in Slot, i \in Nat :
           /\ s = job.slot /\ i = job.id
           /\ i \in 0 .. MaxIds /\ i # 0
    <2>1. job.slot \in Slot /\ job.id \in 1 .. MaxIds
      BY DEF JobType
    <2>2. MaxIds \in Nat
      BY SingleParameters
    <2> QED
      BY <2>1, <2>2, SMTT(20)
  <1>5. /\ Len(jobs) \in Nat \ {0} /\ Len(jobs') = Len(jobs) - 1
        /\ jobs' \in Seq(JobType)
        /\ \A k \in 1 .. Len(jobs) - 1 : jobs'[k] = jobs[k + 1]
        /\ \A k \in 1 .. Len(jobs) : jobs[k] \in JobType
        /\ job = jobs[1]
        /\ \A type, r, id : HasJob(jobs, type, r, id) <=>
              HasJob(jobs', type, r, id) \/ IsJob(job, type, r, id)
        /\ \A r, id : HasAny(jobs', r, id) => HasAny(jobs, r, id)
        /\ HasAny(jobs, s, i)
        /\ \A type, r, id : \A k \in 1 .. Len(jobs) - 1 :
              Earlier(jobs, k + 1, type, r, id) <=>
                \/ Earlier(jobs', k, type, r, id)
                \/ IsJob(job, type, r, id)
    BY <1>3, <1>4, JobDone DEF SingleInv
  <1>6. /\ Ordered'
        /\ \A k \in 1 .. Len(jobs') : jobs'[k].slot = s =>
              i <= jobs'[k].id /\ (i = jobs'[k].id => jobs'[k].type # "Create")
    BY <1>3, <1>4, OrderedDone DEF SingleInv
  <1>7. /\ player \in [Slot -> PlayerType] /\ SingleTypes
        /\ sector \in [Sectors -> [Slot -> 0 .. 1]] /\ loginCount \in Int
    BY DEF SingleInv, SingleTypes
  <1>8. 1 \in 1 .. Len(jobs) /\ i \in Nat /\ i # 0
    BY <1>4, <1>5
  <1>9. /\ slot[s].phase # "free" => i <= slot[s].id
        /\ player[s].id <= i /\ player[s].id # i /\ ~(i <= player[s].id)
    <2>1. /\ slot[s].phase # "free" => i <= slot[s].id
          /\ player[s].id <= i /\ player[s].id # i
      BY <1>1, <1>3, <1>4, <1>5, <1>8, SMTT(20) DEF SingleInv, Bounds
    <2>2. player[s].id \in 0 .. MaxIds
      BY <1>7 DEF PlayerType
    <2>3. MaxIds \in Nat
      BY SingleParameters
    <2>4. PICK k \in Nat : k = player[s].id
      BY <2>2, <2>3
    <2>5. k <= i /\ k # i
      BY <2>1, <2>4
    <2>6. ~(i <= k)
      BY <1>8, <2>5
    <2> QED
      BY <2>1, <2>4, <2>6
  <1>10. Lasting(jobs, slot, s, i)
    BY <1>1, <1>3, <1>4, <1>5, <1>8 DEF SingleInv, Ended
  <1>11. ~Alive(s)
    <2> SUFFICES ASSUME Alive(s) PROVE FALSE
      OBVIOUS
    <2>1. Lasting(jobs, slot, s, player[s].id)
      BY DEF SingleInv, Ended
    <2>2. CASE slot[s].phase \in {"open", "left"} /\ slot[s].id = player[s].id
      <3>1. i <= player[s].id
        BY <1>9, <2>2
      <3> QED
        BY <1>9, <3>1
    <2>3. CASE HasJob(jobs, "Delete", s, player[s].id)
      <3>1. HasJob(jobs', "Delete", s, player[s].id)
        BY <1>1, <1>3, <1>5, <2>3 DEF IsJob
      <3>2. PICK k \in 1 .. Len(jobs') : IsJob(jobs'[k], "Delete", s, player[s].id)
        BY <3>1 DEF HasJob
      <3>3. i <= player[s].id
        BY <1>6, <3>2 DEF IsJob
      <3> QED
        BY <1>9, <3>3
    <2> QED
      BY <2>1, <2>2, <2>3 DEF Lasting
  <1>12. PICK x, y, dir :
          /\ x \in StartX /\ y \in StartY /\ dir \in {"LL", "RR"} \cap Direction
          /\ player' = [player EXCEPT ![s] =
               [status |-> "ALIVE", id |-> i, x |-> x, y |-> y, dir |-> dir,
                move |-> FALSE]]
          /\ sector' = [sector EXCEPT ![C!SectorOf(x, y)][s] = @ + 1]
    BY <1>3, <1>4 DEF C!HandleCreatePlayer
  <1> DEFINE new == [status |-> "ALIVE", id |-> i, x |-> x, y |-> y,
                     dir |-> dir, move |-> FALSE]
  <1>13. x \in 0 .. Right - 1 /\ y \in 0 .. Bottom - 1
    BY <1>12, SingleParameters
  <1>14. PICK p \in Sectors : p = C!SectorOf(x, y)
    BY <1>13, SectorIn
  <1>15. new \in PlayerType /\ new.status = "ALIVE" /\ new.id = i
         /\ C!SectorOf(new.x, new.y) = p
    <2>1. i \in 0 .. MaxIds
      BY <1>4
    <2> QED
      BY <1>12, <1>13, <1>14, <2>1 DEF PlayerType
  <1>16. /\ player' \in [Slot -> PlayerType] /\ player'[s] = new
         /\ \A r \in Slot \ {s} : player'[r] = player[r]
    BY <1>7, <1>12, <1>15
  <1> HIDE DEF new
  <1>17. /\ Alive(s)' /\ At(s)' = p /\ player'[s].id = i
         /\ \A r \in Slot \ {s} : (Alive(r)' <=> Alive(r)) /\ At(r)' = At(r)
    BY <1>15, <1>16 DEF Alive, At
  <1>18. \A q \in Sectors, r \in Slot :
            sector[q][r] = IF Alive(r) /\ At(r) = q THEN 1 ELSE 0
    BY DEF SingleInv, Situated
  <1>19. /\ sector' \in [Sectors -> [Slot -> 0 .. 1]]
         /\ sector'[p][s] = 1
         /\ \A q \in Sectors, r \in Slot : q # p \/ r # s =>
                 sector'[q][r] = sector[q][r]
    <2>1. sector[p][s] = 0
      BY <1>11, <1>18
    <2>2. sector' = [sector EXCEPT ![p][s] = @ + 1]
      BY <1>12, <1>14
    <2>3. sector' = [sector EXCEPT ![p] = [sector[p] EXCEPT ![s] = sector[p][s] + 1]]
      BY <2>2
    <2>4. sector' = [sector EXCEPT ![p] = [sector[p] EXCEPT ![s] = 1]]
      BY <2>1, <2>3
    <2>5. PICK list : list = [sector[p] EXCEPT ![s] = 1]
      OBVIOUS
    <2>6. /\ list \in [Slot -> 0 .. 1] /\ list[s] = 1
          /\ \A r \in Slot : r # s => list[r] = sector[p][r]
      <3>1. PICK f \in [Slot -> 0 .. 1] : f = sector[p]
        BY <1>7, <1>14
      <3>2. list = [f EXCEPT ![s] = 1] /\ s \in Slot
        BY <1>4, <2>5, <3>1
      <3>3. /\ list \in [Slot -> 0 .. 1] /\ list[s] = 1
            /\ \A r \in Slot : r # s => list[r] = f[r]
        BY <3>1, <3>2
      <3> QED
        BY <3>1, <3>3
    <2>7. sector' = [sector EXCEPT ![p] = list]
      BY <2>4, <2>5
    <2>8. /\ sector' \in [Sectors -> [Slot -> 0 .. 1]] /\ sector'[p] = list
          /\ \A q \in Sectors : q # p => sector'[q] = sector[q]
      BY <1>7, <1>14, <2>6, <2>7
    <2> QED
      BY <2>6, <2>8
  <1>20. Situated'
    <2>1. \A q \in Sectors, r \in Slot :
              sector'[q][r] = IF Alive(r)' /\ At(r)' = q THEN 1 ELSE 0
      <3> SUFFICES ASSUME NEW q \in Sectors, NEW r \in Slot
            PROVE sector'[q][r] = IF Alive(r)' /\ At(r)' = q THEN 1 ELSE 0
        OBVIOUS
      <3>1. CASE r # s
        <4>1. /\ Alive(r)' <=> Alive(r)
              /\ At(r)' = At(r)
          BY <1>17, <3>1
        <4>2. sector'[q][r] = sector[q][r]
          BY <1>19, <3>1
        <4> QED
          BY <1>18, <4>1, <4>2
      <3>2. CASE r = s /\ q = p
        BY <1>17, <1>19, <3>2
      <3>3. CASE r = s /\ q # p
        BY <1>11, <1>17, <1>18, <1>19, <3>3
      <3> QED
        BY <3>1, <3>2, <3>3
    <2> QED
      BY <2>1 DEF Situated
  <1>21. SingleTypes'
    <2>1. loginCount' \in Int
      BY <1>1, <1>7
    <2> QED
      BY <1>5, <1>7, <1>16, <1>19, <2>1 DEF SingleTypes
  <1>22. Counts'
    <2>1. AliveSlots' = AliveSlots \cup {s} /\ s \notin AliveSlots
      BY <1>11, <1>17 DEF AliveSlots
    <2>2. Cardinality(AliveSlots') = Cardinality(AliveSlots) + 1
      BY <2>1, SingleFinite, OneMore
    <2>3. ClientSlots' = ClientSlots
      BY <1>2, KeepsClients
    <2> QED
      BY <1>1, <2>2, <2>3 DEF SingleInv, Counts
  <1>23. /\ \A k \in 1 .. Len(jobs') :
               k \in 1 .. Len(jobs) - 1 /\ k + 1 \in 1 .. Len(jobs)
         /\ \A k \in 1 .. Len(jobs') : jobs'[k] \in JobType
    <2>1. PICK n \in Nat \ {0} : n = Len(jobs)
      BY <1>5
    <2>2. \A k \in 1 .. Len(jobs') :
             k \in 1 .. Len(jobs) - 1 /\ k + 1 \in 1 .. Len(jobs)
      BY <1>5, <2>1
    <2> QED
      BY <1>5, <2>2
  <1>24. \A k \in 1 .. Len(jobs') : jobs'[k].slot \in Slot
    BY <1>23 DEF JobType
  <1>25. lastId' = lastId /\ slot' = slot
    BY <1>1
  <1>26. Homes'
    <2>1. HasHome(s, i)
      BY <1>5 DEF HasHome
    <2>2. ASSUME NEW r \in Slot, NEW id, HasHome(r, id)'
          PROVE  HasHome(r, id)
      BY <1>5, <1>16, <1>17, <1>25, <2>1, <2>2 DEF HasHome, Used
    <2> QED
      BY <1>25, <2>2, HomesKept, SingleParameters DEF SingleInv
  <1>27. Bounds'
    <2>1. \A r \in Slot : Used(r)' => player'[r].id <= slot'[r].id
      BY <1>9, <1>16, <1>17, <1>25 DEF SingleInv, Bounds, Used
    <2>2. ASSUME NEW k \in 1 .. Len(jobs')
          PROVE  /\ slot'[jobs'[k].slot].phase # "free" =>
                       jobs'[k].id <= slot'[jobs'[k].slot].id
                 /\ player'[jobs'[k].slot].id <= jobs'[k].id
                 /\ jobs'[k].type = "Create" =>
                       player'[jobs'[k].slot].id # jobs'[k].id
      <3>1. PICK j \in 1 .. Len(jobs) : jobs'[k] = jobs[j]
        BY <1>5, <1>23
      <3>2. /\ slot[jobs[j].slot].phase # "free" =>
                  jobs[j].id <= slot[jobs[j].slot].id
            /\ player[jobs[j].slot].id <= jobs[j].id
            /\ jobs[j].type = "Create" =>
                  player[jobs[j].slot].id # jobs[j].id
        BY DEF SingleInv, Bounds
      <3>3. CASE jobs'[k].slot = s
        BY <1>6, <1>17, <1>25, <3>1, <3>2, <3>3
      <3>4. CASE jobs'[k].slot # s
        BY <1>16, <1>24, <1>25, <3>1, <3>2, <3>4
      <3> QED
        BY <3>3, <3>4
    <2>3. \A r \in Slot : IsHere(r)' => ~HasJob(jobs', "Delete", r, slot'[r].id)
      BY <1>5, <1>25 DEF SingleInv, Bounds, IsHere
    <2> QED
      BY <2>1, <2>2, <2>3 DEF Bounds
  <1>28. \A r, id : IsJob(job, "Create", r, id) <=> r = s /\ id = i
    BY <1>1, <1>3, <1>4 DEF IsJob
  <1>29. Started'
    <2>1. ASSUME NEW k \in 1 .. Len(jobs'),
                 jobs'[k].type \notin {"Create", "Delete"}
          PROVE  \/ Earlier(jobs', k, "Create", jobs'[k].slot, jobs'[k].id)
                 \/ /\ player'[jobs'[k].slot].status = "ALIVE"
                    /\ player'[jobs'[k].slot].id = jobs'[k].id
      <3>1. PICK r, id : r \in Slot /\ r = jobs'[k].slot /\ id = jobs'[k].id
        BY <1>24
      <3>2. jobs'[k] = jobs[k + 1] /\ k + 1 \in 1 .. Len(jobs)
            /\ k \in 1 .. Len(jobs) - 1
        BY <1>5, <1>23
      <3>3. \/ Earlier(jobs, k + 1, "Create", r, id)
            \/ Alive(r) /\ player[r].id = id
        BY <2>1, <3>1, <3>2 DEF SingleInv, Started, Alive
      <3>4. CASE Earlier(jobs', k, "Create", r, id)
        BY <3>1, <3>4
      <3>5. CASE IsJob(job, "Create", r, id)
        BY <1>17, <1>28, <3>1, <3>5 DEF Alive
      <3>6. CASE Alive(r) /\ player[r].id = id
        BY <1>11, <1>16, <3>1, <3>6 DEF Alive
      <3> QED
        BY <1>5, <3>2, <3>3, <3>4, <3>5, <3>6
    <2>2. ASSUME NEW r \in ClientSlots'
          PROVE  \/ HasJob(jobs', "Create", r, slot'[r].id)
                 \/ Alive(r)' /\ player'[r].id = slot'[r].id
      <3>1. r \in ClientSlots /\ slot'[r].id = slot[r].id /\ r \in Slot
        BY <1>25, <2>2 DEF ClientSlots, IsHere
      <3>2. \/ HasJob(jobs, "Create", r, slot[r].id)
            \/ Alive(r) /\ player[r].id = slot[r].id
        BY <3>1 DEF SingleInv, Started
      <3>3. CASE HasJob(jobs', "Create", r, slot[r].id)
        BY <3>1, <3>3
      <3>4. CASE IsJob(job, "Create", r, slot[r].id)
        BY <1>17, <1>28, <3>1, <3>4
      <3>5. CASE Alive(r) /\ player[r].id = slot[r].id
        BY <1>11, <1>16, <1>17, <3>1, <3>5
      <3> QED
        BY <1>5, <3>2, <3>3, <3>4, <3>5
    <2> QED
      BY <2>1, <2>2 DEF Started
  <1>30. ASSUME NEW r \in Slot, NEW id, Lasting(jobs, slot, r, id)
         PROVE  Lasting(jobs', slot', r, id)
    <2>1. ~IsJob(job, "Delete", r, id)
      BY <1>1, <1>3 DEF IsJob
    <2> QED
      BY <1>5, <1>25, <1>30, <2>1 DEF Lasting
  <1>31. Ended'
    <2>1. ASSUME NEW r \in Slot, Alive(r)'
          PROVE  /\ player'[r].id # 0
                 /\ Lasting(jobs', slot', r, player'[r].id)
      <3>1. CASE r = s
        BY <1>8, <1>10, <1>17, <1>30, <3>1
      <3>2. CASE r # s
        BY <1>16, <1>17, <1>30, <2>1, <3>2 DEF SingleInv, Ended
      <3> QED
        BY <3>1, <3>2
    <2>2. ASSUME NEW k \in 1 .. Len(jobs'), jobs'[k].type = "Create"
          PROVE  Lasting(jobs', slot', jobs'[k].slot, jobs'[k].id)
      <3>1. PICK r, id : r \in Slot /\ r = jobs'[k].slot /\ id = jobs'[k].id
        BY <1>24
      <3>2. PICK j \in 1 .. Len(jobs) : jobs'[k] = jobs[j]
        BY <1>5, <1>23
      <3>3. Lasting(jobs, slot, r, id)
        BY <2>2, <3>1, <3>2 DEF SingleInv, Ended
      <3> QED
        BY <1>30, <3>1, <3>3
    <2> QED
      BY <2>1, <2>2 DEF Ended
  <1> QED
    BY <1>2, <1>6, <1>20, <1>21, <1>22, <1>26, <1>27, <1>29, <1>31
       DEF SingleInv, Keeping

(* Nobody hears what somebody did not say. *)
Heard == C!HeardAround

(* A step that sends no chat message keeps Heard.                           *)
LEMMA SingleSilent ==
    ASSUME heard' = C!NoMessage
    PROVE  Heard'
  BY DEF Heard, C!HeardAround, C!NoMessage

LEMMA SingleHears ==
    ASSUME ProgramsAssumption, Sessions, SingleInv, jobs # <<>>,
           jobs' = Tail(jobs), C!HandleLocalChatMsg(Head(jobs)),
           UNCHANGED <<lastId, playerCount, received, lost>>
    PROVE  Sessions' /\ SingleInv' /\ Heard'
  <1>1. /\ Head(jobs).type = "LocalChat"
        /\ UNCHANGED <<slot, player, sector, loginCount>>
    BY DEF C!HandleLocalChatMsg
  <1>2. Keeping
    BY <1>1, KeepsSlots, SingleParameters
  <1>3. player \in [Slot -> PlayerType]
        /\ sector \in [Sectors -> [Slot -> 0 .. 1]]
    BY DEF SingleInv, SingleTypes
  <1>4. Situated'
    BY <1>1 DEF SingleInv, Situated, Alive, At
  <1>5. Sessions' /\ SingleInv'
    BY <1>1, <1>2, <1>3, <1>4, SingleSame DEF Keeping
  <1>6. PICK s \in Slot : s = Head(jobs).slot
    BY JobDone DEF SingleInv, JobType
  <1> DEFINE near == {r \in Slot : \E p \in C!Around(At(s)) : sector[p][r] > 0}
             to == {r \in near : Alive(r) /\ player[r].id # player[s].id}
             me == [from |-> player[s].id,
                    to |-> {r \in to : slot[r].id = player[r].id}]
  <1>7. heard' = IF C!Speaks(Head(jobs)) THEN me ELSE C!NoMessage
    BY <1>6 DEF C!HandleLocalChatMsg, At, Alive, C!IsAlive
  <1>8. CASE ~C!Speaks(Head(jobs))
    BY <1>5, <1>7, <1>8, SingleSilent
  <1>9. CASE C!Speaks(Head(jobs))
    <2>1. Alive(s) /\ heard' = me
      BY <1>6, <1>7, <1>9 DEF C!Speaks, C!IsAlive, Alive
    <2>2. \A r \in Slot : Alive(r) => player[r].id # 0
      BY DEF SingleInv, Ended
    <2>3. \A r \in Slot : Alive(r) => (player[r].id = player[s].id <=> r = s)
      <3>1. \A r \in Slot : Alive(r) => HasHome(r, player[r].id)
        BY <2>2 DEF HasHome
      <3>2. HasHome(s, player[s].id)
        BY <2>1, <3>1
      <3> QED
        BY <3>1, <3>2 DEF SingleInv, Homes
    <2>4. \A p \in Sectors, r \in Slot :
            sector[p][r] = IF Alive(r) /\ At(r) = p THEN 1 ELSE 0
      BY DEF SingleInv, Situated
    <2>5. \A r \in Slot : At(r) \in Sectors
      BY SingleAt DEF SingleInv
    <2>6. \A r \in Slot : r \in near <=> Alive(r) /\ At(r) \in C!Around(At(s))
      <3>1. C!Around(At(s)) \subseteq Sectors
        BY DEF C!Around, Sectors
      <3>2. \A p \in Sectors, r \in Slot :
               sector[p][r] > 0 <=> Alive(r) /\ At(r) = p
        BY <2>4
      <3>3. \A r \in Slot : r \in near <=>
               \E p \in C!Around(At(s)) : sector[p][r] > 0
        OBVIOUS
      <3> HIDE DEF near
      <3> QED
        BY <3>1, <3>2, <3>3
    <2>7. \A r \in Slot : r \in me.to <=>
             /\ r # s /\ Alive(r) /\ player[r].id = slot[r].id
             /\ At(r) \in C!Around(At(s))
      BY <2>1, <2>3, <2>6
    <2>8. me.to \subseteq Slot /\ me.from = player[s].id
      OBVIOUS
    <2> HIDE DEF me
    <2>9. me.to = {r \in Slot \ {s} :
                     /\ Alive(r) /\ player[r].id = slot[r].id
                     /\ At(r) \in C!Around(At(s))}
      BY <2>7, <2>8
    <2>10. ASSUME NEW q \in Slot, heard'.from # 0, player'[q].id = heard'.from
           PROVE  heard'.to = {r \in Slot \ {q} :
                     /\ player'[r].status = "ALIVE"
                     /\ player'[r].id = slot'[r].id
                     /\ C!SectorOf(player'[r].x, player'[r].y)
                          \in C!Around(C!SectorOf(player'[q].x, player'[q].y))}
      <3>1. player[q].id # 0 /\ player[q].id = player[s].id
        BY <1>1, <2>1, <2>8, <2>10
      <3>2. HasHome(q, player[q].id) /\ HasHome(s, player[q].id)
        BY <3>1 DEF HasHome
      <3>3. q = s
        BY <3>2 DEF SingleInv, Homes
      <3> QED
        BY <1>1, <2>1, <2>9, <3>3 DEF Alive, At
    <2>11. Heard'
      BY <2>10 DEF Heard, C!HeardAround, C!IsAlive
    <2> QED
      BY <1>5, <2>11
  <1> QED
    BY <1>8, <1>9

(* Player::Move, for all of them. *)
LEMMA SingleUpdates ==
    ASSUME ProgramsAssumption, Sessions, SingleInv, NEW frames,
           C!UpdateContentsLogic(frames)
    PROVE  Sessions' /\ SingleInv'
  <1>1. /\ player' = [s \in Slot |-> C!Moved(player[s], frames)]
        /\ UNCHANGED <<slot, lastId, jobs, loginCount, playerCount, received,
                       lost>>
    BY DEF C!UpdateContentsLogic, C!sessionVars
  <1>2. /\ player \in [Slot -> PlayerType]
        /\ sector \in [Sectors -> [Slot -> 0 .. 1]] /\ jobs \in Seq(JobType)
    BY DEF SingleInv, SingleTypes
  <1>3. ASSUME NEW s \in Slot
        PROVE  /\ player'[s] \in PlayerType
               /\ player'[s].id = player[s].id
               /\ player'[s].status = player[s].status
               /\ player'[s] # player[s] => player[s].status = "ALIVE"
    <2>1. player'[s] = C!Moved(player[s], frames) /\ player[s] \in PlayerType
      BY <1>1, <1>2
    <2>2. \/ player'[s] = player[s]
          \/ \E x \in 0 .. Right - 1, y \in 0 .. Bottom - 1 :
                /\ player'[s] = [player[s] EXCEPT !.x = x, !.y = y]
                /\ player[s].status = "ALIVE"
      BY <2>1 DEF C!Moved
    <2>3. CASE player'[s] # player[s]
      <3>1. PICK x \in 0 .. Right - 1, y \in 0 .. Bottom - 1 :
                /\ player'[s] = [player[s] EXCEPT !.x = x, !.y = y]
                /\ player[s].status = "ALIVE"
        BY <2>2, <2>3
      <3> QED
        BY <2>1, <3>1 DEF PlayerType
    <2> QED
      BY <2>1, <2>3
  <1>4. player' \in [Slot -> PlayerType]
    <2>1. /\ player' = [s \in Slot |-> player'[s]]
      BY <1>1
    <2> QED
      BY <1>3, <2>1
  <1>5. SingleTypes' => \A s \in Slot : At(s)' \in Sectors
    <2> SUFFICES ASSUME NEW s \in Slot PROVE At(s)' \in Sectors
      OBVIOUS
    <2>1. PICK x \in 0 .. Right - 1, y \in 0 .. Bottom - 1 :
             x = player'[s].x /\ y = player'[s].y
      BY <1>3 DEF PlayerType
    <2> QED
      BY <2>1, SectorIn DEF At
  <1>6. \A s \in Slot : Alive(s)' <=> Alive(s)
    BY <1>3 DEF Alive
  <1>7. DOMAIN sector = Sectors
    BY <1>2
  <1>8. sector' = [p \in Sectors |-> [s \in Slot |->
                      IF At(s) = At(s)' THEN sector[p][s]
                      ELSE IF At(s)' = p THEN 1 ELSE 0]]
    <2> DEFINE Old(s) == C!SectorOf(player[s].x, player[s].y)
               New(s) == C!SectorOf(player'[s].x, player'[s].y)
               movers == {s \in Slot : Old(s) # New(s)}
    <2>1. sector' = [p \in Sectors |-> [s \in Slot |->
                          IF s \notin movers THEN sector[p][s]
                          ELSE IF New(s) = p THEN 1 ELSE 0]]
      BY <1>7 DEF C!UpdateContentsLogic
    <2>2. \A s \in Slot : s \notin movers <=> Old(s) = New(s)
      OBVIOUS
    <2>3. \A s \in Slot : Old(s) = At(s) /\ New(s) = At(s)'
      BY DEF At
    <2> HIDE DEF Old, New, movers
    <2> QED
      BY <2>1, <2>2, <2>3
  <1>9. ASSUME NEW p \in Sectors, NEW s \in Slot
        PROVE  /\ sector'[p][s] = IF Alive(s)' /\ At(s)' = p THEN 1 ELSE 0
    <2>1. sector[p][s] = IF Alive(s) /\ At(s) = p THEN 1 ELSE 0
      BY DEF SingleInv, Situated
    <2>2. At(s) # At(s)' => Alive(s)
      BY <1>3 DEF At, Alive
    <2>3. sector'[p][s] = IF At(s) = At(s)' THEN sector[p][s]
                          ELSE IF At(s)' = p THEN 1 ELSE 0
      BY <1>8
    <2> QED
      BY <1>6, <2>1, <2>2, <2>3
  <1>10. Situated'
    BY <1>9 DEF Situated
  <1>11. sector' \in [Sectors -> [Slot -> 0 .. 1]]
    <2> DEFINE At2(s) == At(s)'
    <2>1. \A p \in Sectors, s \in Slot : sector[p][s] \in 0 .. 1
      BY <1>2
    <2>2. \A p \in Sectors, s \in Slot :
             (IF At(s) = At2(s) THEN sector[p][s]
              ELSE IF At2(s) = p THEN 1 ELSE 0) \in 0 .. 1
      BY <2>1
    <2>3. sector' = [p \in Sectors |-> [s \in Slot |->
                      IF At(s) = At2(s) THEN sector[p][s]
                      ELSE IF At2(s) = p THEN 1 ELSE 0]]
      BY <1>8
    <2> HIDE DEF At2
    <2> QED
      BY <2>2, <2>3
  <1>12. SingleTypes'
    BY <1>1, <1>2, <1>4, <1>11 DEF SingleInv, SingleTypes
  <1>13. Sessions'
    BY <1>1, SessionsMove, SingleParameters DEF SessionMove
  <1>14. /\ ClientSlots' = ClientSlots /\ AliveSlots' = AliveSlots
         /\ ClientSlots \subseteq Slot
    BY <1>1, <1>6 DEF ClientSlots, AliveSlots, IsHere
  <1>15. Counts'
    BY <1>1, <1>14 DEF SingleInv, Counts
  <1>16. \A i \in 1 .. Len(jobs) : jobs[i].slot \in Slot
    <2>1. \A i \in 1 .. Len(jobs) : jobs[i] \in JobType
      BY <1>2, SMTT(20)
    <2> QED
      BY <2>1 DEF JobType
  <1>17. Homes' /\ Ordered'
    <2>1. \A s \in Slot : \A id : HasHome(s, id)' <=> HasHome(s, id)
      BY <1>1, <1>3 DEF HasHome, Used
    <2> QED
      BY <1>1, <2>1 DEF SingleInv, Homes, Ordered
  <1>18. Bounds'
    BY <1>1, <1>3, <1>16 DEF SingleInv, Bounds, Used, IsHere
  <1>19. Started'
    BY <1>1, <1>3, <1>14, <1>16, ZenonT(40) DEF SingleInv, Started, Alive
  <1>20. Ended'
    BY <1>1, <1>3, <1>6 DEF SingleInv, Ended
  <1> QED
    BY <1>10, <1>12, <1>13, <1>15, <1>17, <1>18, <1>19, <1>20 DEF SingleInv

(* Every step keeps the invariant.                                          *)
LEMMA SingleKept ==
    ASSUME ProgramsAssumption, Sessions, SingleInv, C!SingleNext
    PROVE  Sessions' /\ SingleInv' /\ Heard'
  <1>1. CASE C!HandleContentJob
    <2>1. /\ jobs # <<>> /\ jobs' = Tail(jobs)
          /\ UNCHANGED <<lastId, playerCount, received, lost>>
      BY <1>1 DEF C!HandleContentJob
    <2>2. CASE C!HandleLocalChatMsg(Head(jobs))
      BY <2>1, <2>2, SingleHears
    <2>3. CASE ~C!HandleLocalChatMsg(Head(jobs))
      <3>1. heard' = C!NoMessage
            /\ \/ C!HandleCreatePlayer(Head(jobs))
               \/ C!HandleDeletePlayer(Head(jobs))
               \/ C!HandleMove(Head(jobs))
               \/ C!HandleBadMessage(Head(jobs))
        BY <1>1, <2>3 DEF C!HandleContentJob
      <3> QED
        BY <2>1, <3>1, SingleSilent, SingleCreates, SingleDeletes,
           SingleMoves, SingleRefuses
    <2> QED
      BY <2>2, <2>3
  <1>2. CASE C!Others /\ heard' = C!NoMessage
    <2>1. Heard'
      BY <1>2, SingleSilent
    <2> QED
      BY <1>2, <2>1, SingleAccepts, SingleRegists, SingleLeaves,
         SingleReceives, SingleDisconnects, SingleFrees, SingleUpdates DEF C!Others
  <1> QED
    BY <1>1, <1>2 DEF C!SingleNext

(* What ChatAgrees says of it. *)
LEMMA SingleThen ==
    ASSUME ProgramsAssumption, Sessions, SingleInv
    PROVE  /\ C!JobsInOrder /\ C!InSector /\ C!Counted
           /\ C!PlayersAreSessions
  <1>1. SingleTypes /\ jobs \in Seq(JobType)
        /\ sector \in [Sectors -> [Slot -> 0 .. 1]]
    BY DEF SingleInv, SingleTypes
  <1>2. ASSUME NEW i \in 1 .. Len(jobs),
               jobs[i].type \notin {"Create", "Delete"}
        PROVE  LET earlier == {jobs[j] : j \in 1 .. i - 1}
                   Of(type) == [jobs[i] EXCEPT !.type = type]
               IN  /\ Of("Create") \in earlier \/ C!Speaks(jobs[i])
                   /\ Of("Delete") \notin earlier
    <2> DEFINE earlier == {jobs[j] : j \in 1 .. i - 1}
               Of(type) == [jobs[i] EXCEPT !.type = type]
    <2>1. \A j \in 1 .. i - 1 : j \in 1 .. Len(jobs) /\ j < i
      BY <1>1
    <2>2. \A j \in 1 .. Len(jobs) : jobs[j] \in JobType
      BY <1>1, SMTT(20)
    <2>3. /\ Of("Create").type = "Create" /\ Of("Create") \in JobType
          /\ Of("Create").slot = jobs[i].slot /\ Of("Create").id = jobs[i].id
          /\ Of("Delete").type = "Delete"
          /\ Of("Delete").slot = jobs[i].slot /\ Of("Delete").id = jobs[i].id
      BY <2>2 DEF JobType
    <2>4. \A job \in JobType : \A other \in JobType :
             job.type = other.type /\ job.slot = other.slot
             /\ job.id = other.id => job = other
      <3>1. \A job \in JobType :
               job = [type |-> job.type, slot |-> job.slot, id |-> job.id]
        BY DEF JobType
      <3> QED
        BY <3>1
    <2> HIDE DEF Of
    <2>5. Earlier(jobs, i, "Create", jobs[i].slot, jobs[i].id) =>
             Of("Create") \in earlier
      <3> SUFFICES ASSUME Earlier(jobs, i, "Create", jobs[i].slot, jobs[i].id)
                   PROVE  Of("Create") \in earlier
        OBVIOUS
      <3>1. PICK j \in 1 .. i - 1 :
               IsJob(jobs[j], "Create", jobs[i].slot, jobs[i].id)
        BY DEF Earlier
      <3>2. jobs[j] = Of("Create")
        BY <2>1, <2>2, <2>3, <2>4, <3>1 DEF IsJob
      <3> QED
        BY <3>2
    <2>6. Of("Create") \in earlier \/ C!Speaks(jobs[i])
      BY <1>2, <2>5 DEF SingleInv, Started, C!Speaks, C!IsAlive
    <2>7. Of("Delete") \notin earlier
      <3> SUFFICES ASSUME Of("Delete") \in earlier PROVE FALSE
        OBVIOUS
      <3>1. PICK j \in 1 .. i - 1 : jobs[j] = Of("Delete")
        OBVIOUS
      <3>2. /\ jobs[j].type = "Delete" /\ jobs[j].slot = jobs[i].slot
            /\ jobs[j].id = jobs[i].id
        BY <2>3, <3>1
      <3> QED
        BY <2>1, <3>2 DEF SingleInv, Ordered
    <2> QED
      BY <2>6, <2>7 DEF Of
  <1>3. C!JobsInOrder
    BY <1>2 DEF C!JobsInOrder
  <1>4. C!InSector
    BY <1>1 DEF SingleInv, Situated, Alive, At, C!InSector, C!IsAlive
  <1>5. C!Counted
    BY DEF SingleInv, Counts, ClientSlots, AliveSlots, IsHere, Alive,
           C!Counted, C!Here, C!IsAlive, C!Cardinality, Cardinality
  <1>6. C!PlayersAreSessions
    <2> SUFFICES ASSUME jobs = <<>>, NEW s \in Slot
                 PROVE  C!IsAlive(s) <=>
                          /\ C!Here(s) /\ slot[s].kind = "client"
                          /\ player[s].id = slot[s].id
      BY DEF C!PlayersAreSessions
    <2>1. \A type, r, id : ~HasJob(jobs, type, r, id)
      BY DEF HasJob
    <2>2. Alive(s) => /\ slot[s].phase \in {"open", "left"}
                      /\ slot[s].kind = "client" /\ slot[s].id = player[s].id
      BY <2>1 DEF SingleInv, Ended, Lasting, ClientSlots, IsHere
    <2>3. s \in ClientSlots => Alive(s)
      BY <2>1 DEF SingleInv, Started
    <2> QED
      BY <2>2, <2>3 DEF ClientSlots, IsHere, Alive, C!IsAlive, C!Here
  <1> QED
    BY <1>3, <1>4, <1>5, <1>6

(* Its part of TypeOK, also when another program runs. *)
LEMMA SingleTypesThen ==
    ASSUME ProgramsAssumption, SingleTypes
    PROVE  C!SingleTypeOK
  <1>1. \A s \in Slot : player[s] \in PlayerType
    BY DEF SingleTypes
  <1> QED
    BY <1>1 DEF SingleTypes, PlayerType, C!SingleTypeOK

===============================================================================
