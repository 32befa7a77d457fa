----------------------------- MODULE SessionPool -----------------------------
(***************************************************************************)
(* NetWorkLib: how the threads of CWanManager share the slots of the       *)
(* session array (NetworkManager/NetWorkManager.cpp, Session/Session.cpp). *)
(*                                                                         *)
(* A slot is reused by session after session.  Nobody locks it: a thread   *)
(* that wants to touch the session named by a 64-bit ID adds one to the    *)
(* slot's ioCount, then checks the release flag, then compares the slot's  *)
(* ID with the one it was given, and takes the count back when it is done. *)
(* Whoever brings the count to zero tries to close the slot with one       *)
(* compare-and-swap over the pair <releaseFlag, ioCount>.  A posted WSARecv *)
(* or WSASend owns one count until a worker has handled its completion.    *)
(*                                                                         *)
(* One step of the model is one access to shared memory that another thread *)
(* can see.  Where a thread that already holds a count on a slot takes and  *)
(* releases another on the same slot (RequestSessionAbort called from       *)
(* SendPacket, from an I/O error or from a completion routine), the inner   *)
(* pair cannot reach zero and its checks cannot fail, so the inner call is  *)
(* one step.  The value of a packet is the id of the session it was meant   *)
(* for.                                                                     *)
(***************************************************************************)
EXTENDS Naturals, FiniteSets

CONSTANTS
    Index,      \* the slots: indices of CSessionManager::_sessionList
    Worker,     \* the threads that call into the library: IOCP workers, and
                \* the contents' own threads, which only never take completions
    Acceptor,   \* the accept thread
    NoIndex,    \* "no slot"
    MaxID       \* bound: session ids given out in a run

ASSUME SessionPoolAssumption ==
    /\ IsFiniteSet(Worker)
    /\ Acceptor \notin Worker
    /\ NoIndex \notin Index
    /\ MaxID \in Nat

Thread == Worker \cup {Acceptor}
Id == 1 .. MaxID
Cleared == 0            \* the id of a slot after Session::clear
IoKind == {"recv", "send"}

VARIABLES
    free,       \* the indices in CSessionManager::_indexStack
    flag,       \* flag[i]: _releaseIOFlag._struct.releaseFlag
    io,         \* io[i]: _releaseIOFlag._struct.ioCount
    sid,        \* sid[i]: _ID of slot i
    status,     \* status[i]: _status, "Active" or "MarkForDeletion"
    sendFlag,   \* sendFlag[i]: _sendFlag
    sendBuf,    \* sendBuf[i]: the packets in _sendBuffer
    posted,     \* posted[i]: the overlapped operations the system holds
    nextId,     \* CSessionManager::_sessionID
    life,       \* life[k]: what the contents were told about id k
    slot,       \* slot[k]: the index packed into session ID k
    asked,      \* the ids somebody had a reason to abort
    pc,         \* pc[t]: where thread t is
    op,         \* op[t]: the library function it runs
    arg,        \* arg[t]: the id that function was given
    cur,        \* cur[t]: the slot it works on
    base        \* base[t]: the slot whose recv completion t is handling

slots == <<flag, io, sid, status, sendFlag, sendBuf, posted>>
ids == <<nextId, life, slot, asked>>
threads == <<pc, op, arg, cur, base>>
vars == <<free, slots, ids, threads>>

-----------------------------------------------------------------------------
(* A slot whose constructor has run and that no session has used yet. *)
Init ==
    /\ free = Index
    /\ flag = [i \in Index |-> 1]
    /\ io = [i \in Index |-> 0]
    /\ sid = [i \in Index |-> Cleared]
    /\ status = [i \in Index |-> "Active"]
    /\ sendFlag = [i \in Index |-> 0]
    /\ sendBuf = [i \in Index |-> {}]
    /\ posted = [i \in Index |-> {}]
    /\ nextId = 1
    /\ life = [k \in Id |-> "none"]
    /\ slot = [k \in Id |-> NoIndex]
    /\ asked = {}
    /\ pc = [t \in Thread |-> "idle"]
    /\ op = [t \in Thread |-> "none"]
    /\ arg = [t \in Thread |-> Cleared]
    /\ cur = [t \in Thread |-> NoIndex]
    /\ base = [t \in Thread |-> NoIndex]

Goto(t, place) == pc' = [pc EXCEPT ![t] = place]

(* The library call of t returns: to the recv completion whose _OnMessage  *)
(* made the call, or out of the library.                                   *)
Return(t) ==
    /\ Goto(t, IF base[t] = NoIndex THEN "idle" ELSE "recvd")
    /\ op' = [op EXCEPT ![t] = "none"]
    /\ arg' = [arg EXCEPT ![t] = Cleared]
    /\ cur' = [cur EXCEPT ![t] = NoIndex]

(* The release flag and the full ID, as SendPacket, SendToAllSessions and  *)
(* RequestSessionAbort test them once their count is in.                   *)
Released_NeverSeen(i) == FALSE
Released(i) == flag[i] = 1

Matches_IndexOnly(t) == TRUE
Matches(t) == sid[cur[t]] = arg[t]

(* The expected value of the compare-and-swap: SESSION_CLOSABLE, all 64     *)
(* bits zero, so both halves of the pair.                                   *)
Closable_CountOnly(i) == io[i] = 0
Closable(i) == flag[i] = 0 /\ io[i] = 0

-----------------------------------------------------------------------------
(* The accept thread *)

(* _makeNewSession takes an index off the stack and the next id. *)
Accept ==
    /\ pc[Acceptor] = "idle"
    /\ nextId \in Id
    /\ \E i \in free :
        /\ free' = free \ {i}
        /\ cur' = [cur EXCEPT ![Acceptor] = i]
        /\ slot' = [slot EXCEPT ![nextId] = i]
    /\ arg' = [arg EXCEPT ![Acceptor] = nextId]
    /\ nextId' = nextId + 1
    /\ Goto(Acceptor, "init")
    /\ UNCHANGED <<slots, life, asked, op, base>>

(* Session::init counts the accept thread in ... *)
InitCount_Forgotten ==
    /\ pc[Acceptor] = "init"
    /\ Goto(Acceptor, "unlock")
    /\ UNCHANGED <<free, slots, ids, op, arg, cur, base>>

InitCount ==
    /\ pc[Acceptor] = "init"
    /\ io' = [io EXCEPT ![cur[Acceptor]] = @ + 1]
    /\ Goto(Acceptor, "unlock")
    /\ UNCHANGED <<free, flag, sid, status, sendFlag, sendBuf, posted, ids,
                   op, arg, cur, base>>

(* ... before it takes the release flag down. *)
InitUnlock ==
    /\ pc[Acceptor] = "unlock"
    /\ flag' = [flag EXCEPT ![cur[Acceptor]] = 0]
    /\ sendFlag' = [sendFlag EXCEPT ![cur[Acceptor]] = 0]
    /\ Goto(Acceptor, "setid")
    /\ UNCHANGED <<free, io, sid, status, sendBuf, posted, ids,
                   op, arg, cur, base>>

SetID ==
    /\ pc[Acceptor] = "setid"
    /\ sid' = [sid EXCEPT ![cur[Acceptor]] = arg[Acceptor]]
    /\ Goto(Acceptor, "onaccept")
    /\ UNCHANGED <<free, flag, io, status, sendFlag, sendBuf, posted, ids,
                   op, arg, cur, base>>

(* The contents learn the ID: from here on any thread may use it. *)
OnAccept ==
    /\ pc[Acceptor] = "onaccept"
    /\ life' = [life EXCEPT ![sid[cur[Acceptor]]] = "open"]
    /\ Goto(Acceptor, "firstrecv")
    /\ UNCHANGED <<free, slots, nextId, slot, asked, op, arg, cur, base>>

(* Posting an overlapped operation on slot i: the count goes up first.  If *)
(* the call fails, with the connection already reset, the caller asks for  *)
(* the session to be aborted and the count just added is never taken back. *)
Post(i, kind) ==
    /\ io' = [io EXCEPT ![i] = @ + 1]
    /\ \/ /\ posted' = [posted EXCEPT ![i] = @ \cup {kind}]
          /\ UNCHANGED <<status, asked>>
       \/ /\ status' = [status EXCEPT ![i] = "MarkForDeletion"]
          /\ asked' = asked \cup {sid[i]}
          /\ UNCHANGED posted

(* The accept thread posts the first receive and gives its count back. *)
FirstRecv ==
    /\ pc[Acceptor] = "firstrecv"
    /\ Post(cur[Acceptor], "recv")
    /\ Goto(Acceptor, "release")
    /\ UNCHANGED <<free, flag, sid, sendFlag, sendBuf, nextId, life, slot,
                   op, arg, cur, base>>

-----------------------------------------------------------------------------
(* SendPacket, DisconnectSession and SendToAllSessions, up to the point    *)
(* where the session is known to be the right one                          *)

(* SendPacket or DisconnectSession for any ID the contents ever learnt: the *)
(* session may be long gone, its slot in use by another one.                *)
Call(t, k, f) ==
    /\ pc[t] \in {"idle", "recvd"}
    /\ life[k] # "none"
    /\ op' = [op EXCEPT ![t] = f]
    /\ arg' = [arg EXCEPT ![t] = k]
    /\ cur' = [cur EXCEPT ![t] = slot[k]]
    /\ asked' = IF f = "abort" THEN asked \cup {k} ELSE asked
    /\ Goto(t, "pin")
    /\ UNCHANGED <<free, slots, nextId, life, slot, base>>

(* One turn of the loop of SendToAllSessions: the ID to expect is read off  *)
(* the slot itself ...                                                      *)
Scan(t, i) ==
    /\ pc[t] = "idle"
    /\ op' = [op EXCEPT ![t] = "flush"]
    /\ arg' = [arg EXCEPT ![t] = sid[i]]
    /\ cur' = [cur EXCEPT ![t] = i]
    /\ Goto(t, "peek")
    /\ UNCHANGED <<free, slots, ids, base>>

(* ... and a slot that is not in use is skipped. *)
Peek(t) ==
    /\ pc[t] = "peek"
    /\ IF flag[cur[t]] = 1
       THEN Return(t)
       ELSE Goto(t, "pin") /\ UNCHANGED <<op, arg, cur>>
    /\ UNCHANGED <<free, slots, ids, base>>

Pin_WithoutCount(t) ==
    /\ pc[t] = "pin"
    /\ Goto(t, "flag")
    /\ UNCHANGED <<free, slots, ids, op, arg, cur, base>>

(* IncrementSessionIoCount *)
Pin(t) ==
    /\ pc[t] = "pin"
    /\ io' = [io EXCEPT ![cur[t]] = @ + 1]
    /\ Goto(t, "flag")
    /\ UNCHANGED <<free, flag, sid, status, sendFlag, sendBuf, posted, ids,
                   op, arg, cur, base>>

CheckFlag(t) ==
    /\ pc[t] = "flag"
    /\ Goto(t, IF Released(cur[t]) THEN "release" ELSE "id")
    /\ UNCHANGED <<free, slots, ids, op, arg, cur, base>>

CheckId(t) ==
    /\ pc[t] = "id"
    /\ Goto(t, IF Matches(t) THEN "use" ELSE "release")
    /\ UNCHANGED <<free, slots, ids, op, arg, cur, base>>

-----------------------------------------------------------------------------
(* What the three do with the session *)

(* SendPacket leaves the packet for the next SendToAllSessions. *)
Enqueue(t) ==
    /\ pc[t] = "use"
    /\ op[t] = "send"
    /\ sendBuf' = [sendBuf EXCEPT ![cur[t]] = @ \cup {arg[t]}]
    /\ Goto(t, "release")
    /\ UNCHANGED <<free, flag, io, sid, status, sendFlag, posted, ids,
                   op, arg, cur, base>>

(* SendPacket finds more than 1000 packets waiting, or RequestSessionAbort  *)
(* itself: the session is marked and its pending I/O cancelled.  Cancelled  *)
(* operations complete with an error, which they may do anyway.             *)
MarkForDeletion(t) ==
    /\ pc[t] = "use"
    /\ op[t] \in {"send", "abort"}
    /\ status' = [status EXCEPT ![cur[t]] = "MarkForDeletion"]
    /\ asked' = asked \cup {arg[t]}
    /\ Goto(t, "release")
    /\ UNCHANGED <<free, flag, io, sid, sendFlag, sendBuf, posted, nextId,
                   life, slot, op, arg, cur, base>>

(* _TrySendPost and _SendPost, when there is something to send and no send  *)
(* is on its way.                                                           *)
TrySend(t) ==
    /\ pc[t] = "use"
    /\ op[t] = "flush"
    /\ sendBuf[cur[t]] # {}
    /\ sendFlag[cur[t]] = 0
    /\ sendFlag' = [sendFlag EXCEPT ![cur[t]] = 1]
    /\ Post(cur[t], "send")
    /\ Goto(t, "release")
    /\ UNCHANGED <<free, flag, sid, sendBuf, nextId, life, slot,
                   op, arg, cur, base>>

NothingToSend(t) ==
    /\ pc[t] = "use"
    /\ op[t] = "flush"
    /\ sendBuf[cur[t]] = {} \/ sendFlag[cur[t]] = 1
    /\ Goto(t, "release")
    /\ UNCHANGED <<free, slots, ids, op, arg, cur, base>>

-----------------------------------------------------------------------------
(* DecrementSessionIoCount and _DisconnectSession *)

Release_RefusedDoesNotClose(t) ==
    /\ pc[t] = "release"
    /\ io' = [io EXCEPT ![cur[t]] = @ - 1]
    /\ IF io[cur[t]] = 1 /\ arg[t] \in {Cleared, sid[cur[t]]}
       THEN Goto(t, "close") /\ UNCHANGED <<op, arg, cur>>
       ELSE Return(t)
    /\ UNCHANGED <<free, flag, sid, status, sendFlag, sendBuf, posted, ids,
                   base>>

Release(t) ==
    /\ pc[t] = "release"
    /\ io' = [io EXCEPT ![cur[t]] = @ - 1]
    /\ IF io[cur[t]] = 1
       THEN Goto(t, "close") /\ UNCHANGED <<op, arg, cur>>
       ELSE Return(t)
    /\ UNCHANGED <<free, flag, sid, status, sendFlag, sendBuf, posted, ids,
                   base>>

(* The compare-and-swap: only one thread gets past it. *)
TryClose(t) ==
    /\ pc[t] = "close"
    /\ IF Closable(cur[t])
       THEN /\ flag' = [flag EXCEPT ![cur[t]] = 1]
            /\ Goto(t, "ondisconnect")
            /\ UNCHANGED <<op, arg, cur>>
       ELSE /\ Return(t)
            /\ UNCHANGED flag
    /\ UNCHANGED <<free, io, sid, status, sendFlag, sendBuf, posted, ids,
                   base>>

(* The contents are told, and the socket is closed. *)
OnDisconnect(t) ==
    /\ pc[t] = "ondisconnect"
    /\ life' = [life EXCEPT ![sid[cur[t]]] = "gone"]
    /\ Goto(t, "clear")
    /\ UNCHANGED <<free, slots, nextId, slot, asked, op, arg, cur, base>>

(* CSessionManager::Delete: Session::clear ... *)
Clear_KeepsStatus(t) ==
    /\ pc[t] = "clear"
    /\ sid' = [sid EXCEPT ![cur[t]] = Cleared]
    /\ sendBuf' = [sendBuf EXCEPT ![cur[t]] = {}]
    /\ Goto(t, "push")
    /\ UNCHANGED <<free, flag, io, status, sendFlag, posted, ids,
                   op, arg, cur, base>>

Clear_KeepsBuffer(t) ==
    /\ pc[t] = "clear"
    /\ sid' = [sid EXCEPT ![cur[t]] = Cleared]
    /\ status' = [status EXCEPT ![cur[t]] = "Active"]
    /\ Goto(t, "push")
    /\ UNCHANGED <<free, flag, io, sendBuf, sendFlag, posted, ids,
                   op, arg, cur, base>>

Clear(t) ==
    /\ pc[t] = "clear"
    /\ sid' = [sid EXCEPT ![cur[t]] = Cleared]
    /\ sendBuf' = [sendBuf EXCEPT ![cur[t]] = {}]
    /\ status' = [status EXCEPT ![cur[t]] = "Active"]
    /\ Goto(t, "push")
    /\ UNCHANGED <<free, flag, io, sendFlag, posted, ids, op, arg, cur, base>>

(* ... then the index goes back on the stack. *)
Push(t) ==
    /\ pc[t] = "push"
    /\ free' = free \cup {cur[t]}
    /\ Return(t)
    /\ UNCHANGED <<slots, ids, base>>

-----------------------------------------------------------------------------
(* The completions an IOCP worker takes *)

(* Zero bytes, or an error CheckGQCSError knows: the session is aborted and *)
(* the operation's count given back.                                        *)
CompleteBad(t, i, kind) ==
    /\ pc[t] = "idle"
    /\ kind \in posted[i]
    /\ posted' = [posted EXCEPT ![i] = @ \ {kind}]
    /\ status' = [status EXCEPT ![i] = "MarkForDeletion"]
    /\ asked' = asked \cup {sid[i]}
    /\ cur' = [cur EXCEPT ![t] = i]
    /\ Goto(t, "release")
    /\ UNCHANGED <<free, flag, io, sid, sendFlag, sendBuf, nextId, life, slot,
                   op, arg, base>>

(* SendCompletionRoutine: the packets sent leave the buffer, those queued   *)
(* meanwhile stay.                                                          *)
CompleteSend(t, i) ==
    /\ pc[t] = "idle"
    /\ "send" \in posted[i]
    /\ posted' = [posted EXCEPT ![i] = @ \ {"send"}]
    /\ sendFlag' = [sendFlag EXCEPT ![i] = 0]
    /\ \/ sendBuf' = [sendBuf EXCEPT ![i] = {}]
       \/ UNCHANGED sendBuf
    /\ cur' = [cur EXCEPT ![t] = i]
    /\ Goto(t, "release")
    /\ UNCHANGED <<free, flag, io, sid, status, ids, op, arg, base>>

(* RecvCompletionRoutine begins; its _OnMessage calls may call the library. *)
CompleteRecv(t, i) ==
    /\ pc[t] = "idle"
    /\ "recv" \in posted[i]
    /\ posted' = [posted EXCEPT ![i] = @ \ {"recv"}]
    /\ base' = [base EXCEPT ![t] = i]
    /\ Goto(t, "recvd")
    /\ UNCHANGED <<free, flag, io, sid, status, sendFlag, sendBuf, ids,
                   op, arg, cur>>

(* It ends by giving the count of the completed receive back, having posted *)
(* the next one unless the session is marked by then, or the buffer is full  *)
(* of a packet that is announced longer than it (_RecvPost returns false).   *)
FinishRecv(t) ==
    /\ pc[t] = "recvd"
    /\ \/ status[base[t]] = "Active" /\ Post(base[t], "recv")
       \/ UNCHANGED <<io, posted, status, asked>>
    /\ cur' = [cur EXCEPT ![t] = base[t]]
    /\ base' = [base EXCEPT ![t] = NoIndex]
    /\ Goto(t, "release")
    /\ UNCHANGED <<free, flag, sid, sendFlag, sendBuf, nextId, life, slot,
                   op, arg>>

(* A packet that does not decode: the session is aborted, and the worker    *)
(* goes back to the completion queue without giving the count back.         *)
BadPacket(t) ==
    /\ pc[t] = "recvd"
    /\ status' = [status EXCEPT ![base[t]] = "MarkForDeletion"]
    /\ asked' = asked \cup {sid[base[t]]}
    /\ base' = [base EXCEPT ![t] = NoIndex]
    /\ Goto(t, "idle")
    /\ UNCHANGED <<free, flag, io, sid, sendFlag, sendBuf, posted, nextId,
                   life, slot, op, arg, cur>>

-----------------------------------------------------------------------------
Accepting ==
    Accept \/ InitCount \/ InitUnlock \/ SetID \/ OnAccept \/ FirstRecv

Using(t) ==
    \/ \E k \in Id, f \in {"send", "abort"} : Call(t, k, f)
    \/ \E i \in Index : Scan(t, i)
    \/ Peek(t) \/ Pin(t) \/ CheckFlag(t) \/ CheckId(t)
    \/ Enqueue(t) \/ MarkForDeletion(t) \/ TrySend(t) \/ NothingToSend(t)

Completing(t) ==
    \/ \E i \in Index :
        \/ \E kind \in IoKind : CompleteBad(t, i, kind)
        \/ CompleteSend(t, i)
        \/ CompleteRecv(t, i)
    \/ FinishRecv(t)
    \/ BadPacket(t)

Closing(t) ==
    Release(t) \/ TryClose(t) \/ OnDisconnect(t) \/ Clear(t) \/ Push(t)

Next ==
    \/ Accepting
    \/ \E t \in Worker : Using(t) \/ Completing(t)
    \/ \E t \in Thread : Closing(t)

Spec == Init /\ [][Next]_vars

-----------------------------------------------------------------------------
(* Who counts on slot i: the threads inside a library call that added one   *)
(* to its ioCount, and those handling a completed receive of it.            *)
Pinned == {"flag", "id", "use", "release",
           "unlock", "setid", "onaccept", "firstrecv"}
Callers(i) == {t \in Thread : pc[t] \in Pinned /\ cur[t] = i}
Handlers(i) == {t \in Thread : base[t] = i}

(* The places of a thread that owns its slot with the release flag up: the  *)
(* accept thread that just took it, the thread that closes it.              *)
Owning == {"init", "unlock", "ondisconnect", "clear", "push"}

Place == {"idle", "recvd", "peek", "pin", "close"} \cup Pinned \cup Owning

(* Every variable has its type.  io is never negative: the code breaks into *)
(* the debugger when DecrementSessionIoCount brings it below zero.          *)
TypeOK ==
    /\ free \subseteq Index
    /\ flag \in [Index -> {0, 1}]
    /\ io \in [Index -> Nat]
    /\ sid \in [Index -> Id \cup {Cleared}]
    /\ status \in [Index -> {"Active", "MarkForDeletion"}]
    /\ sendFlag \in [Index -> {0, 1}]
    /\ sendBuf \in [Index -> SUBSET (Id \cup {Cleared})]
    /\ posted \in [Index -> SUBSET IoKind]
    /\ nextId \in 1 .. MaxID + 1
    /\ life \in [Id -> {"none", "open", "gone"}]
    /\ slot \in [Id -> Index \cup {NoIndex}]
    /\ asked \subseteq Id \cup {Cleared}
    /\ pc \in [Thread -> Place]
    /\ op \in [Thread -> {"none", "send", "abort", "flush"}]
    /\ arg \in [Thread -> Id \cup {Cleared}]
    /\ cur \in [Thread -> Index \cup {NoIndex}]
    /\ base \in [Thread -> Index \cup {NoIndex}]

(* A slot is never taken away from under a user: while a thread that passed *)
(* both checks is at work on it, a worker handles one of its completions or *)
(* the system still holds one of its operations, the slot has not been      *)
(* released, and it is still the session the thread asked for               *)
(* (SendPacket and RequestSessionAbort after their ID test).                *)
InUseStaysOpen ==
    /\ \A i \in Index :
        Handlers(i) # {} \/ posted[i] # {} => flag[i] = 0
    /\ \A t \in Thread :
        pc[t] = "use" =>
            /\ flag[cur[t]] = 0
            /\ op[t] # "flush" => sid[cur[t]] = arg[t]

(* The contents only ever hear of a session between its _OnAccept and its   *)
(* _OnDisConnect: the completed receive a worker turns into _OnMessage      *)
(* calls belongs to an open session.                                        *)
MessagesOnlyWhileOpen ==
    \A t \in Worker :
        base[t] # NoIndex =>
            sid[base[t]] \in Id /\ life[sid[base[t]]] = "open"

(* No packet meant for one client waits on the connection of another, even  *)
(* if the ID given to SendPacket was the last one to use the same slot.     *)
NoForeignPacket ==
    \A i \in Index : sendBuf[i] \subseteq {sid[i]} \ {Cleared}

(* No session is marked for deletion because of an ID that is not its own:  *)
(* each mark answers a request, or an I/O failure, of that very session.    *)
NoForeignAbort ==
    \A i \in Index :
        status[i] = "MarkForDeletion" => sid[i] \in asked

(* An index has one owner: it is on the stack, or open, or a single thread  *)
(* is opening or closing it.  So no two sessions share a slot and no index  *)
(* is pushed twice.                                                         *)
OneOwnerPerSlot ==
    \A i \in Index :
        LET owners == {t \in Thread : pc[t] \in Owning /\ cur[t] = i}
        IN  /\ flag[i] = 0 => i \notin free
            /\ flag[i] = 0 \/ i \in free => owners = {}
            /\ flag[i] = 1 /\ i \notin free => owners # {}
            /\ \A t, u \in owners : t = u

(* A session nobody counts on is on its way out: whenever an open slot has  *)
(* ioCount zero, some thread is about to run the compare-and-swap on it.    *)
NoOrphan ==
    \A i \in Index :
        flag[i] = 0 /\ io[i] = 0 =>
            \E t \in Thread : pc[t] = "close" /\ cur[t] = i

-----------------------------------------------------------------------------
(* Seen from the contents, the pool is the service of SessionContract.      *)
Contract == INSTANCE SessionContract WITH
    phase <- life,
    home <- [k \in Id |-> IF life[k] = "none" THEN NoIndex ELSE slot[k]],
    queued <- [k \in Id |-> IF life[k] = "open" THEN sendBuf[slot[k]] ELSE {}]

(* Every step of the pool is a step the contract allows. *)
ImplementsContract == Contract!Spec

==============================================================================
