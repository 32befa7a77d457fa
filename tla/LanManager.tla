----------------------------- MODULE LanManager -----------------------------
(***************************************************************************)
(* CLanManager (NetWorkLib/NetworkManager/CLanManager.cpp): the manager for  *)
(* peers inside the system, a copy of CWanManager gone its own way.  Here    *)
(* are the ways it goes: CheckGQCSError gives the count of a cancelled        *)
(* operation back and takes ERROR_NETNAME_DELETED for a completion of 0      *)
(* bytes; a 0-byte receive is a receive like others; a failed WSARecv gives  *)
(* its count back and a failed WSASend does not; a send's completion does   *)
(* not flush again; and _sessionLoginCount only grows.                      *)
(*                                                                         *)
(* One slot and the sessions that have it in turn.  Slots and IDs in general *)
(* are SessionPool, the sharing of the work is SessionIo.                   *)
(***************************************************************************)
EXTENDS Integers, FiniteSets

CONSTANTS
    Worker,     \* IOCP_WorkerThread
    Caller,     \* threads that call SendPacket, EnqueSendRequest, DisconnectSession
    Acceptor,   \* AcceptThread
    SessionMax, \* _sessionMaxCount
    MaxCalls    \* bound: calls

LanThread == Worker \cup Caller \cup {Acceptor}

VARIABLES
    login,      \* _sessionLoginCount
    id,         \* _ID of the slot: the number of the session, 0 for none
    released,   \* releaseFlag
    io,         \* ioCount
    status,     \* _status
    peer,       \* the connection: "open", "reset" or "none"
    recv,       \* the receive: "none", "posted", and how it came out
    send,       \* the send: "none", "posted", "done", "aborted", "lost"
    queue,      \* packets in _sendBuffer
    sendCount,  \* packets of the send under way
    request,    \* EnqueSendRequest has posted SENDREQUEST
    calls,      \* calls so far
    th          \* th[t]: pc, the ID it works for, where it goes after an abort

slot == <<id, released, io, status>>
ops == <<peer, recv, send, sendCount>>
vars == <<login, slot, ops, queue, request, calls, th>>

-----------------------------------------------------------------------------
Idle == [pc |-> "idle", id |-> 0, then |-> "idle"]

Init ==
    /\ login = 0
    /\ id = 0 /\ released = TRUE /\ io = 0 /\ status = "Active"
    /\ peer = "none" /\ recv = "none" /\ send = "none"
    /\ queue = 0 /\ sendCount = 0 /\ request = FALSE /\ calls = 0
    /\ th = [t \in LanThread |-> Idle]

At(t, pc) == th[t].pc = pc
Goto(t, pc) == th' = [th EXCEPT ![t].pc = pc]
Abort(t, pc) == th' = [th EXCEPT ![t].pc = "mark", ![t].then = pc]

-----------------------------------------------------------------------------
(* AcceptThread; a full server closes the connection again.                *)
Accept ==
    /\ At(Acceptor, "idle")
    /\ login # SessionMax
    /\ released
    /\ login' = login + 1
    /\ id' = login' /\ released' = FALSE /\ io' = io + 1
    /\ peer' = "open"
    /\ send' = "none"
    /\ th' = [th EXCEPT ![Acceptor].pc = "post", ![Acceptor].id = id',
                        ![Acceptor].then = "dec"]
    /\ UNCHANGED <<status, recv, queue, sendCount, request, calls>>

(* WSARecv has its way with the connection as it is.                       *)
RecvPost_Leaks(t) ==
    /\ At(t, "post")
    /\ io' = io + 1
    /\ IF peer = "reset"
       THEN Abort(t, th[t].then) /\ UNCHANGED recv
       ELSE recv' = "posted" /\ Goto(t, th[t].then)
    /\ UNCHANGED <<login, id, released, status, peer, send, sendCount, queue, request, calls>>

RecvPost(t) ==
    /\ At(t, "post")
    /\ IF peer = "reset"
       THEN Abort(t, th[t].then) /\ UNCHANGED <<recv, io>>
       ELSE recv' = "posted" /\ io' = io + 1 /\ Goto(t, th[t].then)
    /\ UNCHANGED <<login, id, released, status, peer, send, sendCount, queue, request, calls>>

(* The connection *)
Reset ==
    /\ peer = "open"
    /\ peer' = "reset"
    /\ recv' \in IF recv = "posted" THEN {"deleted", "aborted"} ELSE {recv}
    /\ send' \in IF send = "posted" THEN {"done", "aborted"} ELSE {send}
    /\ UNCHANGED <<login, slot, sendCount, queue, request, calls, th>>

Arrives ==
    /\ peer = "open" /\ recv = "posted"
    /\ recv' = "done"
    /\ UNCHANGED <<login, slot, peer, send, sendCount, queue, request, calls, th>>

Sent ==
    /\ peer = "open" /\ send = "posted"
    /\ send' = "done"
    /\ UNCHANGED <<login, slot, peer, recv, sendCount, queue, request, calls, th>>

-----------------------------------------------------------------------------
(* IOCP_WorkerThread *)

(* CheckGQCSError gives the count back, or RecvCompletionRoutine hands out   *)
(* the messages; whether another receive is due depends on _status.        *)
RecvCompletes(t) ==
    /\ At(t, "idle") /\ recv \in {"done", "deleted", "aborted"}
    /\ recv' = "none"
    /\ th' = [th EXCEPT ![t] =
                [pc |-> IF recv = "aborted" THEN "dec" ELSE "recvd",
                 id |-> id, then |-> "recheck"]]
    /\ UNCHANGED <<login, slot, peer, send, sendCount, queue, request, calls>>

Received(t) ==
    /\ At(t, "recvd")
    /\ Goto(t, IF status = "Active" THEN "post" ELSE "dec")
    /\ UNCHANGED <<login, slot, ops, queue, request, calls>>

Recheck(t) ==
    /\ At(t, "recheck")
    /\ IF status = "Active" THEN Goto(t, "dec") ELSE Abort(t, "dec")
    /\ UNCHANGED <<login, slot, ops, queue, request, calls>>

(* SendCompletionRoutine, with everything that was posted; a cancelled send  *)
(* leaves packets and _sendFlag as they are.                               *)
SendCompletes(t) ==
    /\ At(t, "idle") /\ send \in {"done", "aborted"}
    /\ send' = IF send = "done" THEN "none" ELSE "cancelled"
    /\ queue' = IF send = "done" THEN queue - sendCount ELSE queue
    /\ th' = [th EXCEPT ![t] = [pc |-> IF send = "done" THEN "recheck" ELSE "dec",
                                id |-> id, then |-> "dec"]]
    /\ UNCHANGED <<login, slot, peer, recv, sendCount, request, calls>>

(* SendToAllSessions and _TrySendPost; WSASend fails on a reset connection,  *)
(* and the count it was to give back stays.                                *)
SendToAllSessions(t) ==
    /\ At(t, "idle") /\ request
    /\ request' = FALSE
    /\ IF released
       THEN UNCHANGED <<io, th>>
       ELSE io' = io + 1 /\ th' = [th EXCEPT ![t] = [pc |-> "check", id |-> id,
                                                     then |-> "flush"]]
    /\ UNCHANGED <<login, id, released, status, ops, queue, calls>>

TrySendPost(t) ==
    /\ At(t, "flush")
    /\ IF queue = 0 \/ send # "none"
       THEN Goto(t, "dec") /\ UNCHANGED <<io, send, sendCount>>
       ELSE /\ io' = io + 1
            /\ sendCount' = queue
            /\ IF peer = "reset"
               THEN send' = "lost" /\ Abort(t, "dec")
               ELSE send' = "posted" /\ Goto(t, "dec")
    /\ UNCHANGED <<login, id, released, status, peer, recv, queue, request, calls>>

-----------------------------------------------------------------------------
(* The library calls, with the ID of this session or of one before it.     *)
Call(t, i, f) ==
    /\ At(t, "idle") /\ calls < MaxCalls
    /\ calls' = calls + 1
    /\ io' = io + 1
    /\ th' = [th EXCEPT ![t] = [pc |-> "check", id |-> i, then |-> f]]
    /\ UNCHANGED <<login, id, released, status, ops, queue, request>>

CheckSession(t) ==
    /\ At(t, "check")
    /\ Goto(t, IF released \/ id # th[t].id THEN "dec" ELSE th[t].then)
    /\ UNCHANGED <<login, slot, ops, queue, request, calls>>

(* SendPacket, and EnqueSendRequest with it.                               *)
Enqueue(t) ==
    /\ At(t, "enqueue")
    /\ queue' = queue + 1 /\ request' = TRUE
    /\ Goto(t, "dec")
    /\ UNCHANGED <<login, slot, ops, calls>>

(* DisconnectSession *)
StartAbort(t) ==
    /\ At(t, "abort")
    /\ Abort(t, "dec")
    /\ UNCHANGED <<login, slot, ops, queue, request, calls>>

(* RequestSessionAbort: the mark, and CancelIoEx.                          *)
Mark(t) ==
    /\ At(t, "mark")
    /\ status' = "Marked"
    /\ Goto(t, "cancel")
    /\ UNCHANGED <<login, id, released, io, ops, queue, request, calls>>

Cancel(t) ==
    /\ At(t, "cancel")
    /\ recv' = IF recv = "posted" THEN "aborted" ELSE recv
    /\ send' = IF send = "posted" THEN "aborted" ELSE send
    /\ Goto(t, th[t].then)
    /\ UNCHANGED <<login, slot, peer, sendCount, queue, request, calls>>

(* DecrementSessionIoCount, and _DisconnectSession if the count is still 0  *)
(* and nobody else has been there.                                         *)
Decrement(t) ==
    /\ At(t, "dec")
    /\ io' = io - 1
    /\ th' = [th EXCEPT ![t] = IF io' = 0 THEN [Idle EXCEPT !.pc = "close"] ELSE Idle]
    /\ UNCHANGED <<login, id, released, status, ops, queue, request, calls>>

DisconnectSession(t) ==
    /\ At(t, "close")
    /\ th' = [th EXCEPT ![t] = Idle]
    /\ IF io = 0 /\ ~released
       THEN /\ released' = TRUE /\ id' = 0 /\ status' = "Active"
            /\ queue' = 0 /\ peer' = "none"
       ELSE UNCHANGED <<released, id, status, queue, peer>>
    /\ UNCHANGED <<login, io, recv, send, sendCount, request, calls>>

-----------------------------------------------------------------------------
WorkerStep(t) ==
    RecvCompletes(t) \/ SendCompletes(t) \/ SendToAllSessions(t)

Step(t) ==
    \/ RecvPost(t) \/ Received(t) \/ Recheck(t) \/ TrySendPost(t)
    \/ CheckSession(t) \/ StartAbort(t) \/ Enqueue(t)
    \/ Mark(t) \/ Cancel(t) \/ Decrement(t) \/ DisconnectSession(t)

Next ==
    \/ Accept \/ Reset \/ Arrives \/ Sent
    \/ \E t \in Worker : WorkerStep(t)
    \/ \E t \in Caller, i \in 1 .. login, f \in {"enqueue", "abort"} : Call(t, i, f)
    \/ \E t \in LanThread : Step(t)

(* Threads run, and take the completions that are there.                   *)
Fairness ==
    /\ \A t \in LanThread : WF_vars(Step(t))
    /\ \A t \in Worker : SF_vars(RecvCompletes(t)) /\ SF_vars(SendCompletes(t))

Spec == Init /\ [][Next]_vars /\ Fairness

-----------------------------------------------------------------------------
(* Every variable has its type. *)
TypeOK ==
    /\ login \in 0 .. SessionMax /\ id \in 0 .. SessionMax
    /\ released \in BOOLEAN /\ io \in Nat /\ {queue, sendCount} \subseteq 0 .. MaxCalls
    /\ status \in {"Active", "Marked"} /\ peer \in {"none", "open", "reset"}

(* ioCount counts whoever is at work on the slot and what is posted there, *)
(* and a WSASend that failed is counted for ever.                          *)
CountExact ==
    LET working == {t \in LanThread : th[t].pc \notin {"idle", "close"}}
        Out(b) == IF b THEN 1 ELSE 0
    IN  io = Cardinality(working)
             + Out(recv # "none") + Out(send \in {"posted", "done", "aborted", "lost"})

(* A session whose connection is reset is closed, if no WSASend of its       *)
(* failed: also when abort, cancel and the next receive cross.             *)
ResetCloses ==
    \A i \in 1 .. SessionMax :
        (id = i /\ peer = "reset") ~> (id # i \/ send = "lost")

=============================================================================
