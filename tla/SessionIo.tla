------------------------------ MODULE SessionIo ------------------------------
(***************************************************************************)
(* NetWorkLib: the overlapped I/O of one session, from its _OnAccept to its *)
(* _DisconnectSession (NetworkManager/NetWorkManager.cpp).                  *)
(*                                                                         *)
(* At most one WSARecv and one WSASend are posted at a time.  The receive   *)
(* posts its successor when it completes; the send buffer is drained by     *)
(* whoever wins _sendFlag during SendToAllSessions, and the completion puts *)
(* the flag back.  RequestSessionAbort closes nothing: it marks the session *)
(* and cancels what is posted, and counts on the completions to bring       *)
(* ioCount to zero.  A thread that posts an operation on a session already  *)
(* marked must therefore notice by itself.                                  *)
(*                                                                         *)
(* SessionPool is about slots, IDs and who may touch what; here there is    *)
(* one session and one slot, and the steps inside a send, a receive and an  *)
(* abort are apart, because their order against the other threads is what   *)
(* sending and closing depend on.  RequestSessionAbort called by a thread   *)
(* that has a count on the session cannot fail its checks: its own count is *)
(* left out.  _OnMessage runs in the worker; what it calls is in the        *)
(* callers' actions.                                                        *)
(***************************************************************************)
EXTENDS Naturals, Sequences, FiniteSets

CONSTANTS
    Worker,     \* IOCP_WorkerThread
    Caller,     \* threads of the contents, calling into the library
    Acceptor,   \* the accept thread
    Backlog,    \* the 1000 of SendPacket and _SendPost
    Fault,      \* what goes wrong: subset of {"post", "malformed"}
    MaxPackets, \* bound: calls of SendPacket
    MaxAborts   \* bound: calls of DisconnectSession

ASSUME SessionIoAssumption ==
    /\ IsFiniteSet(Worker) /\ IsFiniteSet(Caller)
    /\ Fault \subseteq {"post", "malformed"}
    /\ {Backlog, MaxPackets, MaxAborts} \subseteq Nat
    /\ Worker \cap Caller = {} /\ Acceptor \notin Worker \cup Caller

Thread == Worker \cup Caller \cup {Acceptor}

VARIABLES
    released,   \* the release flag, up once the session has been closed
    io,         \* ioCount
    status,     \* _status
    queue,      \* _sendBuffer, packets numbered in the order they came
    sendFlag,   \* _sendFlag
    sendCount,  \* sendCount: the packets of the send under way
    recv,       \* the receive: "none", "pending", "done" or "failed"
    send,       \* the send, likewise
    flushing,   \* _sendInProgress
    wire,       \* the packets WSASend took, in order
    packets,    \* packets queued so far
    sends,      \* SendPacket calls so far
    aborts,     \* DisconnectSession calls so far
    late,       \* the session was marked after the accept thread was done
    pc,         \* pc[t]: where thread t is
    job,        \* job[t]: the library function it runs
    then        \* then[t]: where it goes on after RequestSessionAbort

buffer == <<queue, sendFlag, sendCount, wire, packets>>
count == <<released, io>>
ops == <<recv, send>>
marks == <<status, late>>
calls == <<sends, aborts>>
vars == <<released, io, status, queue, sendFlag, sendCount, recv, send,
          flushing, wire, packets, calls, late, pc, job, then>>

-----------------------------------------------------------------------------
(* The accept thread has called _OnAccept and still has its count. *)
Init ==
    /\ released = FALSE /\ io = 1
    /\ status = "Active" /\ late = FALSE
    /\ queue = <<>> /\ sendFlag = 0 /\ sendCount = 0
    /\ recv = "none" /\ send = "none"
    /\ flushing = FALSE
    /\ wire = <<>> /\ packets = 0 /\ sends = 0 /\ aborts = 0
    /\ pc = [t \in Thread |-> IF t = Acceptor THEN "postrecv" ELSE "idle"]
    /\ job = [t \in Thread |-> IF t = Acceptor THEN "accept" ELSE "none"]
    /\ then = [t \in Thread |-> "idle"]

Goto(t, place) ==
    /\ pc' = [pc EXCEPT ![t] = place]
    /\ UNCHANGED then

(* RequestSessionAbort, then on to place. *)
Abort(t, place) ==
    /\ pc' = [pc EXCEPT ![t] = "mark"]
    /\ then' = [then EXCEPT ![t] = place]

Start(t, f, place) ==
    /\ pc[t] = "idle"
    /\ job' = [job EXCEPT ![t] = f]
    /\ Goto(t, place)

Finish(t) ==
    /\ job' = [job EXCEPT ![t] = "none"]
    /\ Goto(t, "idle")

(* A thread without a count any more leaves the session; SendToAllSessions *)
(* still has to put its flag back.                                         *)
Leave(t) ==
    IF job[t] = "flush" THEN Goto(t, "endflush") /\ UNCHANGED job ELSE Finish(t)

-----------------------------------------------------------------------------
(* SendPacket and DisconnectSession *)

CallSend(t) ==
    /\ sends < MaxPackets
    /\ sends' = sends + 1
    /\ Start(t, "send", "flag")
    /\ io' = io + 1
    /\ UNCHANGED <<released, marks, buffer, ops, flushing, aborts>>

CallAbort(t) ==
    /\ aborts < MaxAborts
    /\ Start(t, "abort", "flag")
    /\ io' = io + 1
    /\ aborts' = aborts + 1
    /\ UNCHANGED <<released, marks, buffer, ops, flushing, sends>>

CheckFlag_KeepsCount(t) ==
    /\ pc[t] = "flag"
    /\ \/ released /\ Leave(t)
       \/ ~released /\ job[t] = "send" /\ Goto(t, "size") /\ UNCHANGED job
       \/ ~released /\ job[t] = "abort" /\ Abort(t, "release") /\ UNCHANGED job
       \/ ~released /\ job[t] = "flush" /\ Goto(t, "try") /\ UNCHANGED job
    /\ UNCHANGED <<count, marks, buffer, ops, flushing, calls>>

CheckFlag(t) ==
    /\ pc[t] = "flag"
    /\ \/ released /\ Goto(t, "release")
       \/ ~released /\ job[t] = "send" /\ Goto(t, "size")
       \/ ~released /\ job[t] = "abort" /\ Abort(t, "release")
       \/ ~released /\ job[t] = "flush" /\ Goto(t, "try")
    /\ UNCHANGED <<count, marks, buffer, ops, flushing, calls, job>>

(* Too many packets waiting: the session is given up. *)
CheckSize(t) ==
    /\ pc[t] = "size"
    /\ IF Len(queue) > Backlog THEN Abort(t, "release") ELSE Goto(t, "enqueue")
    /\ UNCHANGED <<count, marks, buffer, ops, flushing, calls, job>>

Enqueue(t) ==
    /\ pc[t] = "enqueue"
    /\ packets' = packets + 1
    /\ queue' = Append(queue, packets')
    /\ Goto(t, "release")
    /\ UNCHANGED <<count, marks, sendFlag, sendCount, wire, ops, flushing,
                   calls, job>>

(* RequestSessionAbort: the mark first ... *)
Mark(t) ==
    /\ pc[t] = "mark"
    /\ status' = "MarkForDeletion"
    /\ late' = (late \/ job[Acceptor] = "none")
    /\ Goto(t, "cancel")
    /\ UNCHANGED <<count, buffer, ops, flushing, calls, job>>

(* ... then CancelIoEx, for whatever is posted at that moment. *)
Cancel(t) ==
    /\ pc[t] = "cancel"
    /\ recv' = IF recv = "pending" THEN "failed" ELSE recv
    /\ send' = IF send = "pending" THEN "failed" ELSE send
    /\ pc' = [pc EXCEPT ![t] = then[t]]
    /\ then' = [then EXCEPT ![t] = "idle"]
    /\ job' = IF then[t] = "idle" THEN [job EXCEPT ![t] = "none"] ELSE job
    /\ UNCHANGED <<count, marks, buffer, flushing, calls>>

-----------------------------------------------------------------------------
(* DecrementSessionIoCount *)

Release(t) ==
    /\ pc[t] = "release"
    /\ io' = io - 1
    /\ IF io = 1 THEN Goto(t, "close") /\ UNCHANGED job ELSE Leave(t)
    /\ UNCHANGED <<released, marks, buffer, ops, flushing, calls>>

(* _DisconnectSession and Session::clear, if the compare-and-swap succeeds. *)
TryClose(t) ==
    /\ pc[t] = "close"
    /\ IF ~released /\ io = 0
       THEN /\ released' = TRUE
            /\ status' = "Active"
            /\ queue' = <<>>
            /\ sendCount' = 0
       ELSE UNCHANGED <<released, status, queue, sendCount>>
    /\ Leave(t)
    /\ UNCHANGED <<io, late, sendFlag, wire, packets, ops, flushing, calls>>

-----------------------------------------------------------------------------
(* RecvCompletionRoutine and _RecvPost *)

TakeRecv(t) ==
    /\ Start(t, "recv", "decode")
    /\ recv = "done"
    /\ recv' = "none"
    /\ UNCHANGED <<count, marks, buffer, send, flushing, calls>>

(* The packets are handed to _OnMessage until what is left is incomplete;  *)
(* or the bytes do not decode, the session is aborted, and the worker goes  *)
(* back to the completion port with the count still on the session.         *)
Decode(t) ==
    /\ pc[t] = "decode"
    /\ \/ Goto(t, "repost")
       \/ "malformed" \in Fault /\ Abort(t, "idle")
    /\ UNCHANGED <<count, marks, buffer, ops, flushing, calls, job>>

(* A marked session gets no further receive. *)
Repost(t) ==
    /\ pc[t] = "repost"
    /\ Goto(t, IF status = "Active" THEN "postrecv" ELSE "release")
    /\ UNCHANGED <<count, marks, buffer, ops, flushing, calls, job>>

(* The worker looks at the mark again once its receive is posted; the       *)
(* accept thread does not.                                                  *)
AfterPost_NoLook(t) == "release"
AfterPost(t) == IF t = Acceptor THEN "release" ELSE "recheck"

PostRecv_CountLast(t) ==
    /\ pc[t] = "postrecv"
    /\ recv' = "pending"
    /\ Goto(t, AfterPost(t))
    /\ UNCHANGED <<count, send, marks, buffer, flushing, calls, job>>

(* A receive buffer that is full (its packet is announced longer than it)    *)
(* gets no receive: _RecvPost returns false, which nobody looks at.         *)
PostRecv(t) ==
    /\ pc[t] = "postrecv"
    /\ \/ /\ io' = io + 1
          /\ \/ recv' = "pending" /\ Goto(t, AfterPost(t))
             \/ "post" \in Fault /\ Abort(t, AfterPost(t)) /\ UNCHANGED recv
       \/ /\ t # Acceptor
          /\ Goto(t, AfterPost(t))
          /\ UNCHANGED <<io, recv>>
    /\ UNCHANGED <<released, send, marks, buffer, flushing, calls, job>>

(* The second look at the mark, after a receive was posted and after a send *)
(* completed.                                                               *)
Recheck(t) ==
    /\ pc[t] = "recheck"
    /\ IF status = "MarkForDeletion"
       THEN Abort(t, "release")
       ELSE Goto(t, "release")
    /\ UNCHANGED <<count, marks, buffer, ops, flushing, calls, job>>

(* CheckGQCSError *)
TakeFailed(t, op) ==
    /\ pc[t] = "idle"
    /\ IF op = "recv"
       THEN recv = "failed" /\ recv' = "none" /\ UNCHANGED send
       ELSE send = "failed" /\ send' = "none" /\ UNCHANGED recv
    /\ job' = [job EXCEPT ![t] = "failed"]
    /\ Abort(t, "release")
    /\ UNCHANGED <<count, marks, buffer, flushing, calls>>

-----------------------------------------------------------------------------
(* SendToAllSessions, _TrySendPost and _SendPost *)

(* The worker that finds _sendInProgress up drops the request. *)
Flush(t) ==
    /\ ~flushing
    /\ flushing' = TRUE
    /\ Start(t, "flush", "peek")
    /\ UNCHANGED <<count, marks, buffer, ops, calls>>

Peek(t) ==
    /\ pc[t] = "peek"
    /\ Goto(t, IF released THEN "endflush" ELSE "pin")
    /\ UNCHANGED <<count, marks, buffer, ops, flushing, calls, job>>

Pin(t) ==
    /\ pc[t] = "pin"
    /\ io' = io + 1
    /\ Goto(t, "flag")
    /\ UNCHANGED <<released, marks, buffer, ops, flushing, calls, job>>

Try(t) ==
    /\ pc[t] = "try"
    /\ Goto(t, IF queue # <<>> THEN "take" ELSE "release")
    /\ UNCHANGED <<count, marks, buffer, ops, flushing, calls, job>>

(* InterlockedExchange(&_sendFlag, 1) *)
Take(t) ==
    /\ pc[t] = "take"
    /\ sendFlag' = 1
    /\ Goto(t, IF sendFlag = 0 THEN "again" ELSE "release")
    /\ UNCHANGED <<count, marks, queue, sendCount, wire, packets, ops,
                   flushing, calls, job>>

(* The buffer may have been emptied since Try looked. *)
Again_SizeNotRead(t) ==
    /\ pc[t] = "again"
    /\ Goto(t, "post")
    /\ UNCHANGED <<count, marks, buffer, ops, flushing, calls, job>>

Again(t) ==
    /\ pc[t] = "again"
    /\ IF queue = <<>>
       THEN sendFlag' = 0 /\ Goto(t, "try")
       ELSE UNCHANGED sendFlag /\ Goto(t, "post")
    /\ UNCHANGED <<count, marks, queue, sendCount, wire, packets, ops,
                   flushing, calls, job>>

(* _SendPost counts itself in, then the packets in the buffer; too many of  *)
(* them, and it aborts the session and posts nothing.                       *)
CountPackets(t) ==
    /\ pc[t] = "post"
    /\ io' = io + 1
    /\ sendCount' = sendCount + Len(queue)
    /\ IF sendCount' > Backlog THEN Abort(t, "release") ELSE Goto(t, "wsasend")
    /\ UNCHANGED <<released, marks, queue, sendFlag, wire, packets, ops,
                   flushing, calls, job>>

WSASend(t) ==
    /\ pc[t] = "wsasend"
    /\ \/ /\ send' = "pending"
          /\ wire' = wire \o SubSeq(queue, 1, sendCount)
          /\ Goto(t, "release")
       \/ /\ "post" \in Fault
          /\ Abort(t, "release")
          /\ UNCHANGED <<send, wire>>
    /\ UNCHANGED <<count, marks, queue, sendFlag, sendCount, packets, recv,
                   flushing, calls, job>>

EndFlush(t) ==
    /\ pc[t] = "endflush"
    /\ flushing' = FALSE
    /\ Finish(t)
    /\ UNCHANGED <<count, marks, buffer, ops, calls>>

(* SendCompletionRoutine: the packets of the completed send leave the       *)
(* buffer, then the flag goes down.                                         *)
TakeSent(t) ==
    /\ Start(t, "sent", "dequeue")
    /\ send = "done"
    /\ send' = "none"
    /\ UNCHANGED <<count, marks, buffer, recv, flushing, calls>>

Dequeue_OneOnly(t) ==
    /\ pc[t] = "dequeue"
    /\ queue' = Tail(queue)
    /\ sendCount' = 0
    /\ Goto(t, "flagdown")
    /\ UNCHANGED <<count, marks, sendFlag, wire, packets, ops, flushing,
                   calls, job>>

Dequeue(t) ==
    /\ pc[t] = "dequeue"
    /\ queue' = SubSeq(queue, sendCount + 1, Len(queue))
    /\ sendCount' = 0
    /\ Goto(t, "flagdown")
    /\ UNCHANGED <<count, marks, sendFlag, wire, packets, ops, flushing,
                   calls, job>>

FlagDown_Forgotten(t) ==
    /\ pc[t] = "flagdown"
    /\ Goto(t, "recheck")
    /\ UNCHANGED <<count, marks, buffer, ops, flushing, calls, job>>

FlagDown(t) ==
    /\ pc[t] = "flagdown"
    /\ sendFlag' = 0
    /\ Goto(t, "recheck")
    /\ UNCHANGED <<count, marks, queue, sendCount, wire, packets, ops,
                   flushing, calls, job>>

-----------------------------------------------------------------------------
(* The system: bytes come, the client goes away, a send gets through.      *)

RecvCompletes ==
    /\ recv = "pending"
    /\ recv' \in {"done", "failed"}
    /\ UNCHANGED <<count, marks, buffer, send, flushing, calls,
                   pc, job, then>>

SendCompletes ==
    /\ send = "pending"
    /\ send' \in {"done", "failed"}
    /\ UNCHANGED <<count, marks, buffer, recv, flushing, calls,
                   pc, job, then>>

-----------------------------------------------------------------------------
(* What a thread does once it has begun. *)
Step(t) ==
    \/ CheckFlag(t) \/ CheckSize(t) \/ Enqueue(t) \/ Mark(t) \/ Cancel(t)
    \/ Release(t) \/ TryClose(t)
    \/ Decode(t) \/ Repost(t) \/ PostRecv(t) \/ Recheck(t)
    \/ Peek(t) \/ Pin(t) \/ Try(t) \/ Take(t) \/ Again(t)
    \/ CountPackets(t) \/ WSASend(t) \/ EndFlush(t)
    \/ Dequeue(t) \/ FlagDown(t)

(* What a worker gets from the completion port. *)
Completion(t) ==
    \/ TakeRecv(t)
    \/ TakeSent(t)
    \/ \E op \in {"recv", "send"} : TakeFailed(t, op)

Next ==
    \/ \E t \in Thread : Step(t)
    \/ \E t \in Caller : CallSend(t) \/ CallAbort(t)
    \/ \E t \in Worker : Completion(t) \/ Flush(t)
    \/ RecvCompletes
    \/ SendCompletes

(* Threads run; the completion port is a queue, so no completion waits for  *)
(* ever; the tick thread keeps posting send requests; a posted send ends,   *)
(* since the client reads or the connection breaks.  Nothing is assumed of  *)
(* the receive: a client may stay silent for ever.                          *)
Fairness ==
    /\ \A t \in Thread : WF_vars(Step(t))
    /\ SF_vars(\E t \in Worker : TakeRecv(t))
    /\ SF_vars(\E t \in Worker : TakeSent(t))
    /\ \A op \in {"recv", "send"} : SF_vars(\E t \in Worker : TakeFailed(t, op))
    /\ SF_vars(\E t \in Worker : Flush(t))
    /\ WF_vars(SendCompletes)

Spec == Init /\ [][Next]_vars /\ Fairness

-----------------------------------------------------------------------------
Op == {"none", "pending", "done", "failed"}
Place == {"idle", "flag", "size", "enqueue", "mark", "cancel", "release",
          "close", "decode", "repost", "postrecv", "recheck", "peek", "pin",
          "try", "take", "again", "post", "wsasend", "endflush", "dequeue",
          "flagdown"}

(* Every variable has its type. *)
TypeOK ==
    /\ released \in BOOLEAN /\ flushing \in BOOLEAN /\ late \in BOOLEAN
    /\ io \in Nat
    /\ status \in {"Active", "MarkForDeletion"}
    /\ queue \in Seq(1 .. MaxPackets) /\ wire \in Seq(1 .. MaxPackets)
    /\ sendFlag \in {0, 1} /\ sendCount \in 0 .. MaxPackets
    /\ recv \in Op /\ send \in Op
    /\ packets \in 0 .. MaxPackets /\ sends \in 0 .. MaxPackets
    /\ aborts \in 0 .. MaxAborts
    /\ pc \in [Thread -> Place]
    /\ job \in [Thread -> {"none", "send", "abort", "flush", "recv", "sent",
                           "failed", "accept"}]
    /\ then \in [Thread -> Place]

(* The bytes a client gets are the packets SendPacket queued, each once and *)
(* in order, whatever the flushes, completions and enqueues interleave to.  *)
SentInOrder == \A n \in DOMAIN wire : wire[n] = n

(* The assertions of the send path: _SendPost finds a packet to send, and   *)
(* SendCompletionRoutine finds all those it counted, and the flag up.       *)
NoDebugBreak ==
    \A t \in Thread :
        /\ pc[t] = "post" => queue # <<>>
        /\ pc[t] = "dequeue" => Len(queue) >= sendCount
        /\ pc[t] = "flagdown" => sendFlag = 1

(* Who has a count on the session: a thread at work on it, with one more    *)
(* for the send it is about to post, and each operation of the system whose *)
(* completion nobody has taken yet.                                         *)
Users ==
    {t \in Thread : pc[t] \notin {"idle", "peek", "pin", "close", "endflush"}}
Senders == {t \in Thread : pc[t] = "wsasend"}
Operations == {<<"recv", recv>>, <<"send", send>>} \ ({"recv", "send"} \X {"none"})

(* No count is left behind on a session, so that closing it only waits for  *)
(* those at work on it: ioCount is exactly their number.                    *)
NoCountLeaks ==
    io = Cardinality(Users) + Cardinality(Senders) + Cardinality(Operations)

(* A session marked for deletion after the accept thread was done with it   *)
(* is closed, even if its client never sends another byte.                  *)
AbortCloses == late ~> released

(* Every packet queued is handed to WSASend, unless the session is given up: *)
(* no flush is lost to a flag that stays up, or to a look at the buffer that *)
(* came too early.                                                          *)
PacketsLeave ==
    packets > Len(wire) ~>
        packets = Len(wire) \/ status = "MarkForDeletion" \/ released

==============================================================================
