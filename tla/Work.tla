-------------------------------- MODULE Work --------------------------------
(***************************************************************************)
(* NetWorkLib: the Work threads (Work/Work.cpp) and what of a session they  *)
(* depend on.                                                              *)
(*                                                                         *)
(* A Work is a thread with a queue of jobs (ThreadMessageQ) and a list of   *)
(* the sessions it serves.  A session in a Work's hands carries one ioCount *)
(* for it, taken by CreateSession in whatever thread calls it, and given    *)
(* back when the Work handles the delete job.  RequestSessionAbort leaves a *)
(* delete job with the Work the session's currentWork names at that moment, *)
(* so both the move of a session from one Work to another and every         *)
(* further abort of it meet in these queues.  A second abort, or an abort   *)
(* during a move, makes the Works give back counts that are not theirs;     *)
(* the history variable tangled remembers the slots this happened to.      *)
(*                                                                         *)
(* SessionPool and SessionIo model ioCount, release flag and the posted     *)
(* operations step by step; here a decrement that reaches zero closes the   *)
(* session in the same step, a receive is posted again in the step that     *)
(* takes it, and an abort has two steps: what it does up to reading         *)
(* currentWork, and the job it then queues with its count given back.      *)
(***************************************************************************)
EXTENDS Integers, Sequences, FiniteSets

CONSTANTS
    Slot,       \* slots of the session table
    WorkThread, \* the Works, one thread each
    Worker,     \* IOCP worker threads
    Slot0,      \* the slot of index 0, which the ID 0 names
    NoWork,     \* currentWork == nullptr
    MaxSessions \* bound: sessions accepted

Thread == WorkThread \cup Worker

VARIABLES
    sess,       \* sess[s]: the session in slot s
    nextID,     \* _sessionID
    jobQ,       \* jobQ[s]: packets received and not handled yet
    threadQ,    \* threadQ[w]: ThreadMessageQ
    list,       \* list[w]: threadSessionList
    rest,       \* rest[w]: what the loop of w over the list still visits
    thread,     \* thread[t]: where t is, and with which session
    tangled     \* tangled[s]: the Works may have lost count of slot s

sessions == <<sess, nextID, jobQ, tangled>>
works == <<threadQ, list, rest>>
workVars == <<sess, nextID, jobQ, threadQ, list, rest, thread, tangled>>

-----------------------------------------------------------------------------
(* Sessions.  peer is the client at the other end, unsent the responses in  *)
(* _sendBuffer, recv and send the posted operations, flag is _sendFlag, and *)
(* late the operations posted by sessions that were closed all the same,    *)
(* which fail when the socket is closed.                                   *)
Free == [id |-> 0, io |-> 0, released |-> TRUE, marked |-> FALSE, work |-> NoWork,
         recv |-> "none", send |-> "none", flag |-> FALSE, late |-> 0,
         unsent |-> 0, peer |-> "none"]

Posted(r) == {op \in {"recv", "send"} : r[op] # "none"}

(* DecrementSessionIoCount, n times; the slot of a closed session is free. *)
Dropped(r, n) ==
    IF r.io = n /\ ~r.released
    THEN [Free EXCEPT !.late = r.late + Cardinality(Posted(r))]
    ELSE [r EXCEPT !.io = @ - n]

(* The __debugbreak of a work, and the one of DecrementSessionIoCount for a *)
(* count below zero, end the process.                                      *)
Running ==
    /\ \A w \in WorkThread : thread[w].pc # "break"
    /\ \A s \in Slot : sess[s].io >= 0

Elements(q) == {q[i] : i \in DOMAIN q}

Job(type, s, id) == [type |-> type, slot |-> s, id |-> id]

(* The session's ID, read from the slot again, is 0 once the session is     *)
(* closed, and 0 names the first slot.                                     *)
Named(s) == IF sess[s].id = 0 THEN Slot0 ELSE s

WorkInit ==
    /\ sess = [s \in Slot |-> Free]
    /\ nextID = 1
    /\ jobQ = [s \in Slot |-> <<>>]
    /\ threadQ = [w \in WorkThread |-> <<>>]
    /\ list = [w \in WorkThread |-> <<>>]
    /\ rest = [w \in WorkThread |-> <<>>]
    /\ thread = [t \in Thread |->
                   [pc |-> IF t \in Worker THEN "idle" ELSE "jobs",
                    slot |-> Slot0, id |-> 0, to |-> NoWork]]
    /\ tangled = [s \in Slot |-> FALSE]

(* Session::init, _OnAccept with Work::CreateSession for the first Work,    *)
(* and the first receive.  Nobody else knows the session yet.              *)
Accept(s, w) ==
    /\ sess[s].released
    /\ nextID <= MaxSessions
    /\ nextID' = nextID + 1
    /\ sess' = [sess EXCEPT ![s] =
                  [@ EXCEPT !.id = nextID, !.released = FALSE, !.work = w,
                            !.io = @ + 2, !.recv = "pending", !.flag = FALSE,
                            !.peer = "connected"]]
    /\ threadQ' = [threadQ EXCEPT ![w] = Append(@, Job("create", s, nextID))]
    /\ UNCHANGED <<jobQ, list, rest, thread, tangled>>

(* A packet arrives: RecvCompletionRoutine queues it and posts a receive.  *)
Receive(s, message, peer) ==
    /\ sess[s].recv = "pending"
    /\ jobQ' = [jobQ EXCEPT ![s] = Append(@, message)]
    /\ sess' = [sess EXCEPT ![s].peer = peer]
    /\ UNCHANGED <<nextID, works, thread, tangled>>

(* The client goes away: what is posted fails.                             *)
Failed(op) == IF op = "pending" THEN "failed" ELSE op

Hangup(s) ==
    /\ sess' = [sess EXCEPT ![s].peer = "gone", ![s].recv = Failed(@),
                            ![s].send = Failed(@)]
    /\ UNCHANGED <<nextID, jobQ, works, thread, tangled>>

(* SendToAllSessions, for a session with something to send.                *)
Flush(s) ==
    /\ sess[s].unsent > 0 /\ ~sess[s].flag /\ ~sess[s].released
    /\ sess' = [sess EXCEPT
                  ![s].unsent = 0, ![s].io = @ + 1, ![s].flag = TRUE,
                  ![s].send = IF sess[s].peer = "gone" THEN "failed" ELSE "pending"]
    /\ UNCHANGED <<nextID, jobQ, works, thread, tangled>>

SendCompletes(s) ==
    /\ sess[s].send = "pending"
    /\ sess' = [sess EXCEPT ![s] =
                  Dropped([sess[s] EXCEPT !.send = "none", !.flag = FALSE,
                             !.peer = IF @ = "asking" THEN "playing" ELSE @], 1)]
    /\ UNCHANGED <<nextID, jobQ, works, thread, tangled>>

-----------------------------------------------------------------------------
(* A thread between Work::CreateSession for a second Work and the first     *)
(* one's HandleDeleteSessionMsg.                                           *)
Moving(s) ==
    \E w \in WorkThread :
        thread[w].pc \in {"own", "enqueue", "remove"} /\ thread[w].slot = s

(* RequestSessionAbort by thread t, for the session in slot s, which it has *)
(* as r: the count, the mark, CancelIoEx, currentWork read ...             *)
Aborting(t, s, r) ==
    /\ sess' = [sess EXCEPT ![s] = [r EXCEPT !.io = @ + 1, !.marked = TRUE,
                                             !.recv = Failed(@), !.send = Failed(@)]]
    /\ thread' = [thread EXCEPT ![t] = [@ EXCEPT !.pc = "notify", !.slot = s,
                                                 !.to = sess[s].work]]
    /\ tangled' = [tangled EXCEPT ![s] = @ \/ sess[s].marked \/ Moving(s)]

Counted(t) == IF t \in Worker THEN 2 ELSE 1


(* ... Work::DeleteSession for the ID the slot then has, and the count back; *)
(* a worker gives back the one of the operation whose completion it took,   *)
(* too.                                                                    *)
Notify(t) ==
    LET s == thread[t].slot
        n == Named(s)
        w == thread[t].to
    IN  /\ thread[t].pc = "notify"
        /\ IF w = NoWork THEN UNCHANGED <<threadQ, tangled>>
           ELSE /\ threadQ' = [threadQ EXCEPT ![w] = Append(@, Job("delete", n, sess[n].id))]
                /\ tangled' = [tangled EXCEPT ![n] = @ \/ n # s]
        /\ sess' = [sess EXCEPT ![s] = Dropped(@, Counted(t))]
        /\ thread' = [thread EXCEPT ![t].pc = IF t \in Worker THEN "idle" ELSE "scan"]
        /\ UNCHANGED <<nextID, jobQ, list, rest>>

(* CheckGQCSError.  A failed send leaves _sendFlag up.                     *)
TakeFailed(t, s, op) ==
    /\ thread[t].pc = "idle"
    /\ sess[s][op] = "failed"
    /\ Aborting(t, s, [sess[s] EXCEPT ![op] = "none"])
    /\ UNCHANGED <<nextID, jobQ, works>>

(* The same for an operation whose session is closed: the abort meets the   *)
(* released slot or the next session in it, and so does the decrement.     *)
TakeLate(t, s) ==
    LET r == [sess[s] EXCEPT !.late = @ - 1]
    IN  /\ thread[t].pc = "idle"
        /\ sess[s].late > 0
        /\ IF r.released
           THEN /\ sess' = [sess EXCEPT ![s] = Dropped(r, 1)]
                /\ UNCHANGED <<thread, tangled>>
           ELSE Aborting(t, s, r)
        /\ UNCHANGED <<nextID, jobQ, works>>

-----------------------------------------------------------------------------
(* ThreadWorkFunc: the jobs first, then the packets of each session in the  *)
(* list.                                                                   *)
NextJob(w, type) ==
    /\ thread[w].pc = "jobs"
    /\ threadQ[w] # <<>>
    /\ Head(threadQ[w]).type = type
    /\ threadQ' = [threadQ EXCEPT ![w] = Tail(@)]

StartScan_EmptyList(w) ==
    /\ thread[w].pc = "jobs"
    /\ threadQ[w] = <<>>
    /\ rest' = [rest EXCEPT ![w] = list[w]]
    /\ thread' = [thread EXCEPT ![w].pc = "scan"]
    /\ UNCHANGED <<sessions, threadQ, list>>

StartScan(w) ==
    /\ thread[w].pc = "jobs"
    /\ threadQ[w] = <<>> /\ list[w] # <<>>
    /\ rest' = [rest EXCEPT ![w] = list[w]]
    /\ thread' = [thread EXCEPT ![w].pc = "scan"]
    /\ UNCHANGED <<sessions, threadQ, list>>

(* The session has no packet: on to the next one, saved before the visit,   *)
(* or after the last one to FrameLogic and the wait for the next frame.     *)
NextSession(w) ==
    /\ thread[w].pc = "scan"
    /\ jobQ[Head(rest[w])] = <<>>
    /\ rest' = [rest EXCEPT ![w] = Tail(@)]
    /\ thread' = [thread EXCEPT ![w].pc = IF Len(rest[w]) = 1 THEN "jobs" ELSE "scan"]
    /\ UNCHANGED <<sessions, threadQ, list>>

(* A packet is taken; what HandleMessage does with it is the application's. *)
(* The loop asks the list node for its session again after every packet,    *)
(* even when handling the last one removed the node: what a freed node      *)
(* still holds is the same session.                                        *)
TakePacket(w, message) ==
    /\ thread[w].pc = "scan"
    /\ jobQ[Head(rest[w])] # <<>>
    /\ message = Head(jobQ[Head(rest[w])])
    /\ jobQ' = [jobQ EXCEPT ![Head(rest[w])] = Tail(@)]

(* Work::CreateSession counts the session in, if it is still the one ...    *)
Pinned(s, id) ==
    IF sess[s].id = id THEN [sess EXCEPT ![s].io = @ + 1] ELSE sess

(* ... names itself its Work ...                                           *)
Own(t, w) ==
    /\ thread[t].pc = "own"
    /\ sess' = [sess EXCEPT ![thread[t].slot].work = w]
    /\ thread' = [thread EXCEPT ![t].pc = "enqueue"]
    /\ UNCHANGED <<nextID, jobQ, works, tangled>>

(* ... and queues the create job.                                          *)
EnqueueCreate(t, w) ==
    /\ thread[t].pc = "enqueue"
    /\ threadQ' = [threadQ EXCEPT ![w] = Append(@, Job("create", thread[t].slot, thread[t].id))]
    /\ thread' = [thread EXCEPT ![t].pc = "remove"]
    /\ UNCHANGED <<sessions, list, rest>>

(* list::remove *)
Without(q, s) ==
    LET kept[i \in 0 .. Len(q)] ==
            IF i = 0 THEN <<>>
            ELSE IF q[i] = s THEN kept[i - 1] ELSE Append(kept[i - 1], q[i])
    IN  kept[Len(q)]

(* HandleDeleteSessionMsg, save OnDeleteSession.  It breaks when the list   *)
(* has the session twice; one that is not in the list loses a count too.   *)
Twice(w, s) == \E i, j \in DOMAIN list[w] : i # j /\ list[w][i] = s /\ list[w][j] = s

Remove(w, s) ==
    /\ list' = [list EXCEPT ![w] = Without(@, s)]
    /\ sess' = [sess EXCEPT ![s] = Dropped(@, 1)]

==============================================================================
