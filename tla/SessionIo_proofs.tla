-------------------------- MODULE SessionIo_proofs --------------------------
(***************************************************************************)
(* Proofs about SessionIo: for any number of threads, packets and aborts,   *)
(* with and without operations that fail to post and bytes that do not      *)
(* decode.                                                                  *)
(*                                                                         *)
(* The argument.  ioCount is never below what is owed to it (Covered), so   *)
(* the session is closed with nobody in it and nothing posted (Closed).     *)
(* One thread at a time, or the system, has the send under way (OneSend):   *)
(* only that one takes packets from the buffer, whose numbers therefore go  *)
(* on where the wire ends (Stream).  Likewise for the receive (OneReceive). *)
(***************************************************************************)
EXTENDS SessionIo, FiniteSetTheorems, SequenceTheorems, TLAPS

(* Threads that do the receive, that have the send flag, and that are on    *)
(* the way to queue a packet.                                               *)
Receivers == {t \in Thread : pc[t] \in {"decode", "repost", "postrecv"}}
Drainers == {t \in Thread : pc[t] \in {"again", "post", "wsasend", "dequeue",
                                       "flagdown"}}
Queuers == {t \in Thread : /\ job[t] = "send"
                           /\ pc[t] \in {"flag", "size", "enqueue"}}

Owed == Cardinality(Users) + Cardinality(Senders) + Cardinality(Operations)

Covered == io >= Owed

(* Where a thread is tells what it does; only a worker that got bytes that  *)
(* do not decode goes from its abort straight back to the port.             *)
Shape ==
    \A t \in Thread :
        /\ pc[t] \in {"size", "enqueue"} => job[t] = "send"
        /\ pc[t] \in {"peek", "pin"} => job[t] = "flush"
        /\ pc[t] \in {"mark", "cancel"} =>
            \/ then[t] \in {"release", "recheck"}
            \/ then[t] = "idle" /\ "malformed" \in Fault

(* A packet is queued once for each call. *)
Calls == packets + Cardinality(Queuers) <= sends

OneReceive ==
    /\ \A t, u \in Receivers : t = u
    /\ Receivers # {} => recv = "none"

OneSend ==
    /\ \A t, u \in Drainers : t = u
    /\ Drainers # {} => send = "none" /\ sendFlag = 1
    /\ send # "none" => sendFlag = 1

(* What was closed stays as it is: threads only look at it. *)
Closed ==
    released =>
        /\ \A t \in Thread : pc[t] \in {"idle", "flag", "release", "close",
                                        "peek", "pin", "endflush"}
        /\ recv = "none" /\ send = "none" /\ queue = <<>>

(* How many packets left the buffer. *)
Gone == packets - Len(queue)

(* The buffer goes on where the wire ends, or, with a send under way, where *)
(* the wire ended before it.                                                *)
Stream ==
    /\ Gone >= 0
    /\ \A n \in 1 .. Len(queue) : queue[n] = Gone + n
    /\ SentInOrder
    /\ ~released /\ sendFlag = 0 => sendCount = 0 /\ Len(wire) = Gone
    /\ \A t \in Thread :
        /\ pc[t] \in {"again", "post", "flagdown"} =>
            sendCount = 0 /\ Len(wire) = Gone
        /\ pc[t] = "post" => queue # <<>>
        /\ pc[t] = "wsasend" => sendCount <= Len(queue) /\ Len(wire) = Gone
        /\ pc[t] = "dequeue" =>
            sendCount <= Len(queue) /\ Len(wire) = Gone + sendCount
    /\ send # "none" =>
        sendCount <= Len(queue) /\ Len(wire) = Gone + sendCount

IInv ==
    /\ TypeOK
    /\ Shape
    /\ Calls
    /\ Covered
    /\ OneReceive
    /\ OneSend
    /\ Closed
    /\ Stream

-----------------------------------------------------------------------------
(* Sequences: the front of the buffer, and what is left of it               *)

LEMMA Front ==
    ASSUME NEW S, NEW s \in Seq(S), NEW c \in 0 .. Len(s)
    PROVE  /\ SubSeq(s, 1, c) \in Seq(S)
           /\ Len(SubSeq(s, 1, c)) = c
           /\ \A n \in 1 .. c : SubSeq(s, 1, c)[n] = s[n]
  <1>1. \A n \in 1 .. c : s[n] \in S
    BY ElementOfSeq
  <1>2. /\ SubSeq(s, 1, c) \in Seq(S)
        /\ Len(SubSeq(s, 1, c)) = IF 1 <= c THEN c - 1 + 1 ELSE 0
        /\ \A n \in 1 .. c - 1 + 1 : SubSeq(s, 1, c)[n] = s[1 + n - 1]
    BY <1>1, SubSeqProperties
  <1> QED
    BY <1>2

LEMMA Rest ==
    ASSUME NEW S, NEW s \in Seq(S), NEW c \in 0 .. Len(s)
    PROVE  /\ SubSeq(s, c + 1, Len(s)) \in Seq(S)
           /\ Len(SubSeq(s, c + 1, Len(s))) = Len(s) - c
           /\ \A n \in 1 .. Len(s) - c :
                SubSeq(s, c + 1, Len(s))[n] = s[c + n]
  <1>1. \A n \in c + 1 .. Len(s) : s[n] \in S
    BY ElementOfSeq
  <1>2. /\ SubSeq(s, c + 1, Len(s)) \in Seq(S)
        /\ Len(SubSeq(s, c + 1, Len(s))) =
             IF c + 1 <= Len(s) THEN Len(s) - (c + 1) + 1 ELSE 0
        /\ \A n \in 1 .. Len(s) - (c + 1) + 1 :
             SubSeq(s, c + 1, Len(s))[n] = s[(c + 1) + n - 1]
    BY <1>1, SubSeqProperties
  <1> QED
    BY <1>2

-----------------------------------------------------------------------------
(* What is owed to ioCount                                                  *)

Outside == {"idle", "peek", "pin", "close", "endflush"}

(* What one thread, and one operation, counts for. *)
Weight(place) ==
    (IF place \in Outside THEN 0 ELSE 1) + (IF place = "wsasend" THEN 1 ELSE 0)

Posted(op) == IF op = "none" THEN 0 ELSE 1

LEMMA ThreadFinite == IsFiniteSet(Thread)
  <1>1. IsFiniteSet({Acceptor})
    BY FS_Singleton
  <1>2. IsFiniteSet(Worker \cup Caller)
    BY SessionIoAssumption, FS_Union
  <1> QED
    BY <1>1, <1>2, FS_Union DEF Thread

(* A set of threads from which one thread may come or go. *)
LEMMA OneThread ==
    ASSUME NEW S \in SUBSET Thread, NEW T \in SUBSET Thread, NEW t \in Thread,
           \A u \in Thread \ {t} : u \in T <=> u \in S
    PROVE  /\ Cardinality(S) \in Nat /\ Cardinality(T) \in Nat
           /\ t \in S => Cardinality(S) >= 1
           /\ Cardinality(T) = Cardinality(S) + (IF t \in T THEN 1 ELSE 0)
                                              - (IF t \in S THEN 1 ELSE 0)
  <1>1. IsFiniteSet(S) /\ IsFiniteSet(T)
    BY ThreadFinite, FS_Subset
  <1>2. Cardinality(S) \in Nat /\ Cardinality(T) \in Nat
    BY <1>1, FS_CardinalityType
  <1>3. ASSUME NEW X, IsFiniteSet(X)
        PROVE  /\ Cardinality(X \ {t}) \in Nat
               /\ Cardinality(X) = Cardinality(X \ {t})
                                    + (IF t \in X THEN 1 ELSE 0)
    <2>1. Cardinality(X \ {t}) \in Nat
      BY <1>3, FS_Subset, FS_CardinalityType
    <2>2. CASE t \in X
      <3>1. Cardinality(X \ {t}) = Cardinality(X) - 1
        BY <1>3, <2>2, FS_RemoveElement
      <3> QED
        BY <1>3, <2>1, <2>2, <3>1, FS_CardinalityType
    <2>3. CASE t \notin X
      <3>1. X \ {t} = X
        BY <2>3
      <3> QED
        BY <2>1, <2>3, <3>1
    <2> QED
      BY <2>1, <2>2, <2>3
  <1>4. S \ {t} = T \ {t}
    OBVIOUS
  <1>5. /\ Cardinality(S \ {t}) \in Nat
        /\ Cardinality(S) = Cardinality(S \ {t}) + (IF t \in S THEN 1 ELSE 0)
        /\ Cardinality(T) = Cardinality(S \ {t}) + (IF t \in T THEN 1 ELSE 0)
    BY <1>1, <1>3, <1>4
  <1> QED
    BY <1>2, <1>5

LEMMA OperationsSize ==
    ASSUME NEW r \in Op, NEW s \in Op
    PROVE  Cardinality({<<"recv", r>>, <<"send", s>>}
                         \ ({"recv", "send"} \X {"none"}))
             = Posted(r) + Posted(s)
  <1> DEFINE P == {<<"recv", r>>, <<"send", s>>}
                    \ ({"recv", "send"} \X {"none"})
  <1>1. CASE r = "none" /\ s = "none"
    <2>1. P = {}
      BY <1>1
    <2> QED
      BY <2>1, <1>1, FS_EmptySet DEF Posted
  <1>2. CASE r # "none" /\ s = "none"
    <2>1. P = {<<"recv", r>>}
      BY <1>2
    <2>2. Cardinality({<<"recv", r>>}) = 1
      BY FS_Singleton
    <2> QED
      BY <2>1, <2>2, <1>2 DEF Posted
  <1>3. CASE r = "none" /\ s # "none"
    <2>1. P = {<<"send", s>>}
      BY <1>3
    <2>2. Cardinality({<<"send", s>>}) = 1
      BY FS_Singleton
    <2> QED
      BY <2>1, <2>2, <1>3 DEF Posted
  <1>4. CASE r # "none" /\ s # "none"
    <2>1. P = {<<"recv", r>>} \cup {<<"send", s>>}
      BY <1>4
    <2>2. <<"send", s>> \notin {<<"recv", r>>}
      OBVIOUS
    <2>3. IsFiniteSet({<<"recv", r>>}) /\ Cardinality({<<"recv", r>>}) = 1
      BY FS_Singleton
    <2>4. Cardinality(P) = 1 + 1
      BY ZenonT(40), <2>1, <2>2, <2>3, FS_AddElement
    <2> QED
      BY <2>4, <1>4 DEF Posted
  <1> QED
    BY <1>1, <1>2, <1>3, <1>4

(* A step of one thread changes what is owed by its change of place, and by *)
(* the operations it posts or takes.                                        *)
LEMMA OwedMoves ==
    ASSUME TypeOK, TypeOK', NEW t \in Thread,
           \A u \in Thread \ {t} : pc'[u] = pc[u]
    PROVE  /\ Owed \in Nat /\ Owed' \in Nat
           /\ Owed' = Owed + Weight(pc'[t]) - Weight(pc[t])
                           + Posted(recv') - Posted(recv)
                           + Posted(send') - Posted(send)
  <1>1. /\ Users \in SUBSET Thread /\ Users' \in SUBSET Thread
        /\ Senders \in SUBSET Thread /\ Senders' \in SUBSET Thread
    BY DEF Users, Senders
  <1>2. /\ \A u \in Thread \ {t} : u \in Users' <=> u \in Users
        /\ \A u \in Thread \ {t} : u \in Senders' <=> u \in Senders
    BY DEF Users, Senders
  <1>3. /\ Cardinality(Users) \in Nat /\ Cardinality(Users') \in Nat
        /\ Cardinality(Users') = Cardinality(Users)
             + (IF t \in Users' THEN 1 ELSE 0) - (IF t \in Users THEN 1 ELSE 0)
    BY <1>1, <1>2, OneThread
  <1>4. /\ Cardinality(Senders) \in Nat /\ Cardinality(Senders') \in Nat
        /\ Cardinality(Senders') = Cardinality(Senders)
             + (IF t \in Senders' THEN 1 ELSE 0)
             - (IF t \in Senders THEN 1 ELSE 0)
    BY <1>1, <1>2, OneThread
  <1>5. /\ t \in Users <=> pc[t] \notin Outside
        /\ t \in Users' <=> pc'[t] \notin Outside
        /\ t \in Senders <=> pc[t] = "wsasend"
        /\ t \in Senders' <=> pc'[t] = "wsasend"
    BY DEF Users, Senders, Outside
  <1>6. /\ Cardinality(Operations) = Posted(recv) + Posted(send)
        /\ Cardinality(Operations') = Posted(recv') + Posted(send')
    BY OperationsSize DEF Operations, TypeOK
  <1>7. /\ Posted(recv) \in {0, 1} /\ Posted(recv') \in {0, 1}
        /\ Posted(send) \in {0, 1} /\ Posted(send') \in {0, 1}
    BY DEF Posted
  <1> QED
    BY <1>3, <1>4, <1>5, <1>6, <1>7 DEF Owed, Weight

(* Who is there is counted. *)
LEMMA OwedCovers ==
    ASSUME TypeOK
    PROVE  /\ Owed \in Nat
           /\ \A t \in Thread : pc[t] \notin Outside => Owed >= 1
           /\ recv # "none" \/ send # "none" => Owed >= 1
  <1>1. Users \in SUBSET Thread /\ Senders \in SUBSET Thread
    BY DEF Users, Senders
  <1>2. Cardinality(Users) \in Nat /\ Cardinality(Senders) \in Nat
    BY <1>1, ThreadFinite, FS_Subset, FS_CardinalityType
  <1>3. ASSUME NEW t \in Thread, pc[t] \notin Outside
        PROVE  Cardinality(Users) >= 1
    <2>1. t \in Users
      BY <1>3 DEF Users, Outside
    <2> QED
      BY <2>1, <1>1, OneThread
  <1>4. Cardinality(Operations) = Posted(recv) + Posted(send)
    BY OperationsSize DEF Operations, TypeOK
  <1> QED
    BY <1>2, <1>3, <1>4 DEF Owed, Posted

-----------------------------------------------------------------------------
(* Types *)

LEMMA MoveType ==
    ASSUME TypeOK, NEW t \in Thread, NEW place \in Place,
           Goto(t, place) \/ Abort(t, place)
    PROVE  pc' \in [Thread -> Place] /\ then' \in [Thread -> Place]
  <1>1. "mark" \in Place
    BY DEF Place
  <1> QED
    BY <1>1 DEF Goto, Abort, TypeOK

LEMMA LeaveType ==
    ASSUME TypeOK, NEW t \in Thread, Leave(t)
    PROVE  /\ pc' \in [Thread -> Place] /\ then' \in [Thread -> Place]
           /\ job' \in [Thread -> {"none", "send", "abort", "flush", "recv",
                                  "sent", "failed", "accept"}]
  <1>1. CASE job[t] = "flush"
    BY <1>1 DEF Leave, Goto, TypeOK, Place
  <1>2. CASE job[t] # "flush"
    BY <1>2 DEF Leave, Finish, Goto, TypeOK, Place
  <1> QED
    BY <1>1, <1>2

LEMMA TypesKept ==
    ASSUME IInv, [Next]_vars
    PROVE  TypeOK'
<1>i. /\ TypeOK /\ Shape /\ Calls /\ Covered /\ Stream
      /\ Worker \subseteq Thread /\ Caller \subseteq Thread
      /\ Acceptor \in Thread
      /\ Backlog \in Nat /\ MaxPackets \in Nat /\ MaxAborts \in Nat
  BY SessionIoAssumption DEF IInv, Thread
<1>t. /\ TypeOK /\ Worker \subseteq Thread /\ Caller \subseteq Thread
      /\ MaxPackets \in Nat /\ MaxAborts \in Nat
  BY <1>i
<1>1. ASSUME NEW t \in Thread, CheckFlag(t) PROVE TypeOK'
  BY <1>1, <1>t, MoveType
  DEF CheckFlag, TypeOK, Place, buffer, count, ops, marks, calls
<1>2. ASSUME NEW t \in Thread, CheckSize(t) PROVE TypeOK'
  BY <1>2, <1>t, MoveType
  DEF CheckSize, TypeOK, Place, buffer, count, ops, marks, calls
<1>3. ASSUME NEW t \in Thread, Enqueue(t) PROVE TypeOK'
  <2>1. t \in Queuers /\ Queuers \in SUBSET Thread
    BY <1>3, <1>i DEF Enqueue, Shape, Queuers
  <2>2. Cardinality(Queuers) \in Nat /\ Cardinality(Queuers) >= 1
    BY <2>1, OneThread
  <2>3. packets + 1 \in 1 .. MaxPackets /\ packets' = packets + 1
    <3>1. packets \in Nat /\ sends \in 0 .. MaxPackets
      BY <1>i DEF TypeOK
    <3>2. packets + Cardinality(Queuers) <= sends
      BY <1>i DEF Calls
    <3> QED
      BY <1>3, <1>i, <2>2, <3>1, <3>2 DEF Enqueue
  <2>4. queue' \in Seq(1 .. MaxPackets)
    BY <1>3, <1>i, <2>3, AppendProperties DEF Enqueue, TypeOK
  <2> QED
    BY <1>3, <1>i, <2>3, <2>4 DEF Enqueue, Goto, TypeOK, Place, count, marks,
       ops, calls
<1>4. ASSUME NEW t \in Thread, Mark(t) PROVE TypeOK'
  BY <1>4, <1>t
  DEF Mark, Goto, TypeOK, Place, Op, buffer, count, ops, marks, calls
<1>5. ASSUME NEW t \in Thread, Cancel(t) PROVE TypeOK'
  BY <1>5, <1>t
  DEF Cancel, TypeOK, Place, Op, buffer, count, ops, marks, calls
<1>6. ASSUME NEW t \in Thread, Release(t) PROVE TypeOK'
  <2>1. Owed \in Nat /\ Owed >= 1
    BY <1>6, <1>i, OwedCovers DEF Release, Outside
  <2>2. io - 1 \in Nat
    BY <1>i, <2>1 DEF Covered, TypeOK
  <2>3. /\ pc' \in [Thread -> Place] /\ then' \in [Thread -> Place]
        /\ job' \in [Thread -> {"none", "send", "abort", "flush", "recv",
                               "sent", "failed", "accept"}]
    BY <1>6, <1>i, LeaveType DEF Release, Goto, TypeOK, Place
  <2> QED
    BY <1>6, <1>i, <2>2, <2>3 DEF Release, TypeOK, marks, buffer, ops, calls
<1>7. ASSUME NEW t \in Thread, TryClose(t) PROVE TypeOK'
  <2>1. /\ pc' \in [Thread -> Place] /\ then' \in [Thread -> Place]
        /\ job' \in [Thread -> {"none", "send", "abort", "flush", "recv",
                               "sent", "failed", "accept"}]
    BY <1>7, <1>i, LeaveType DEF TryClose
  <2>2. released' \in BOOLEAN
    BY <1>7, <1>i DEF TryClose, TypeOK
  <2>3. queue' \in Seq(1 .. MaxPackets) /\ sendCount' \in 0 .. MaxPackets
    <3>1. <<>> \in Seq(1 .. MaxPackets) /\ 0 \in 0 .. MaxPackets
      BY <1>i, EmptySeq
    <3> QED
      BY <1>7, <1>i, <3>1 DEF TryClose, TypeOK
  <2> QED
    BY <1>7, <1>i, <2>1, <2>2, <2>3 DEF TryClose, TypeOK, ops, calls
<1>8. ASSUME NEW t \in Thread, Decode(t) PROVE TypeOK'
  BY <1>8, <1>t, MoveType
  DEF Decode, TypeOK, Place, buffer, count, ops, marks, calls
<1>9. ASSUME NEW t \in Thread, Repost(t) PROVE TypeOK'
  BY <1>9, <1>t
  DEF Repost, Goto, TypeOK, Place, Op, buffer, count, ops, marks, calls
<1>10. ASSUME NEW t \in Thread, PostRecv(t) PROVE TypeOK'
  BY <1>10, <1>t, MoveType
  DEF PostRecv, AfterPost, Op, TypeOK, Place, buffer, count, ops, marks, calls
<1>11. ASSUME NEW t \in Thread, Recheck(t) PROVE TypeOK'
  BY <1>11, <1>t, MoveType
  DEF Recheck, TypeOK, Place, buffer, count, ops, marks, calls
<1>12. ASSUME NEW t \in Thread, Peek(t) PROVE TypeOK'
  BY <1>12, <1>t
  DEF Peek, Goto, TypeOK, Place, Op, buffer, count, ops, marks, calls
<1>13. ASSUME NEW t \in Thread, Pin(t) PROVE TypeOK'
  BY <1>13, <1>t
  DEF Pin, Goto, TypeOK, Place, Op, buffer, count, ops, marks, calls
<1>14. ASSUME NEW t \in Thread, Try(t) PROVE TypeOK'
  BY <1>14, <1>t
  DEF Try, Goto, TypeOK, Place, Op, buffer, count, ops, marks, calls
<1>15. ASSUME NEW t \in Thread, Take(t) PROVE TypeOK'
  BY <1>15, <1>t
  DEF Take, Goto, TypeOK, Place, Op, buffer, count, ops, marks, calls
<1>16. ASSUME NEW t \in Thread, Again(t) PROVE TypeOK'
  BY <1>16, <1>t
  DEF Again, Goto, TypeOK, Place, Op, buffer, count, ops, marks, calls
<1>17. ASSUME NEW t \in Thread, CountPackets(t) PROVE TypeOK'
  <2>1. sendCount' \in 0 .. MaxPackets
    <3>1. sendCount = 0 /\ packets - Len(queue) >= 0
      BY <1>17, <1>i DEF CountPackets, Stream, Gone
    <3>2. packets \in 0 .. MaxPackets /\ Len(queue) \in Nat
      BY <1>i DEF TypeOK
    <3>3. sendCount' = sendCount + Len(queue)
      BY <1>17 DEF CountPackets
    <3> QED
      BY <1>i, <3>1, <3>2, <3>3
  <2> QED
    BY <1>17, <1>t, <2>1, MoveType DEF CountPackets, TypeOK, Place, marks, ops,
       calls
<1>18. ASSUME NEW t \in Thread, WSASend(t) PROVE TypeOK'
  <2>1. sendCount \in 0 .. Len(queue)
    BY <1>18, <1>i DEF WSASend, Stream, TypeOK
  <2>2. SubSeq(queue, 1, sendCount) \in Seq(1 .. MaxPackets)
    BY <1>i, <2>1, Front DEF TypeOK
  <2>3. wire' \in Seq(1 .. MaxPackets)
    BY ZenonT(40), <1>18, <1>i, <2>2, ConcatProperties DEF WSASend, TypeOK
  <2> QED
    BY ZenonT(40), <1>18, <1>i, <2>3 DEF WSASend, Goto, Abort, TypeOK, Place,
       Op, marks,
       count, calls
<1>19. ASSUME NEW t \in Thread, EndFlush(t) PROVE TypeOK'
  BY <1>19, <1>t
  DEF EndFlush, Finish, Goto, TypeOK, Place, Op, buffer, count, ops, marks,
      calls
<1>20. ASSUME NEW t \in Thread, Dequeue(t) PROVE TypeOK'
  <2>1. sendCount \in 0 .. Len(queue)
    BY <1>20, <1>i DEF Dequeue, Stream, TypeOK
  <2>2. SubSeq(queue, sendCount + 1, Len(queue)) \in Seq(1 .. MaxPackets)
    BY <1>i, <2>1, Rest DEF TypeOK
  <2> QED
    BY <1>20, <1>i, <2>2, SessionIoAssumption
    DEF Dequeue, Goto, TypeOK, Place, marks, ops, count, calls
<1>21. ASSUME NEW t \in Thread, FlagDown(t) PROVE TypeOK'
  BY <1>21, <1>t
  DEF FlagDown, Goto, TypeOK, Place, Op, buffer, count, ops, marks, calls
<1>22. ASSUME NEW t \in Caller, CallSend(t) PROVE TypeOK'
  BY <1>22, <1>t
  DEF CallSend, Start, Goto, TypeOK, Place, Op, buffer, count, ops, marks,
      calls
<1>23. ASSUME NEW t \in Caller, CallAbort(t) PROVE TypeOK'
  BY <1>23, <1>t
  DEF CallAbort, Start, Goto, TypeOK, Place, Op, buffer, count, ops, marks,
      calls
<1>24. ASSUME NEW t \in Worker, TakeRecv(t) PROVE TypeOK'
  BY <1>24, <1>t
  DEF TakeRecv, Start, Goto, TypeOK, Place, Op, buffer, count, ops, marks,
      calls
<1>25. ASSUME NEW t \in Worker, TakeSent(t) PROVE TypeOK'
  BY <1>25, <1>t
  DEF TakeSent, Start, Goto, TypeOK, Place, Op, buffer, count, ops, marks,
      calls
<1>26. ASSUME NEW t \in Worker, NEW op \in {"recv", "send"},
             TakeFailed(t, op)
      PROVE  TypeOK'
  BY <1>26, <1>t
  DEF TakeFailed, Abort, TypeOK, Place, Op, buffer, count, ops, marks, calls
<1>27. ASSUME NEW t \in Worker, Flush(t) PROVE TypeOK'
  BY <1>27, <1>t
  DEF Flush, Start, Goto, TypeOK, Place, Op, buffer, count, ops, marks, calls
<1>28. ASSUME RecvCompletes PROVE TypeOK'
  BY <1>28, <1>t
  DEF RecvCompletes, TypeOK, Place, Op, buffer, count, ops, marks, calls
<1>29. ASSUME SendCompletes PROVE TypeOK'
  BY <1>29, <1>t
  DEF SendCompletes, TypeOK, Place, Op, buffer, count, ops, marks, calls
<1>30. ASSUME UNCHANGED vars PROVE TypeOK'
  BY <1>30, <1>t DEF vars, TypeOK, Place, Op, buffer, count, ops, marks, calls
<1> QED
  BY <1>1, <1>2, <1>3, <1>4, <1>5, <1>6, <1>7, <1>8, <1>9, <1>10, <1>11,
     <1>12, <1>13, <1>14, <1>15, <1>16, <1>17, <1>18, <1>19, <1>20, <1>21,
     <1>22, <1>23, <1>24, <1>25, <1>26, <1>27, <1>28, <1>29, <1>30
  DEF Next, Step, Completion

-----------------------------------------------------------------------------
(* The balance of ioCount *)

(* A thread gives the session up and leaves a count on it behind: the bytes *)
(* did not decode and the worker goes back to the port; or it has counted a *)
(* receive or a send and posts nothing.                                     *)
LeavesCount(t) ==
    \/ Cancel(t) /\ then[t] = "idle"
    \/ (PostRecv(t) \/ CountPackets(t) \/ WSASend(t)) /\ pc'[t] = "mark"

(* What a step of t changes in what is owed. *)
Change(t) ==
    Weight(pc'[t]) - Weight(pc[t]) + Posted(recv') - Posted(recv)
                                   + Posted(send') - Posted(send)

Balanced(t) ==
    /\ \A u \in Thread \ {t} : pc'[u] = pc[u]
    /\ \/ io' = io + Change(t)
       \/ LeavesCount(t) /\ io' = io + Change(t) + 1

(* The places of a thread that counts once, and a move of one thread. *)
Inside == Place \ (Outside \cup {"wsasend"})

Goes(t, from, to) ==
    /\ pc[t] \in from /\ pc'[t] \in to
    /\ \A u \in Thread \ {t} : pc'[u] = pc[u]

LEMMA Weights ==
    /\ \A p \in Outside : Weight(p) = 0
    /\ \A p \in Inside : Weight(p) = 1
    /\ Weight("wsasend") = 2
    /\ Posted("none") = 0
    /\ \A p \in Op \ {"none"} : Posted(p) = 1
    /\ \A p \in Op : Posted(p) \in {0, 1}
  BY DEF Weight, Posted, Outside, Inside, Op

LEMMA GotoGoes ==
    ASSUME TypeOK, NEW t \in Thread, NEW place,
           Goto(t, place)
    PROVE  Goes(t, {pc[t]}, {place})
  BY DEF Goto, Goes, TypeOK

LEMMA AbortGoes ==
    ASSUME TypeOK, NEW t \in Thread, NEW place, Abort(t, place)
    PROVE  Goes(t, {pc[t]}, {"mark"})
  BY DEF Abort, Goes, TypeOK

LEMMA LeaveGoes ==
    ASSUME TypeOK, NEW t \in Thread, Leave(t)
    PROVE  Goes(t, {pc[t]}, {"endflush", "idle"})
  BY DEF Leave, Finish, Goto, Goes, TypeOK

(* Moves within the session, outside it, in and out. *)
LEMMA MoveBalanced ==
    ASSUME TypeOK, NEW t \in Thread, ops' = ops,
           \/ Goes(t, Inside, Inside) /\ io' = io
           \/ Goes(t, Outside, Outside) /\ io' = io
           \/ Goes(t, Outside, Inside) /\ io' = io + 1
           \/ Goes(t, Inside, Outside) /\ io' = io - 1
    PROVE  Balanced(t)
  <1>1. /\ recv' = recv /\ send' = send
        /\ Posted(recv) \in {0, 1} /\ Posted(send) \in {0, 1}
    BY Weights DEF ops, TypeOK
  <1>2. io \in Nat
    BY DEF TypeOK
  <1>3. Change(t) = Weight(pc'[t]) - Weight(pc[t])
    <2>1. Weight(pc'[t]) \in Int /\ Weight(pc[t]) \in Int
      BY Weights DEF Goes
    <2> QED
      BY <1>1, <2>1 DEF Change
  <1>4. /\ \A u \in Thread \ {t} : pc'[u] = pc[u]
        /\ io' = io + (Weight(pc'[t]) - Weight(pc[t]))
    <2>1. CASE Goes(t, Inside, Inside) /\ io' = io
      <3>1. Weight(pc[t]) = 1 /\ Weight(pc'[t]) = 1
        BY <2>1, Weights DEF Goes
      <3> QED
        BY <1>2, <2>1, <3>1 DEF Goes
    <2>2. CASE Goes(t, Outside, Outside) /\ io' = io
      <3>1. Weight(pc[t]) = 0 /\ Weight(pc'[t]) = 0
        BY <2>2, Weights DEF Goes
      <3> QED
        BY <1>2, <2>2, <3>1 DEF Goes
    <2>3. CASE Goes(t, Outside, Inside) /\ io' = io + 1
      <3>1. Weight(pc[t]) = 0 /\ Weight(pc'[t]) = 1
        BY <2>3, Weights DEF Goes
      <3> QED
        BY <1>2, <2>3, <3>1 DEF Goes
    <2>4. CASE Goes(t, Inside, Outside) /\ io' = io - 1
      <3>1. Weight(pc[t]) = 1 /\ Weight(pc'[t]) = 0
        BY <2>4, Weights DEF Goes
      <3> QED
        BY <1>2, <2>4, <3>1 DEF Goes
    <2> QED
      BY <2>1, <2>2, <2>3, <2>4
  <1>5. io' = io + Change(t)
    BY <1>3, <1>4
  <1> QED
    BY <1>4, <1>5 DEF Balanced

(* Every step changes ioCount by what it changes in what is owed, or leaves *)
(* a count behind.                                                          *)
LEMMA StepBalanced ==
    ASSUME IInv, [Next]_vars
    PROVE  \E t \in Thread : Balanced(t)
<1>t. TypeOK /\ Shape /\ OneReceive /\ OneSend
  BY DEF IInv
<1>w. /\ Worker \subseteq Thread /\ Caller \subseteq Thread
      /\ Acceptor \in Thread
  BY DEF Thread
<1>1. ASSUME NEW t \in Thread,
             CheckFlag(t) \/ CheckSize(t) \/ Decode(t) \/ Recheck(t)
      PROVE  Balanced(t)
  <2>1. Goes(t, Inside, Inside)
    <3>1. \/ \E p \in {"release", "size", "try", "enqueue", "repost"} :
                Goto(t, p)
          \/ \E p \in Place : Abort(t, p)
      BY <1>1 DEF CheckFlag, CheckSize, Decode, Recheck, Place
    <3>2. pc[t] \in {"flag", "size", "decode", "recheck"}
      BY <1>1 DEF CheckFlag, CheckSize, Decode, Recheck
    <3> QED
      BY <1>t, <3>1, <3>2, GotoGoes, AbortGoes
      DEF Goes, Inside, Outside, Place
  <2>2. io' = io /\ ops' = ops
    BY <1>1 DEF CheckFlag, CheckSize, Decode, Recheck, count
  <2> QED
    BY <1>t, <2>1, <2>2, MoveBalanced
<1>2. ASSUME NEW t \in Thread,
             \/ Enqueue(t) \/ Mark(t) \/ Repost(t) \/ Try(t) \/ Take(t)
             \/ Again(t) \/ Dequeue(t) \/ FlagDown(t)
      PROVE  Balanced(t)
  <2>1. Goes(t, Inside, Inside)
    <3>1. \E p \in {"release", "cancel", "postrecv", "take", "again", "try",
                    "post", "flagdown", "recheck"} : Goto(t, p)
      BY <1>2 DEF Enqueue, Mark, Repost, Try, Take, Again, Dequeue, FlagDown
    <3>2. pc[t] \in {"enqueue", "mark", "repost", "try", "take", "again",
                     "dequeue", "flagdown"}
      BY <1>2 DEF Enqueue, Mark, Repost, Try, Take, Again, Dequeue, FlagDown
    <3> QED
      BY <1>t, <3>1, <3>2, GotoGoes DEF Goes, Inside, Outside, Place
  <2>2. io' = io /\ ops' = ops
    BY <1>2 DEF Enqueue, Mark, Repost, Try, Take, Again, Dequeue, FlagDown,
       count
  <2> QED
    BY <1>t, <2>1, <2>2, MoveBalanced
<1>3. ASSUME NEW t \in Thread,
             TryClose(t) \/ Peek(t) \/ EndFlush(t) \/ Flush(t)
      PROVE  Balanced(t)
  <2>1. Goes(t, Outside, Outside)
    <3>1. \/ \E p \in {"endflush", "pin", "peek", "idle"} : Goto(t, p)
          \/ Leave(t)
      BY <1>3 DEF TryClose, Peek, EndFlush, Flush, Start, Finish
    <3>2. pc[t] \in Outside
      BY <1>3 DEF TryClose, Peek, EndFlush, Flush, Start, Outside
    <3> QED
      BY <1>t, <3>1, <3>2, GotoGoes, LeaveGoes DEF Goes, Outside
  <2>2. io' = io /\ ops' = ops
    BY <1>3 DEF TryClose, Peek, EndFlush, Flush, count
  <2> QED
    BY <1>t, <2>1, <2>2, MoveBalanced
<1>4. ASSUME NEW t \in Thread, CallSend(t) \/ CallAbort(t) \/ Pin(t)
      PROVE  Balanced(t)
  <2>1. Goes(t, Outside, Inside)
    <3>1. Goto(t, "flag") /\ pc[t] \in {"idle", "pin"}
      BY <1>4 DEF CallSend, CallAbort, Pin, Start
    <3> QED
      BY <1>t, <3>1, GotoGoes DEF Goes, Inside, Outside, Place
  <2>2. io' = io + 1 /\ ops' = ops
    BY <1>4 DEF CallSend, CallAbort, Pin
  <2> QED
    BY <1>t, <2>1, <2>2, MoveBalanced
<1>5. ASSUME NEW t \in Thread, Release(t) PROVE Balanced(t)
  <2>1. Goes(t, Inside, Outside)
    <3>1. pc[t] = "release" /\ (Goto(t, "close") \/ Leave(t))
      BY <1>5 DEF Release
    <3> QED
      BY <1>t, <3>1, GotoGoes, LeaveGoes DEF Goes, Inside, Outside, Place
  <2>2. io' = io - 1 /\ ops' = ops
    BY <1>5 DEF Release
  <2> QED
    BY <1>t, <2>1, <2>2, MoveBalanced
<1>6. ASSUME NEW t \in Thread, Cancel(t) PROVE Balanced(t)
  <2>1. /\ pc[t] = "cancel" /\ pc'[t] = then[t]
        /\ \A u \in Thread \ {t} : pc'[u] = pc[u]
        /\ then[t] \in {"idle", "release", "recheck"}
    BY <1>6, <1>t DEF Cancel, Shape, TypeOK
  <2>2. /\ Posted(recv') = Posted(recv) /\ Posted(send') = Posted(send)
        /\ Posted(recv) \in {0, 1} /\ Posted(send) \in {0, 1}
    BY <1>6 DEF Cancel, Posted
  <2>3. io' = io /\ io \in Nat
    BY <1>6, <1>t DEF Cancel, count, TypeOK
  <2>4. CASE then[t] = "idle"
    <3>1. Weight(pc[t]) = 1 /\ Weight(pc'[t]) = 0 /\ LeavesCount(t)
      BY <1>6, <2>1, <2>4, Weights DEF Inside, Outside, Place, LeavesCount
    <3> QED
      BY <2>1, <2>2, <2>3, <3>1 DEF Balanced, Change
  <2>5. CASE then[t] # "idle"
    <3>1. Weight(pc[t]) = 1 /\ Weight(pc'[t]) = 1
      BY <2>1, <2>5, Weights DEF Inside, Outside, Place
    <3> QED
      BY <2>1, <2>2, <2>3, <3>1 DEF Balanced, Change
  <2> QED
    BY <2>4, <2>5
<1>7. ASSUME NEW t \in Thread, PostRecv(t) PROVE Balanced(t)
  <2>1. /\ Posted(recv) = 0 /\ Posted(send') = Posted(send)
        /\ Posted(send) \in {0, 1} /\ io \in Nat
        /\ pc[t] = "postrecv" /\ Weight(pc[t]) = 1
    <3>1. pc[t] = "postrecv" /\ recv = "none"
      BY <1>7, <1>t DEF PostRecv, OneReceive, Receivers
    <3> QED
      BY <1>7, <1>t, <3>1, Weights
      DEF PostRecv, TypeOK, Inside, Outside, Place
  <2>2. CASE io' = io + 1 /\ recv' = "pending" /\ Goto(t, AfterPost(t))
    <3>1. /\ \A u \in Thread \ {t} : pc'[u] = pc[u]
          /\ pc'[t] \in {"release", "recheck"}
      BY <1>t, <2>2, GotoGoes DEF Goes, AfterPost
    <3>2. Weight(pc'[t]) = 1 /\ Posted(recv') = 1
      BY <2>2, <3>1, Weights DEF Inside, Outside, Place, Op
    <3> QED
      BY <2>1, <2>2, <3>1, <3>2 DEF Balanced, Change
  <2>3. CASE io' = io + 1 /\ Abort(t, AfterPost(t)) /\ recv' = recv
    <3>1. /\ \A u \in Thread \ {t} : pc'[u] = pc[u]
          /\ pc'[t] = "mark" /\ LeavesCount(t)
      BY <1>7, <1>t, <2>1, <2>3, AbortGoes DEF Goes, LeavesCount
    <3>2. Weight(pc'[t]) = 1 /\ Posted(recv') = 0
      BY <2>1, <2>3, <3>1, Weights DEF Inside, Outside, Place
    <3> QED
      BY <2>1, <2>3, <3>1, <3>2 DEF Balanced, Change
  <2>4. CASE Goto(t, AfterPost(t)) /\ UNCHANGED <<io, recv>>
    <3>1. /\ \A u \in Thread \ {t} : pc'[u] = pc[u]
          /\ pc'[t] \in {"release", "recheck"}
      BY <1>t, <2>4, GotoGoes DEF Goes, AfterPost
    <3>2. Weight(pc'[t]) = 1 /\ Posted(recv') = 0
      BY <2>1, <2>4, <3>1, Weights DEF Inside, Outside, Place, Op
    <3> QED
      BY <2>1, <2>4, <3>1, <3>2 DEF Balanced, Change
  <2> QED
    BY <1>7, <2>2, <2>3, <2>4 DEF PostRecv
<1>8. ASSUME NEW t \in Thread, CountPackets(t) PROVE Balanced(t)
  <2>1. /\ Posted(recv') = Posted(recv) /\ Posted(send') = Posted(send)
        /\ Posted(send) \in {0, 1} /\ Posted(recv) \in {0, 1}
        /\ io' = io + 1 /\ io \in Nat
        /\ pc[t] = "post" /\ Weight(pc[t]) = 1
    BY <1>8, <1>t, Weights
    DEF CountPackets, TypeOK, Inside, Outside, Place, ops
  <2>2. CASE Goto(t, "wsasend")
    <3>1. /\ \A u \in Thread \ {t} : pc'[u] = pc[u]
          /\ pc'[t] = "wsasend"
      BY <1>t, <2>2, GotoGoes DEF Goes
    <3>2. Weight(pc'[t]) = 2
      BY <3>1, Weights
    <3> QED
      BY <2>1, <3>1, <3>2 DEF Balanced, Change
  <2>3. CASE Abort(t, "release")
    <3>1. /\ \A u \in Thread \ {t} : pc'[u] = pc[u]
          /\ pc'[t] = "mark" /\ LeavesCount(t)
      BY <1>8, <1>t, <2>1, <2>3, AbortGoes DEF Goes, LeavesCount
    <3>2. Weight(pc'[t]) = 1
      BY <3>1, Weights DEF Inside, Outside, Place
    <3> QED
      BY <2>1, <3>1, <3>2 DEF Balanced, Change
  <2> QED
    BY <1>8, <2>2, <2>3 DEF CountPackets
<1>9. ASSUME NEW t \in Thread, WSASend(t) PROVE Balanced(t)
  <2>1. /\ Posted(send) = 0 /\ Posted(recv') = Posted(recv)
        /\ Posted(recv) \in {0, 1} /\ io' = io /\ io \in Nat
        /\ pc[t] = "wsasend" /\ Weight(pc[t]) = 2
    <3>1. pc[t] = "wsasend" /\ send = "none"
      BY <1>9, <1>t DEF WSASend, OneSend, Drainers
    <3> QED
      BY <1>9, <1>t, <3>1, Weights DEF WSASend, TypeOK, count
  <2>2. CASE send' = "pending" /\ Goto(t, "release")
    <3>1. /\ \A u \in Thread \ {t} : pc'[u] = pc[u]
          /\ pc'[t] = "release"
      BY <1>t, <2>2, GotoGoes DEF Goes
    <3>2. Weight(pc'[t]) = 1 /\ Posted(send') = 1
      BY <2>2, <3>1, Weights DEF Inside, Outside, Place, Op
    <3> QED
      BY <2>1, <3>1, <3>2 DEF Balanced, Change
  <2>3. CASE Abort(t, "release") /\ send' = send
    <3>1. /\ \A u \in Thread \ {t} : pc'[u] = pc[u]
          /\ pc'[t] = "mark" /\ LeavesCount(t)
      BY <1>9, <1>t, <2>1, <2>3, AbortGoes DEF Goes, LeavesCount
    <3>2. Weight(pc'[t]) = 1 /\ Posted(send') = 0
      BY <2>1, <2>3, <3>1, Weights DEF Inside, Outside, Place
    <3> QED
      BY <2>1, <3>1, <3>2 DEF Balanced, Change
  <2> QED
    BY <1>9, <2>2, <2>3 DEF WSASend
<1>10. ASSUME NEW t \in Worker, Completion(t) PROVE Balanced(t)
  <2>1. /\ pc[t] = "idle" /\ pc'[t] \in {"decode", "dequeue", "mark"}
        /\ \A u \in Thread \ {t} : pc'[u] = pc[u]
    <3>1. \/ Goto(t, "decode") \/ Goto(t, "dequeue") \/ Abort(t, "release")
      BY <1>10 DEF Completion, TakeRecv, TakeSent, TakeFailed, Start
    <3>2. pc[t] = "idle"
      BY <1>10 DEF Completion, TakeRecv, TakeSent, TakeFailed, Start
    <3> QED
      BY <1>t, <1>w, <3>1, <3>2, GotoGoes, AbortGoes DEF Goes
  <2>2. Weight(pc[t]) = 0 /\ Weight(pc'[t]) = 1
    BY <2>1, Weights DEF Inside, Outside, Place
  <2>3. io' = io /\ io \in Nat
    BY <1>10, <1>t DEF Completion, TakeRecv, TakeSent, TakeFailed, count,
       TypeOK
  <2>4. /\ Posted(recv) \in {0, 1} /\ Posted(send) \in {0, 1}
        /\ \/ /\ Posted(recv) = 1 /\ Posted(recv') = 0
              /\ Posted(send') = Posted(send)
           \/ /\ Posted(send) = 1 /\ Posted(send') = 0
              /\ Posted(recv') = Posted(recv)
    BY <1>10 DEF Completion, TakeRecv, TakeSent, TakeFailed, Posted
  <2> QED
    BY <2>1, <2>2, <2>3, <2>4 DEF Balanced, Change
<1>11. ASSUME RecvCompletes \/ SendCompletes \/ UNCHANGED vars
       PROVE  Balanced(Acceptor)
  <2>1. pc' = pc /\ io' = io /\ io \in Nat
    BY <1>11, <1>t DEF RecvCompletes, SendCompletes, vars, count, TypeOK
  <2>2. /\ Posted(recv') = Posted(recv) /\ Posted(send') = Posted(send)
        /\ Posted(recv) \in {0, 1} /\ Posted(send) \in {0, 1}
    BY <1>11 DEF RecvCompletes, SendCompletes, vars, Posted
  <2>3. Weight(pc[Acceptor]) \in {0, 1, 2}
    BY DEF Weight
  <2> QED
    BY <2>1, <2>2, <2>3 DEF Balanced, Change
<1>12. ASSUME NEW t \in Thread, Step(t) PROVE Balanced(t)
  BY <1>12, <1>1, <1>2, <1>3, <1>4, <1>5, <1>6, <1>7, <1>8, <1>9 DEF Step
<1>13. ASSUME NEW t \in Caller, CallSend(t) \/ CallAbort(t)
       PROVE  Balanced(t)
  BY <1>13, <1>w, <1>4
<1>14. ASSUME NEW t \in Worker, Completion(t) \/ Flush(t)
       PROVE  Balanced(t)
  BY <1>14, <1>w, <1>3, <1>10
<1> QED
  BY <1>w, <1>11, <1>12, <1>13, <1>14 DEF Next

LEMMA OwedNumbers ==
    ASSUME IInv, [Next]_vars
    PROVE  /\ Owed \in Nat /\ Owed' \in Nat
           /\ io \in Nat /\ io' \in Nat
  <1>1. TypeOK /\ TypeOK'
    BY TypesKept DEF IInv
  <1>2. PICK t \in Thread : Balanced(t)
    BY StepBalanced
  <1> QED
    BY <1>1, <1>2, OwedMoves DEF Balanced, TypeOK

(* What is owed is covered, at first and for good. *)
LEMMA CoveredKept ==
    ASSUME IInv, [Next]_vars
    PROVE  /\ Covered'
           /\ \/ io' - Owed' = io - Owed
              \/ \E t \in Thread : LeavesCount(t)
  <1>1. TypeOK /\ TypeOK' /\ Covered
    BY TypesKept DEF IInv
  <1>2. PICK t \in Thread : Balanced(t)
    BY StepBalanced
  <1>3. /\ Owed \in Nat /\ Owed' \in Nat
        /\ Owed' = Owed + Change(t)
    <2>1. /\ Owed \in Nat /\ Owed' \in Nat
          /\ Owed' = Owed + Weight(pc'[t]) - Weight(pc[t])
                          + Posted(recv') - Posted(recv)
                          + Posted(send') - Posted(send)
      BY <1>1, <1>2, OwedMoves DEF Balanced
    <2>2. /\ Weight(pc'[t]) \in {0, 1, 2} /\ Weight(pc[t]) \in {0, 1, 2}
          /\ Posted(recv') \in {0, 1} /\ Posted(recv) \in {0, 1}
          /\ Posted(send') \in {0, 1} /\ Posted(send) \in {0, 1}
      BY DEF Weight, Posted
    <2> QED
      BY <2>1, <2>2 DEF Change
  <1>4. Change(t) \in Int
    BY DEF Change, Weight, Posted
  <1>5. io \in Nat /\ io >= Owed
    BY <1>1 DEF TypeOK, Covered
  <1>6. CASE io' = io + Change(t)
    BY <1>3, <1>4, <1>5, <1>6 DEF Covered
  <1>7. CASE LeavesCount(t) /\ io' = io + Change(t) + 1
    BY <1>3, <1>4, <1>5, <1>7 DEF Covered
  <1> QED
    BY <1>2, <1>6, <1>7 DEF Balanced


-----------------------------------------------------------------------------
(* Where threads are, and who does the receive and the send *)

LEMMA ShapeKept ==
    ASSUME IInv, [Next]_vars
    PROVE  Shape'
<1>t. /\ TypeOK /\ Shape /\ Worker \subseteq Thread /\ Caller \subseteq Thread
  BY DEF IInv, Thread
<1>1. ASSUME NEW t \in Thread,
             CheckFlag(t) \/ CheckSize(t) \/ Decode(t) \/ Recheck(t)
      PROVE  Shape'
  BY <1>1, <1>t
  DEF CheckFlag, Goto, Abort, CheckSize, Decode, Recheck, Leave, Finish,
      Start, AfterPost, TypeOK, Shape
<1>2. ASSUME NEW t \in Thread, Enqueue(t) \/ Mark(t) \/ Repost(t) \/ Try(t)
      PROVE  Shape'
  BY <1>2, <1>t
  DEF Enqueue, Goto, Mark, Repost, Try, Leave, Finish, Start, Abort,
      AfterPost, TypeOK, Shape
<1>3. ASSUME NEW t \in Thread,
             Take(t) \/ Again(t) \/ Dequeue(t) \/ FlagDown(t)
      PROVE  Shape'
  BY <1>3, <1>t
  DEF Take, Goto, Again, Dequeue, FlagDown, Leave, Finish, Start, Abort,
      AfterPost, TypeOK, Shape
<1>4. ASSUME NEW t \in Thread, Release(t) \/ TryClose(t) \/ EndFlush(t)
      PROVE  Shape'
  BY <1>4, <1>t
  DEF Release, Goto, Leave, Finish, TryClose, EndFlush, Start, Abort,
      AfterPost, TypeOK, Shape
<1>5. ASSUME NEW t \in Thread, PostRecv(t) \/ CountPackets(t) \/ WSASend(t)
      PROVE  Shape'
  BY <1>5, <1>t
  DEF PostRecv, Goto, Abort, AfterPost, CountPackets, WSASend, Leave, Finish,
      Start, TypeOK, Shape
<1>6. ASSUME NEW t \in Thread, Peek(t) \/ Pin(t) PROVE Shape'
  BY <1>6, <1>t
  DEF Peek, Goto, Pin, Leave, Finish, Start, Abort, AfterPost, TypeOK, Shape
<1>7. ASSUME NEW t \in Caller, CallSend(t) \/ CallAbort(t) PROVE Shape'
  BY <1>7, <1>t
  DEF CallSend, Start, Goto, CallAbort, Leave, Finish, Abort, AfterPost,
      TypeOK, Shape
<1>8. ASSUME NEW t \in Worker, TakeRecv(t) \/ TakeSent(t) \/ Flush(t)
      PROVE  Shape'
  BY <1>8, <1>t
  DEF TakeRecv, Start, Goto, TakeSent, Flush, Leave, Finish, Abort, AfterPost,
      TypeOK, Shape
<1>9. ASSUME RecvCompletes \/ SendCompletes \/ UNCHANGED vars PROVE Shape'
  BY <1>9, <1>t
  DEF RecvCompletes, SendCompletes, vars, Leave, Finish, Start, Goto, Abort,
      AfterPost, TypeOK, Shape
<1>10. ASSUME NEW t \in Thread, Cancel(t) PROVE Shape'
  BY <1>10, <1>t
  DEF Cancel, Leave, Finish, Start, Goto, Abort, AfterPost, TypeOK, Shape
<1>11. ASSUME NEW t \in Worker, NEW op \in {"recv", "send"},
             TakeFailed(t, op)
      PROVE  Shape'
  BY <1>11, <1>t
  DEF TakeFailed, Abort, Leave, Finish, Start, Goto, AfterPost, TypeOK, Shape
<1> QED
  BY <1>1, <1>2, <1>3, <1>4, <1>5, <1>6, <1>7, <1>8, <1>9, <1>10, <1>11
  DEF Next, Step, Completion

LEMMA ReceiveKept ==
    ASSUME IInv, [Next]_vars
    PROVE  OneReceive'
<1>t. /\ TypeOK /\ Shape /\ OneReceive
      /\ Worker \subseteq Thread /\ Caller \subseteq Thread
  BY DEF IInv, Thread
<1>1. ASSUME NEW t \in Thread,
             CheckFlag(t) \/ CheckSize(t) \/ Decode(t) \/ Recheck(t)
      PROVE  OneReceive'
  BY <1>1, <1>t
  DEF CheckFlag, Goto, Abort, CheckSize, Decode, Recheck, Leave, Finish,
      Start, AfterPost, TypeOK, Receivers, OneReceive, ops
<1>2. ASSUME NEW t \in Thread, Enqueue(t) \/ Mark(t) \/ Repost(t) \/ Try(t)
      PROVE  OneReceive'
  BY <1>2, <1>t
  DEF Enqueue, Goto, Mark, Repost, Try, Leave, Finish, Start, Abort,
      AfterPost, TypeOK, Receivers, OneReceive, ops
<1>3. ASSUME NEW t \in Thread,
             Take(t) \/ Again(t) \/ Dequeue(t) \/ FlagDown(t)
      PROVE  OneReceive'
  BY <1>3, <1>t
  DEF Take, Goto, Again, Dequeue, FlagDown, Leave, Finish, Start, Abort,
      AfterPost, TypeOK, Receivers, OneReceive, ops
<1>4. ASSUME NEW t \in Thread, Release(t) \/ TryClose(t) \/ EndFlush(t)
      PROVE  OneReceive'
  BY <1>4, <1>t
  DEF Release, Goto, Leave, Finish, TryClose, EndFlush, Start, Abort,
      AfterPost, TypeOK, Receivers, OneReceive, ops
<1>5. ASSUME NEW t \in Thread, PostRecv(t) \/ CountPackets(t) \/ WSASend(t)
      PROVE  OneReceive'
  BY SMTT(30), <1>5, <1>t
  DEF PostRecv, Goto, Abort, AfterPost, CountPackets, WSASend, Leave, Finish,
      Start, TypeOK, Receivers, OneReceive, ops
<1>6. ASSUME NEW t \in Thread, Peek(t) \/ Pin(t) PROVE OneReceive'
  BY <1>6, <1>t
  DEF Peek, Goto, Pin, Leave, Finish, Start, Abort, AfterPost, TypeOK,
      Receivers, OneReceive, ops
<1>7. ASSUME NEW t \in Caller, CallSend(t) \/ CallAbort(t) PROVE OneReceive'
  BY <1>7, <1>t
  DEF CallSend, Start, Goto, CallAbort, Leave, Finish, Abort, AfterPost,
      TypeOK, Receivers, OneReceive, ops
<1>8. ASSUME NEW t \in Worker, TakeRecv(t) \/ TakeSent(t) \/ Flush(t)
      PROVE  OneReceive'
  BY <1>8, <1>t
  DEF TakeRecv, Start, Goto, TakeSent, Flush, Leave, Finish, Abort, AfterPost,
      TypeOK, Receivers, OneReceive, ops
<1>9. ASSUME RecvCompletes \/ SendCompletes \/ UNCHANGED vars
      PROVE  OneReceive'
  BY <1>9, <1>t
  DEF RecvCompletes, SendCompletes, vars, Leave, Finish, Start, Goto, Abort,
      AfterPost, TypeOK, Receivers, OneReceive, ops
<1>10. ASSUME NEW t \in Thread, Cancel(t) PROVE OneReceive'
  <2>1. pc'[t] = then[t] /\ then[t] \in {"idle", "release", "recheck"}
    BY <1>10, <1>t DEF Cancel, Shape, TypeOK
  <2>2. \A u \in Thread \ {t} : pc'[u] = pc[u]
    BY <1>10, <1>t DEF Cancel, TypeOK
  <2> QED
    BY <1>10, <1>t, <2>1, <2>2 DEF Cancel, OneReceive, Receivers
<1>11. ASSUME NEW t \in Worker, NEW op \in {"recv", "send"},
             TakeFailed(t, op)
      PROVE  OneReceive'
  BY <1>11, <1>t
  DEF TakeFailed, Abort, Leave, Finish, Start, Goto, AfterPost, TypeOK,
      Receivers, OneReceive, ops
<1> QED
  BY <1>1, <1>2, <1>3, <1>4, <1>5, <1>6, <1>7, <1>8, <1>9, <1>10, <1>11
  DEF Next, Step, Completion

LEMMA SendKept ==
    ASSUME IInv, [Next]_vars
    PROVE  OneSend'
<1>t. /\ TypeOK /\ Shape /\ OneSend
      /\ Worker \subseteq Thread /\ Caller \subseteq Thread
  BY DEF IInv, Thread
<1>1. ASSUME NEW t \in Thread,
             CheckFlag(t) \/ CheckSize(t) \/ Decode(t) \/ Recheck(t)
      PROVE  OneSend'
  BY <1>1, <1>t
  DEF CheckFlag, Goto, Abort, CheckSize, Decode, Recheck, Leave, Finish,
      Start, AfterPost, TypeOK, Drainers, OneSend, ops, buffer
<1>2. ASSUME NEW t \in Thread, Enqueue(t) \/ Mark(t) \/ Repost(t) \/ Try(t)
      PROVE  OneSend'
  BY <1>2, <1>t
  DEF Enqueue, Goto, Mark, Repost, Try, Leave, Finish, Start, Abort,
      AfterPost, TypeOK, Drainers, OneSend, ops, buffer
<1>3. ASSUME NEW t \in Thread,
             Take(t) \/ Again(t) \/ Dequeue(t) \/ FlagDown(t)
      PROVE  OneSend'
  BY <1>3, <1>t
  DEF Take, Goto, Again, Dequeue, FlagDown, Leave, Finish, Start, Abort,
      AfterPost, TypeOK, Drainers, OneSend, ops, buffer
<1>4. ASSUME NEW t \in Thread, Release(t) \/ TryClose(t) \/ EndFlush(t)
      PROVE  OneSend'
  BY <1>4, <1>t
  DEF Release, Goto, Leave, Finish, TryClose, EndFlush, Start, Abort,
      AfterPost, TypeOK, Drainers, OneSend, ops, buffer
<1>5. ASSUME NEW t \in Thread, PostRecv(t) \/ CountPackets(t) \/ WSASend(t)
      PROVE  OneSend'
  BY <1>5, <1>t
  DEF PostRecv, Goto, Abort, AfterPost, CountPackets, WSASend, Leave, Finish,
      Start, TypeOK, Drainers, OneSend, ops, buffer
<1>6. ASSUME NEW t \in Thread, Peek(t) \/ Pin(t) PROVE OneSend'
  BY <1>6, <1>t
  DEF Peek, Goto, Pin, Leave, Finish, Start, Abort, AfterPost, TypeOK,
      Drainers, OneSend, ops, buffer
<1>7. ASSUME NEW t \in Caller, CallSend(t) \/ CallAbort(t) PROVE OneSend'
  BY <1>7, <1>t
  DEF CallSend, Start, Goto, CallAbort, Leave, Finish, Abort, AfterPost,
      TypeOK, Drainers, OneSend, ops, buffer
<1>8. ASSUME NEW t \in Worker, TakeRecv(t) \/ TakeSent(t) \/ Flush(t)
      PROVE  OneSend'
  BY <1>8, <1>t
  DEF TakeRecv, Start, Goto, TakeSent, Flush, Leave, Finish, Abort, AfterPost,
      TypeOK, Drainers, OneSend, ops, buffer
<1>9. ASSUME RecvCompletes \/ SendCompletes \/ UNCHANGED vars PROVE OneSend'
  BY <1>9, <1>t
  DEF RecvCompletes, SendCompletes, vars, Leave, Finish, Start, Goto, Abort,
      AfterPost, TypeOK, Drainers, OneSend, ops, buffer
<1>10. ASSUME NEW t \in Thread, Cancel(t) PROVE OneSend'
  <2>1. pc'[t] = then[t] /\ then[t] \in {"idle", "release", "recheck"}
    BY <1>10, <1>t DEF Cancel, Shape, TypeOK
  <2>2. \A u \in Thread \ {t} : pc'[u] = pc[u]
    BY <1>10, <1>t DEF Cancel, TypeOK
  <2> QED
    BY <1>10, <1>t, <2>1, <2>2 DEF Cancel, OneSend, Drainers, buffer
<1>11. ASSUME NEW t \in Worker, NEW op \in {"recv", "send"},
             TakeFailed(t, op)
      PROVE  OneSend'
  BY <1>11, <1>t
  DEF TakeFailed, Abort, Leave, Finish, Start, Goto, AfterPost, TypeOK,
      Drainers, OneSend, ops, buffer
<1> QED
  BY <1>1, <1>2, <1>3, <1>4, <1>5, <1>6, <1>7, <1>8, <1>9, <1>10, <1>11
  DEF Next, Step, Completion

(* As long as nobody starts a call and nothing is queued, nothing changes   *)
(* in the number of packets still to come.                                  *)
LEMMA CallsStill ==
    ASSUME TypeOK, Calls, packets' = packets, sends' = sends,
           Queuers' \subseteq Queuers
    PROVE  Calls'
  <1>1. Queuers \subseteq Thread
    BY DEF Queuers
  <1>2. IsFiniteSet(Queuers)
    BY <1>1, ThreadFinite, FS_Subset
  <1>3. /\ Cardinality(Queuers') <= Cardinality(Queuers)
        /\ Cardinality(Queuers') \in Nat /\ Cardinality(Queuers) \in Nat
    BY <1>2, FS_Subset, FS_CardinalityType
  <1> QED
    BY <1>3 DEF Calls, TypeOK

LEMMA CallsKept ==
    ASSUME IInv, [Next]_vars
    PROVE  Calls'
<1>t. /\ TypeOK /\ Shape /\ Calls
      /\ Worker \subseteq Thread /\ Caller \subseteq Thread
  BY DEF IInv, Thread
<1>1. ASSUME NEW t \in Thread,
             CheckFlag(t) \/ CheckSize(t) \/ Decode(t) \/ Recheck(t)
      PROVE  Calls'
  BY <1>1, <1>t, CallsStill
  DEF CheckFlag, Goto, Abort, CheckSize, Decode, Recheck, Leave, Finish,
      Start, AfterPost, TypeOK, Shape, Queuers, buffer, calls
<1>2. ASSUME NEW t \in Thread, Mark(t) \/ Repost(t) \/ Try(t) PROVE Calls'
  BY <1>2, <1>t, CallsStill
  DEF Mark, Goto, Repost, Try, Leave, Finish, Start, Abort, AfterPost, TypeOK,
      Shape, Queuers, buffer, calls
<1>3. ASSUME NEW t \in Thread,
             Take(t) \/ Again(t) \/ Dequeue(t) \/ FlagDown(t)
      PROVE  Calls'
  BY <1>3, <1>t, CallsStill
  DEF Take, Goto, Again, Dequeue, FlagDown, Leave, Finish, Start, Abort,
      AfterPost, TypeOK, Shape, Queuers, buffer, calls
<1>4. ASSUME NEW t \in Thread, Release(t) \/ TryClose(t) \/ EndFlush(t)
      PROVE  Calls'
  BY <1>4, <1>t, CallsStill
  DEF Release, Goto, Leave, Finish, TryClose, EndFlush, Start, Abort,
      AfterPost, TypeOK, Shape, Queuers, buffer, calls
<1>5. ASSUME NEW t \in Thread, PostRecv(t) \/ CountPackets(t) \/ WSASend(t)
      PROVE  Calls'
  BY <1>5, <1>t, CallsStill
  DEF PostRecv, Goto, Abort, AfterPost, CountPackets, WSASend, Leave, Finish,
      Start, TypeOK, Shape, Queuers, buffer, calls
<1>6. ASSUME NEW t \in Thread, Peek(t) \/ Pin(t) PROVE Calls'
  BY <1>6, <1>t, CallsStill
  DEF Peek, Goto, Pin, Leave, Finish, Start, Abort, AfterPost, TypeOK, Shape,
      Queuers, buffer, calls
<1>7. ASSUME NEW t \in Worker, TakeRecv(t) \/ TakeSent(t) \/ Flush(t)
      PROVE  Calls'
  BY <1>7, <1>t, CallsStill
  DEF TakeRecv, Start, Goto, TakeSent, Flush, Leave, Finish, Abort, AfterPost,
      TypeOK, Shape, Queuers, buffer, calls
<1>8. ASSUME RecvCompletes \/ SendCompletes \/ UNCHANGED vars PROVE Calls'
  BY <1>8, <1>t, CallsStill
  DEF RecvCompletes, SendCompletes, vars, Leave, Finish, Start, Goto, Abort,
      AfterPost, TypeOK, Shape, Queuers, buffer, calls
<1>9. ASSUME NEW t \in Thread, Enqueue(t) PROVE Calls'
  <2>1. /\ Queuers \in SUBSET Thread /\ Queuers' \in SUBSET Thread
        /\ t \in Queuers /\ t \notin Queuers'
        /\ \A u \in Thread \ {t} : u \in Queuers' <=> u \in Queuers
    BY <1>9, <1>t DEF Enqueue, Goto, TypeOK, Shape, Queuers
  <2>2. /\ Cardinality(Queuers) \in Nat /\ Cardinality(Queuers') \in Nat
        /\ Cardinality(Queuers') = Cardinality(Queuers) - 1
    BY <2>1, OneThread
  <2>3. packets' = packets + 1 /\ packets \in Nat /\ sends' = sends
    BY <1>9, <1>t DEF Enqueue, TypeOK, calls
  <2> QED
    BY <1>t, <2>2, <2>3 DEF Calls, TypeOK
<1>10. ASSUME NEW t \in Thread, Cancel(t) PROVE Calls'
  <2>1. pc'[t] = then[t] /\ then[t] \in {"idle", "release", "recheck"}
    BY <1>10, <1>t DEF Cancel, Shape, TypeOK
  <2>2. \A u \in Thread \ {t} : pc'[u] = pc[u]
    BY <1>10, <1>t DEF Cancel, TypeOK
  <2>3. Queuers' \subseteq Queuers
    <3>1. \A u \in Thread : job'[u] \in {job[u], "none"}
      BY <1>10, <1>t DEF Cancel, TypeOK
    <3> QED
      BY <2>1, <2>2, <3>1 DEF Queuers
  <2> QED
    BY <1>10, <1>t, <2>3, CallsStill DEF Cancel, buffer, calls
<1>11. ASSUME NEW t \in Caller, CallSend(t) PROVE Calls'
  <2>1. /\ Queuers \in SUBSET Thread /\ Queuers' \in SUBSET Thread
        /\ t \in Thread /\ t \notin Queuers /\ t \in Queuers'
        /\ \A u \in Thread \ {t} : u \in Queuers' <=> u \in Queuers
    BY <1>11, <1>t DEF CallSend, Start, Goto, TypeOK, Queuers
  <2>2. /\ Cardinality(Queuers) \in Nat /\ Cardinality(Queuers') \in Nat
        /\ Cardinality(Queuers') = Cardinality(Queuers) + 1
    BY <2>1, OneThread
  <2>3. packets' = packets /\ packets \in Nat /\ sends' = sends + 1
    BY <1>11, <1>t DEF CallSend, TypeOK, buffer
  <2> QED
    BY <1>t, <2>2, <2>3 DEF Calls, TypeOK
<1>12. ASSUME NEW t \in Caller, CallAbort(t) PROVE Calls'
  BY <1>12, <1>t, CallsStill
  DEF CallAbort, Start, Goto, Leave, Finish, Abort, AfterPost, TypeOK, Shape,
      Queuers, buffer, calls
<1>13. ASSUME NEW t \in Worker, NEW op \in {"recv", "send"},
             TakeFailed(t, op)
      PROVE  Calls'
  BY <1>13, <1>t, CallsStill
  DEF TakeFailed, Abort, Leave, Finish, Start, Goto, AfterPost, TypeOK, Shape,
      Queuers, buffer, calls
<1> QED
  BY <1>1, <1>2, <1>3, <1>4, <1>5, <1>6, <1>7, <1>8, <1>9, <1>10, <1>11,
     <1>12, <1>13
  DEF Next, Step, Completion

LEMMA ClosedKept ==
    ASSUME IInv, [Next]_vars
    PROVE  Closed'
<1>t. /\ TypeOK /\ Shape /\ Covered /\ Closed
      /\ Worker \subseteq Thread /\ Caller \subseteq Thread
  BY DEF IInv, Thread
<1>1. ASSUME NEW t \in Thread,
             CheckFlag(t) \/ CheckSize(t) \/ Decode(t) \/ Recheck(t)
      PROVE  Closed'
  BY <1>1, <1>t
  DEF CheckFlag, Goto, Abort, CheckSize, Decode, Recheck, Leave, Finish,
      Start, AfterPost, TypeOK, Closed, ops, count, buffer
<1>2. ASSUME NEW t \in Thread, Mark(t) \/ Repost(t) \/ Try(t) PROVE Closed'
  BY <1>2, <1>t
  DEF Mark, Goto, Repost, Try, Leave, Finish, Start, Abort, AfterPost, TypeOK,
      Closed, ops, count, buffer
<1>3. ASSUME NEW t \in Thread,
             Take(t) \/ Again(t) \/ Dequeue(t) \/ FlagDown(t)
      PROVE  Closed'
  BY <1>3, <1>t
  DEF Take, Goto, Again, Dequeue, FlagDown, Leave, Finish, Start, Abort,
      AfterPost, TypeOK, Closed, ops, count, buffer
<1>4. ASSUME NEW t \in Thread, Release(t) \/ EndFlush(t) PROVE Closed'
  BY <1>4, <1>t
  DEF Release, Goto, Leave, Finish, EndFlush, Start, Abort, AfterPost, TypeOK,
      Closed, ops, count, buffer
<1>5. ASSUME NEW t \in Thread, PostRecv(t) \/ CountPackets(t) \/ WSASend(t)
      PROVE  Closed'
  BY <1>5, <1>t
  DEF PostRecv, Goto, Abort, AfterPost, CountPackets, WSASend, Leave, Finish,
      Start, TypeOK, Closed, ops, count, buffer
<1>6. ASSUME NEW t \in Thread, Peek(t) \/ Pin(t) PROVE Closed'
  BY <1>6, <1>t
  DEF Peek, Goto, Pin, Leave, Finish, Start, Abort, AfterPost, TypeOK, Closed,
      ops, count, buffer
<1>7. ASSUME NEW t \in Worker, TakeRecv(t) \/ TakeSent(t) \/ Flush(t)
      PROVE  Closed'
  BY <1>7, <1>t
  DEF TakeRecv, Start, Goto, TakeSent, Flush, Leave, Finish, Abort, AfterPost,
      TypeOK, Closed, ops, count, buffer
<1>8. ASSUME RecvCompletes \/ SendCompletes \/ UNCHANGED vars PROVE Closed'
  BY <1>8, <1>t
  DEF RecvCompletes, SendCompletes, vars, Leave, Finish, Start, Goto, Abort,
      AfterPost, TypeOK, Closed, ops, count, buffer
<1>9. ASSUME NEW t \in Caller, CallSend(t) \/ CallAbort(t) PROVE Closed'
  BY <1>9, <1>t
  DEF CallSend, Start, Goto, CallAbort, Leave, Finish, Abort, AfterPost,
      TypeOK, Closed, ops, count, buffer
<1>10. ASSUME NEW t \in Thread, Enqueue(t) PROVE Closed'
  BY <1>10, <1>t
  DEF Enqueue, Goto, Leave, Finish, Start, Abort, AfterPost, TypeOK, Closed,
      ops, count, buffer
<1>11. ASSUME NEW t \in Thread, Cancel(t) PROVE Closed'
  <2>1. pc'[t] = then[t] /\ then[t] \in {"idle", "release", "recheck"}
    BY <1>11, <1>t DEF Cancel, Shape, TypeOK
  <2>2. \A u \in Thread \ {t} : pc'[u] = pc[u]
    BY <1>11, <1>t DEF Cancel, TypeOK
  <2> QED
    BY <1>11, <1>t, <2>1, <2>2 DEF Cancel, Closed, count, buffer
<1>12. ASSUME NEW t \in Thread, TryClose(t) PROVE Closed'
  <2>1. CASE released
    <3>1. /\ pc'[t] \in {"endflush", "idle"}
          /\ \A u \in Thread \ {t} : pc'[u] = pc[u]
      BY <1>12, <1>t, LeaveGoes DEF TryClose, Goes
    <3> QED
      BY <1>12, <1>t, <2>1, <3>1 DEF TryClose, Closed, ops
  <2>2. CASE ~released /\ io = 0
    <3>1. \A u \in Thread : pc[u] \in Outside
      BY <1>t, <2>2, OwedCovers DEF Covered
    <3>2. recv = "none" /\ send = "none"
      BY <1>t, <2>2, OwedCovers DEF Covered
    <3>3. /\ pc'[t] \in {"endflush", "idle"}
          /\ \A u \in Thread \ {t} : pc'[u] = pc[u]
      BY <1>12, <1>t, LeaveGoes DEF TryClose, Goes
    <3> QED
      BY <1>12, <1>t, <2>2, <3>1, <3>2, <3>3 DEF TryClose, Closed, Outside, ops
  <2>3. CASE ~released /\ io # 0
    BY <1>12, <2>3 DEF TryClose, Closed
  <2> QED
    BY <2>1, <2>2, <2>3
<1>13. ASSUME NEW t \in Worker, NEW op \in {"recv", "send"},
             TakeFailed(t, op)
      PROVE  Closed'
  BY <1>13, <1>t
  DEF TakeFailed, Abort, Leave, Finish, Start, Goto, AfterPost, TypeOK,
      Closed, ops, count, buffer
<1> QED
  BY <1>1, <1>2, <1>3, <1>4, <1>5, <1>6, <1>7, <1>8, <1>9, <1>10, <1>11,
     <1>12, <1>13
  DEF Next, Step, Completion

-----------------------------------------------------------------------------
(* What is on the wire *)

(* Nothing happens to the stream while the buffer is left alone, and nobody *)
(* takes the flag, posts or takes a completion of the send.                 *)
LEMMA StreamStill ==
    ASSUME Stream, buffer' = buffer, released' = released,
           send' # "none" => send # "none",
           \A u \in Thread :
             pc'[u] \in {"again", "post", "wsasend", "dequeue", "flagdown"} =>
               pc'[u] = pc[u]
    PROVE  Stream'
  BY DEF Stream, Gone, SentInOrder, buffer

LEMMA StreamKept ==
    ASSUME IInv, [Next]_vars
    PROVE  Stream'
<1>t. /\ TypeOK /\ Shape /\ Covered /\ OneSend /\ Closed /\ Stream
      /\ Worker \subseteq Thread /\ Caller \subseteq Thread
  BY DEF IInv, Thread
<1>n. /\ packets \in Nat /\ sendCount \in Nat
      /\ queue \in Seq(1 .. MaxPackets) /\ Len(queue) \in Nat
      /\ wire \in Seq(1 .. MaxPackets) /\ Len(wire) \in Nat
      /\ DOMAIN wire = 1 .. Len(wire)
  BY <1>t DEF TypeOK
<1>1. ASSUME NEW t \in Thread,
             \/ CheckFlag(t) \/ CheckSize(t) \/ Decode(t) \/ Recheck(t)
             \/ Mark(t) \/ Repost(t) \/ Try(t) \/ Release(t) \/ EndFlush(t)
             \/ PostRecv(t) \/ Peek(t) \/ Pin(t)
      PROVE  Stream'
  <2>1. /\ buffer' = buffer /\ released' = released /\ send' = send
        /\ \A u \in Thread \ {t} : pc'[u] = pc[u]
    BY <1>1, <1>t
    DEF CheckFlag, CheckSize, Decode, Recheck, Mark, Repost, Try, Release,
        EndFlush, PostRecv, Peek, Pin, Leave, Finish, Goto, Abort, TypeOK,
        count, ops
  <2>2. pc'[t] \notin {"again", "post", "wsasend", "dequeue", "flagdown"}
    BY <1>1, <1>t
    DEF CheckFlag, CheckSize, Decode, Recheck, Mark, Repost, Try, Release,
        EndFlush, PostRecv, AfterPost, Peek, Pin, Leave, Finish, Goto, Abort,
        TypeOK
  <2> QED
    BY <1>t, <2>1, <2>2, StreamStill
<1>2. ASSUME NEW t \in Thread, Cancel(t) PROVE Stream'
  <2>1. pc'[t] = then[t] /\ then[t] \in {"idle", "release", "recheck"}
    BY <1>2, <1>t DEF Cancel, Shape, TypeOK
  <2>2. \A u \in Thread \ {t} : pc'[u] = pc[u]
    BY <1>2, <1>t DEF Cancel, TypeOK
  <2>3. /\ buffer' = buffer /\ released' = released
        /\ send' # "none" => send # "none"
    BY <1>2 DEF Cancel, count
  <2> QED
    BY <1>t, <2>1, <2>2, <2>3, StreamStill
<1>3. ASSUME NEW t \in Thread, Enqueue(t) PROVE Stream'
  <2>1. /\ queue' = Append(queue, packets + 1) /\ packets' = packets + 1
        /\ Len(queue') = Len(queue) + 1
        /\ \A n \in 1 .. Len(queue) : queue'[n] = queue[n]
        /\ queue'[Len(queue) + 1] = packets + 1
        /\ queue' # <<>>
    BY <1>3, <1>n DEF Enqueue
  <2>2. /\ wire' = wire /\ sendCount' = sendCount /\ sendFlag' = sendFlag
        /\ send' = send /\ released' = released
        /\ pc'[t] = "release" /\ \A u \in Thread \ {t} : pc'[u] = pc[u]
    BY <1>3, <1>t DEF Enqueue, Goto, TypeOK, ops, count
  <2>3. Gone' = Gone
    BY <1>n, <2>1 DEF Gone
  <2>4. \A n \in 1 .. Len(queue') : queue'[n] = Gone' + n
    <3>1. \A n \in 1 .. Len(queue) : queue'[n] = Gone' + n
      BY <1>t, <2>1, <2>3 DEF Stream
    <3>2. queue'[Len(queue) + 1] = Gone' + (Len(queue) + 1)
      BY <1>n, <2>1, <2>3 DEF Gone
    <3> QED
      BY <1>n, <2>1, <3>1, <3>2
  <2>5. SentInOrder' /\ Gone' >= 0
    BY <1>t, <2>2, <2>3 DEF Stream, SentInOrder
  <2>6. sendCount <= Len(queue) => sendCount' <= Len(queue')
    BY <1>n, <2>1, <2>2
  <2> QED
    BY <1>t, <2>1, <2>2, <2>3, <2>4, <2>5, <2>6 DEF Stream
<1>4. ASSUME NEW t \in Thread, TryClose(t) PROVE Stream'
  <2>1. /\ pc'[t] \in {"endflush", "idle"}
        /\ \A u \in Thread \ {t} : pc'[u] = pc[u]
    BY <1>4, <1>t, LeaveGoes DEF TryClose, Goes
  <2>2. send' = send /\ wire' = wire /\ packets' = packets
        /\ sendFlag' = sendFlag
    BY <1>4 DEF TryClose, ops
  <2>3. CASE ~released /\ io = 0
    <3>1. /\ \A u \in Thread : pc[u] \in Outside
          /\ send = "none"
      BY <1>t, <2>3, OwedCovers DEF Covered
    <3>2. \A u \in Thread : pc'[u] \notin {"again", "post", "wsasend",
                                           "dequeue", "flagdown"}
      BY <2>1, <3>1 DEF Outside
    <3>3. released' /\ queue' = <<>> /\ Len(queue') = 0
      BY <1>4, <2>3 DEF TryClose
    <3>4. SentInOrder' /\ Gone' >= 0
      BY <1>n, <1>t, <2>2, <3>3 DEF Stream, SentInOrder, Gone
    <3>5. \A n \in 1 .. Len(queue') : queue'[n] = Gone' + n
      BY <3>3
    <3> QED
      BY <2>2, <3>1, <3>2, <3>3, <3>4, <3>5 DEF Stream
  <2>4. CASE ~(~released /\ io = 0)
    <3>1. buffer' = buffer /\ released' = released
      BY <1>4, <2>2, <2>4 DEF TryClose, buffer
    <3> QED
      BY <1>t, <2>1, <2>2, <3>1, StreamStill
  <2> QED
    BY <2>3, <2>4
<1>5. ASSUME NEW t \in Thread, Take(t) PROVE Stream'
  <2>1. /\ queue' = queue /\ wire' = wire /\ sendCount' = sendCount
        /\ packets' = packets /\ send' = send /\ released' = released
        /\ sendFlag' = 1
        /\ pc'[t] = (IF sendFlag = 0 THEN "again" ELSE "release")
        /\ \A u \in Thread \ {t} : pc'[u] = pc[u]
    BY <1>5, <1>t DEF Take, Goto, TypeOK, ops, count
  <2>2. ~released
    BY <1>5, <1>t DEF Take, Closed
  <2>3. sendFlag = 0 => sendCount = 0 /\ Len(wire) = Gone
    BY <1>t, <2>2 DEF Stream
  <2>4. Gone' = Gone /\ SentInOrder'
    BY <1>t, <2>1 DEF Stream, Gone, SentInOrder
  <2> QED
    BY <1>t, <2>1, <2>3, <2>4 DEF Stream
<1>6. ASSUME NEW t \in Thread, Again(t) PROVE Stream'
  <2>1. /\ queue' = queue /\ wire' = wire /\ sendCount' = sendCount
        /\ packets' = packets /\ send' = send /\ released' = released
        /\ pc'[t] = (IF queue = <<>> THEN "try" ELSE "post")
        /\ \A u \in Thread \ {t} : pc'[u] = pc[u]
    BY <1>6, <1>t DEF Again, Goto, TypeOK, ops, count
  <2>2. /\ pc[t] = "again" /\ sendCount = 0 /\ Len(wire) = Gone
    BY <1>6, <1>t DEF Again, Stream
  <2>3. Gone' = Gone /\ SentInOrder'
    BY <1>t, <2>1 DEF Stream, Gone, SentInOrder
  <2> QED
    BY <1>t, <2>1, <2>2, <2>3 DEF Stream
<1>7. ASSUME NEW t \in Thread, CountPackets(t) PROVE Stream'
  <2>1. /\ queue' = queue /\ wire' = wire /\ packets' = packets
        /\ sendCount' = sendCount + Len(queue) /\ sendFlag' = sendFlag
        /\ send' = send /\ released' = released
        /\ pc'[t] \in {"mark", "wsasend"}
        /\ \A u \in Thread \ {t} : pc'[u] = pc[u]
    BY <1>7, <1>t DEF CountPackets, Goto, Abort, TypeOK, ops
  <2>2. /\ sendCount = 0 /\ Len(wire) = Gone /\ t \in Drainers
    BY <1>7, <1>t DEF CountPackets, Stream, Drainers
  <2>3. /\ send = "none" /\ sendFlag = 1
        /\ \A u \in Thread \ {t} : pc[u] \notin {"again", "post", "wsasend",
                                                 "dequeue", "flagdown"}
    BY <1>t, <2>2 DEF OneSend, Drainers
  <2>4. Gone' = Gone /\ SentInOrder'
    BY <1>t, <2>1 DEF Stream, Gone, SentInOrder
  <2>5. sendCount' <= Len(queue')
    BY <1>n, <2>1, <2>2
  <2> QED
    BY <1>t, <2>1, <2>2, <2>3, <2>4, <2>5 DEF Stream
<1>8. ASSUME NEW t \in Thread, WSASend(t) PROVE Stream'
  <2>1. /\ pc[t] = "wsasend" /\ sendCount \in 0 .. Len(queue)
        /\ Len(wire) = Gone /\ t \in Drainers
    BY <1>8, <1>t, <1>n DEF WSASend, Stream, Drainers
  <2>2. /\ sendFlag = 1
        /\ \A u \in Thread \ {t} : pc[u] \notin {"again", "post", "wsasend",
                                                 "dequeue", "flagdown"}
    BY <1>t, <2>1 DEF OneSend, Drainers
  <2>3. /\ pc'[t] \in {"mark", "release"}
        /\ \A u \in Thread \ {t} : pc'[u] = pc[u]
    BY <1>8, <1>t DEF WSASend, Goto, Abort, TypeOK
  <2>4. CASE send' = "pending" /\ wire' = wire \o SubSeq(queue, 1, sendCount)
    <3>1. /\ queue' = queue /\ packets' = packets /\ sendCount' = sendCount
          /\ sendFlag' = sendFlag
      BY <1>8 DEF WSASend
    <3>2. /\ SubSeq(queue, 1, sendCount) \in Seq(1 .. MaxPackets)
          /\ Len(SubSeq(queue, 1, sendCount)) = sendCount
          /\ \A n \in 1 .. sendCount :
                SubSeq(queue, 1, sendCount)[n] = queue[n]
      BY <1>n, <2>1, Front
    <3>3. /\ wire' \in Seq(1 .. MaxPackets)
          /\ Len(wire') = Len(wire) + sendCount
          /\ \A n \in 1 .. Len(wire) : wire'[n] = wire[n]
          /\ \A n \in 1 .. sendCount :
                wire'[Len(wire) + n] = SubSeq(queue, 1, sendCount)[n]
      BY <1>n, <2>4, <3>2, ConcatProperties
    <3>4. Gone' = Gone
      BY <3>1 DEF Gone
    <3>5. SentInOrder'
      <4>1. SUFFICES ASSUME NEW n \in 1 .. Len(wire')
                     PROVE  wire'[n] = n
        BY <3>3 DEF SentInOrder
      <4>2. CASE n <= Len(wire)
        BY <1>n, <1>t, <3>3, <4>2 DEF Stream, SentInOrder
      <4>3. CASE n > Len(wire)
        <5>1. PICK m \in 1 .. sendCount : n = Len(wire) + m
          <6>1. n - Len(wire) \in 1 .. sendCount
            BY <1>n, <3>3, <4>3
          <6> QED
            BY <1>n, <6>1
        <5>2. queue[m] = Gone + m
          BY <1>n, <1>t, <2>1, <5>1 DEF Stream
        <5> QED
          BY <2>1, <3>2, <3>3, <5>1, <5>2
      <4> QED
        BY <1>n, <4>2, <4>3
    <3>6. sendCount' <= Len(queue') /\ Len(wire') = Gone' + sendCount'
      BY <1>n, <2>1, <3>1, <3>3, <3>4
    <3> QED
      BY <1>t, <2>2, <2>3, <3>1, <3>4, <3>5, <3>6 DEF Stream
  <2>5. CASE send' = send /\ wire' = wire
    <3>1. buffer' = buffer /\ released' = released
      BY <1>8, <2>5 DEF WSASend, buffer, count
    <3> QED
      BY <1>t, <2>3, <2>5, <3>1, StreamStill
  <2> QED
    BY <1>8, <2>4, <2>5 DEF WSASend
<1>9. ASSUME NEW t \in Thread, Dequeue(t) PROVE Stream'
  <2>1. /\ pc[t] = "dequeue" /\ sendCount \in 0 .. Len(queue)
        /\ Len(wire) = Gone + sendCount /\ t \in Drainers
    BY <1>9, <1>t, <1>n DEF Dequeue, Stream, Drainers
  <2>2. /\ send = "none" /\ sendFlag = 1
        /\ \A u \in Thread \ {t} : pc[u] \notin {"again", "post", "wsasend",
                                                 "dequeue", "flagdown"}
    BY <1>t, <2>1 DEF OneSend, Drainers
  <2>3. /\ pc'[t] = "flagdown" /\ \A u \in Thread \ {t} : pc'[u] = pc[u]
        /\ wire' = wire /\ packets' = packets /\ sendCount' = 0
        /\ sendFlag' = sendFlag /\ send' = send
    BY <1>9, <1>t DEF Dequeue, Goto, TypeOK, ops
  <2>4. /\ Len(queue') = Len(queue) - sendCount
        /\ \A n \in 1 .. Len(queue) - sendCount :
              queue'[n] = queue[sendCount + n]
    BY <1>9, <1>n, <2>1, Rest DEF Dequeue
  <2>5. Gone' = Gone + sendCount
    BY <1>n, <2>3, <2>4 DEF Gone
  <2>6. \A n \in 1 .. Len(queue') : queue'[n] = Gone' + n
    <3>1. ASSUME NEW n \in 1 .. Len(queue) - sendCount
          PROVE  queue[sendCount + n] = Gone + (sendCount + n)
      <4>1. sendCount + n \in 1 .. Len(queue)
        BY <1>n, <2>1
      <4> QED
        BY <1>t, <4>1 DEF Stream
    <3> QED
      BY <1>n, <2>1, <2>4, <2>5, <3>1 DEF Gone
  <2>7. SentInOrder' /\ Gone' >= 0
    BY <1>t, <1>n, <2>3, <2>5 DEF Stream, SentInOrder, Gone
  <2>8. Len(wire') = Gone'
    BY <2>1, <2>3, <2>5
  <2> QED
    BY <2>2, <2>3, <2>6, <2>7, <2>8 DEF Stream
<1>10. ASSUME NEW t \in Thread, FlagDown(t) PROVE Stream'
  <2>1. sendCount = 0 /\ Len(wire) = Gone
    BY <1>10, <1>t DEF FlagDown, Stream
  <2>2. /\ pc'[t] = "recheck" /\ \A u \in Thread \ {t} : pc'[u] = pc[u]
        /\ wire' = wire /\ packets' = packets /\ sendCount' = sendCount
        /\ queue' = queue /\ send' = send
    BY <1>10, <1>t DEF FlagDown, Goto, TypeOK, ops
  <2>3. Gone' = Gone /\ SentInOrder'
    BY <1>t, <2>2 DEF Stream, Gone, SentInOrder
  <2> QED
    BY <1>t, <2>1, <2>2, <2>3 DEF Stream
<1>11. ASSUME NEW t \in Worker, TakeSent(t) PROVE Stream'
  <2>1. /\ send = "done" /\ send' = "none" /\ buffer' = buffer
        /\ pc'[t] = "dequeue" /\ \A u \in Thread \ {t} : pc'[u] = pc[u]
    BY <1>11, <1>t DEF TakeSent, Start, Goto, TypeOK
  <2>2. sendCount <= Len(queue) /\ Len(wire) = Gone + sendCount
    BY <1>t, <2>1 DEF Stream
  <2>3. Gone' = Gone /\ SentInOrder'
    BY <1>t, <2>1 DEF Stream, Gone, SentInOrder, buffer
  <2>4. released' = released
    BY <1>11 DEF TakeSent, count
  <2> QED
    BY <1>t, <2>1, <2>2, <2>3, <2>4 DEF Stream, buffer
<1>12. ASSUME \/ \E t \in Caller : CallSend(t) \/ CallAbort(t)
              \/ \E t \in Worker : TakeRecv(t) \/ Flush(t)
              \/ \E t \in Worker : \E op \in {"recv", "send"} :
                    TakeFailed(t, op)
       PROVE  Stream'
  <2>1. /\ buffer' = buffer /\ released' = released
        /\ send' # "none" => send # "none"
    BY <1>12 DEF CallSend, CallAbort, TakeRecv, Flush, TakeFailed, count, ops
  <2>2. \A u \in Thread : \/ pc'[u] = pc[u]
                          \/ pc'[u] \in {"flag", "decode", "peek", "mark"}
    BY <1>12, <1>t
    DEF CallSend, CallAbort, TakeRecv, Flush, TakeFailed, Start, Goto, Abort,
        TypeOK
  <2> QED
    BY <1>t, <2>1, <2>2, StreamStill
<1>13. ASSUME RecvCompletes \/ SendCompletes \/ UNCHANGED vars PROVE Stream'
  BY <1>13, <1>t, StreamStill
  DEF RecvCompletes, SendCompletes, vars, buffer, count
<1> QED
  BY <1>1, <1>2, <1>3, <1>4, <1>5, <1>6, <1>7, <1>8, <1>9, <1>10, <1>11,
     <1>12, <1>13 DEF Next, Step, Completion

-----------------------------------------------------------------------------
(* The invariant *)

LEMMA StartExact ==
    ASSUME Init
    PROVE  io = Owed
  <1>1. /\ Acceptor \in Thread
        /\ \A t \in Thread \ {Acceptor} : pc[t] = "idle"
        /\ pc[Acceptor] = "postrecv"
        /\ recv = "none" /\ send = "none"
    BY DEF Init, Thread
  <1>2. Users = {Acceptor} /\ Senders = {}
    BY <1>1 DEF Users, Senders
  <1>3. Cardinality(Users) = 1 /\ Cardinality(Senders) = 0
    BY <1>2, FS_Singleton, FS_EmptySet
  <1>4. Cardinality(Operations) = 0
    BY <1>1, OperationsSize DEF Operations, Op, Posted
  <1> QED
    BY <1>3, <1>4 DEF Init, Owed

LEMMA Initially ==
    ASSUME Init
    PROVE  IInv
<1>0. /\ Acceptor \in Thread /\ \A t \in Thread \ {Acceptor} : pc[t] = "idle"
      /\ pc[Acceptor] = "postrecv"
      /\ recv = "none" /\ send = "none" /\ sendFlag = 0
  BY DEF Init, Thread
<1>1. TypeOK
  <2>1. /\ pc \in [Thread -> Place] /\ then \in [Thread -> Place]
        /\ job \in [Thread -> {"none", "send", "abort", "flush", "recv",
                               "sent", "failed", "accept"}]
    BY DEF Init, Place
  <2>2. released \in BOOLEAN /\ flushing \in BOOLEAN /\ late \in BOOLEAN
    BY Zenon DEF Init
  <2>3. queue \in Seq(1 .. MaxPackets) /\ wire \in Seq(1 .. MaxPackets)
    BY EmptySeq DEF Init
  <2>4. /\ io \in Nat /\ status \in {"Active", "MarkForDeletion"}
        /\ sendFlag \in {0, 1} /\ sendCount \in 0 .. MaxPackets
        /\ recv \in Op /\ send \in Op
        /\ packets \in 0 .. MaxPackets /\ sends \in 0 .. MaxPackets
        /\ aborts \in 0 .. MaxAborts
    BY SessionIoAssumption DEF Init, Op
  <2> QED
    BY <2>1, <2>2, <2>3, <2>4 DEF TypeOK
<1>2. Shape
  BY <1>0 DEF Shape
<1>3. Calls
  <2>1. Queuers = {}
    BY <1>0 DEF Queuers
  <2> QED
    BY <2>1, FS_EmptySet DEF Init, Calls
<1>4. io = Owed
  BY StartExact
<1>5. OneReceive /\ OneSend
  BY <1>0 DEF OneReceive, OneSend, Receivers, Drainers
<1>6. Closed
  BY DEF Init, Closed
<1>7. Stream
  <2>0. queue = <<>> /\ wire = <<>> /\ packets = 0
    BY Zenon DEF Init
  <2>1. Len(queue) = 0 /\ Len(wire) = 0 /\ Gone = 0
    <3>1. Len(<<>>) = 0
      OBVIOUS
    <3>2. Len(queue) = 0 /\ Len(wire) = 0
      BY <2>0, <3>1, Zenon
    <3>3. packets = 0
      BY <2>0, Zenon
    <3>4. packets - Len(queue) = 0 - 0
      BY <3>2, <3>3, Zenon
    <3> QED
      BY <3>2, <3>4 DEF Gone
  <2>2. sendCount = 0 /\ SentInOrder
    BY <2>1 DEF Init, SentInOrder
  <2>3. \A n \in 1 .. Len(queue) : queue[n] = Gone + n
    BY <2>1
  <2> QED
    BY <1>0, <2>1, <2>2, <2>3 DEF Stream
<1>8. Covered
  BY <1>1, <1>4, OwedCovers DEF Covered
<1> QED
  BY <1>1, <1>2, <1>3, <1>5, <1>6, <1>7, <1>8 DEF IInv

LEMMA StepKeeps ==
    ASSUME IInv, [Next]_vars
    PROVE  IInv'
  BY TypesKept, ShapeKept, CallsKept, CoveredKept, ReceiveKept, SendKept,
     ClosedKept, StreamKept DEF IInv

(* The inductive invariant, whatever fails and however the threads, the     *)
(* completions and the cancellations interleave.                            *)
THEOREM IoInvariant == Spec => []IInv
  <1>1. Init => IInv
    BY Initially
  <1>2. IInv /\ [Next]_vars => IInv'
    BY StepKeeps
  <1> QED
    BY <1>1, <1>2, PTL DEF Spec

(* The variables of one session's I/O keep their types; in particular       *)
(* ioCount is never lowered below zero.                                     *)
THEOREM IoTypes == Spec => []TypeOK
  <1>1. IInv => TypeOK
    BY DEF IInv
  <1> QED
    BY <1>1, IoInvariant, PTL

(* WSASend is handed the packets of SendPacket, each once and in the order  *)
(* in which they were queued, for any number of senders and flushes.        *)
THEOREM WireInOrder == Spec => []SentInOrder
  <1>1. IInv => SentInOrder
    BY DEF IInv, Stream
  <1> QED
    BY <1>1, IoInvariant, PTL

(* None of the __debugbreak() of _SendPost and SendCompletionRoutine is     *)
(* reached.                                                                 *)
THEOREM SendAssertions == Spec => []NoDebugBreak
  <1>1. IInv => NoDebugBreak
    BY DEF IInv, TypeOK, Stream, OneSend, Drainers, NoDebugBreak
  <1> QED
    BY <1>1, IoInvariant, PTL

(* ioCount never runs low: it counts at least every thread at work on the   *)
(* session and every operation whose completion nobody has taken.           *)
THEOREM CountCovers == Spec => [](io >= Owed)
  <1>1. IInv => io >= Owed
    BY DEF IInv, Covered
  <1> QED
    BY <1>1, IoInvariant, PTL

(* _DisconnectSession succeeds only when no thread is between its count and *)
(* its release of the session, and no receive and no send is posted.        *)
ClosesAlone ==
    ~released /\ released' =>
        /\ \A t \in Thread : pc[t] \in Outside
        /\ recv = "none" /\ send = "none"

THEOREM ClosedAlone == Spec => [][ClosesAlone]_vars
  <1>1. IInv /\ [Next]_vars => [ClosesAlone]_vars
    <2> SUFFICES ASSUME IInv, Next, ~released, released'
                 PROVE  /\ \A t \in Thread : pc[t] \in Outside
                        /\ recv = "none" /\ send = "none"
      BY Zenon DEF ClosesAlone
    <2>1. io = 0
      BY
      DEF Next, Step, Completion, CheckFlag, CheckSize, Enqueue, Mark, Cancel,
          Release, TryClose, Decode, Repost, PostRecv, Recheck, Peek, Pin, Try,
          Take, Again, CountPackets, WSASend, EndFlush, Dequeue, FlagDown,
          CallSend, CallAbort, TakeRecv, TakeSent, TakeFailed, Flush,
          RecvCompletes, SendCompletes, count
    <2> QED
      BY <2>1, OwedCovers DEF IInv, Covered
  <1> QED
    BY <1>1, IoInvariant, PTL DEF Spec

(* A count is left behind, so that the session is never closed, in four     *)
(* places and nowhere else: after bytes that do not decode, and where       *)
(* _RecvPost and _SendPost count themselves in and then post nothing.       *)
LeaksThere ==
    \/ io' - Owed' = io - Owed
    \/ \E t \in Thread : LeavesCount(t)

THEOREM LeaksOnlyThere == Spec => [][LeaksThere]_vars
  <1>1. IInv /\ [Next]_vars => [LeaksThere]_vars
    <2> SUFFICES ASSUME IInv, [Next]_vars PROVE LeaksThere
      BY Zenon
    <2> QED
      BY CoveredKept DEF LeaksThere
  <1> QED
    BY <1>1, IoInvariant, PTL DEF Spec

(* Where nothing fails, all bytes decode and no session ever has more       *)
(* packets waiting than _SendPost takes, no count is left behind.           *)
THEOREM NoLeaks ==
    ASSUME Fault = {}, MaxPackets <= Backlog
    PROVE  Spec => []NoCountLeaks
  <1>1. Init => NoCountLeaks
    <2>1. ASSUME Init PROVE io = Owed
      BY <2>1, StartExact
    <2> QED
      BY <2>1 DEF NoCountLeaks, Owed
  <1>2. ASSUME IInv, IInv', NoCountLeaks, [Next]_vars PROVE NoCountLeaks'
    <2>1. ASSUME NEW t \in Thread, LeavesCount(t) PROVE FALSE
      <3>1. CASE Cancel(t) /\ then[t] = "idle"
        BY <1>2, <3>1 DEF IInv, Shape, Cancel
      <3>2. CASE PostRecv(t) /\ pc'[t] = "mark"
        BY <1>2, <3>2 DEF IInv, TypeOK, PostRecv, Goto, AfterPost
      <3>3. CASE CountPackets(t) /\ pc'[t] = "mark"
        <4>1. sendCount + Len(queue) > Backlog
          BY <1>2, <3>3 DEF IInv, TypeOK, CountPackets, Goto
        <4>2. sendCount = 0 /\ packets - Len(queue) >= 0
          BY <1>2, <3>3 DEF IInv, CountPackets, Stream, Gone
        <4>3. packets \in 0 .. MaxPackets /\ Len(queue) \in Nat
          BY <1>2 DEF IInv, TypeOK
        <4> QED
          BY <4>1, <4>2, <4>3, SessionIoAssumption
      <3>4. CASE WSASend(t) /\ pc'[t] = "mark"
        BY <1>2, <3>4 DEF IInv, TypeOK, WSASend, Goto
      <3> QED
        BY <2>1, <3>1, <3>2, <3>3, <3>4 DEF LeavesCount
    <2>2. io' - Owed' = io - Owed
      BY <1>2, <2>1, CoveredKept
    <2>3. /\ io \in Nat /\ io' \in Nat /\ Owed \in Nat /\ Owed' \in Nat
      BY <1>2, OwedNumbers
    <2>4. io = Owed
      BY <1>2 DEF NoCountLeaks, Owed
    <2>5. \A a, b, c, d \in Nat : c - d = a - b /\ a = b => c = d
      OBVIOUS
    <2>6. io' = Owed'
      BY <2>2, <2>3, <2>4, <2>5
    <2> QED
      BY <2>6 DEF NoCountLeaks, Owed
  <1> QED
    BY <1>1, <1>2, IoInvariant, PTL DEF Spec

==============================================================================
