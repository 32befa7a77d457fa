---------------------------- MODULE Library_proofs ----------------------------
(***************************************************************************)
(* Proofs about the parts of NetWorkLib, for any number of threads, nodes,   *)
(* cells, receivers, messages and calls: every safety property that Library *)
(* states holds of Spec, and so do the two orders of InOrder.              *)
(*                                                                         *)
(* A step is one of one part and leaves the others as they were (OnePart),   *)
(* so each part has an invariant of its own, with a lemma for Init, one for *)
(* a step, and one for what follows.                                       *)
(*   The pool: the cells on the stack form one list (PoolStack), a cell on  *)
(* its way there or from there belongs to one thread (PoolCells), and what   *)
(* a thread that pops has read of _next is still so if the cell it would     *)
(* take stands where it stood with the number it had, since each push has   *)
(* another number (PoolReads).  So each exchange moves one list, and the    *)
(* objects add up (PoolSum).                                               *)
(*   The packet: whoever has it counts (PacketUse), its bytes are the        *)
(* payload encoded with the key of its header as soon as a session has it    *)
(* (PacketBody), and decoding inverts that: exclusive or undoes itself, so   *)
(* each of the two rounds can be taken back byte by byte.                   *)
(*   Framing: what the buffer has is the stream from the first message not  *)
(* handed over yet up to what has been received (FrameRest).               *)
(*   A LAN session: ioCount is what is at work on it (LanCount), there is    *)
(* one receive (LanReceive), and once it is released nobody does more than  *)
(* give its count back (LanReleased).                                      *)
(*   The ring buffer: its types alone.  What has to be shown is arithmetic:  *)
(* where the k-th byte of the queue is (RingAt), that a call which goes over *)
(* the end of the buffer goes on at its beginning (EnqueRoom, DequeRoom),    *)
(* and that what Enqueue writes is where the queue ends and nowhere else     *)
(* (RingWritten).                                                          *)
(*   The queue.  Each node is in the pool, on its way there (Gone), or in   *)
(* use; those in use form one list from _head on, and side branches.  A      *)
(* branch grows when an Enqueue links its node behind one that was given     *)
(* back, taken again and is in the hands of another Enqueue (Link compares   *)
(* _next, which carries no counter).  Links says that this is a forest with  *)
(* one arrow into each node that is linked, Acyclic that it has no circle.   *)
(* That a link never closes one, and never puts a node behind itself, rests  *)
(* on the age of the nodes: behind the node that an Enqueue holds there are  *)
(* only older ones (Private), and the tail it has read, if it is a node      *)
(* behind one that somebody holds, is younger than its own (Behind), since   *)
(* the tail was in the list when it was read and was taken from the pool     *)
(* again after that.  Locals says what the addresses are worth that a thread *)
(* has read: those that come from a _head or a _tail which has not moved are *)
(* right still.                                                            *)
(***************************************************************************)
EXTENDS Library, FiniteSetTheorems, SequenceTheorems,
        WellFoundedInduction, TLAPS

-----------------------------------------------------------------------------
(* A set of numbers has a least one; so what holds of 0 and of i + 1 with i *)
(* holds of n.                                                              *)
LEMMA Least ==
    ASSUME NEW S \in SUBSET Nat, S # {}
    PROVE  \E n \in S : \A m \in S : n <= m
  <1>1. PICK n \in S : \A m \in S : ~(<<m, n>> \in OpToRel(<, Nat))
    BY NatLessThanWellFounded, WFMin
  <1>2. \A m \in S : ~(m < n)
    BY <1>1 DEF OpToRel
  <1>3. \A m \in S : n <= m
    BY <1>2
  <1> QED
    BY <1>3

LEMMA Induction ==
    ASSUME NEW n \in Nat, NEW Z, 0 \in Z,
           \A i \in 0 .. n : i < n /\ i \in Z => i + 1 \in Z
    PROVE  n \in Z
  <1> SUFFICES ASSUME n \notin Z PROVE FALSE
    OBVIOUS
  <1> DEFINE S == {i \in Nat : i <= n /\ i \notin Z}
  <1>1. S \in SUBSET Nat /\ S # {}
    OBVIOUS
  <1>2. PICK k \in S : \A m \in S : k <= m
    <2> HIDE DEF S
    <2> QED
      BY <1>1, Least
  <1>3. k # 0 /\ k - 1 \in Nat /\ k - 1 \notin S /\ k <= n
    BY <1>2
  <1>4. k - 1 \in Z /\ k - 1 \in 0 .. n /\ k - 1 < n /\ (k - 1) + 1 = k
    BY <1>3
  <1> QED
    BY <1>2, <1>4

-----------------------------------------------------------------------------
(* The queue (LFreeQ).                                                      *)

(* What LibraryAssumption says of this part. *)
QueueParameters ==
    /\ Dummy \in Node /\ End \notin Node /\ MaxItems \in Nat
    /\ IsFiniteSet(Thread) /\ IsFiniteSet(Node)

ThreadType ==
    [pc : Q!Place, node : Node \cup {End}, head : Node \cup {End},
     tail : Node \cup {End}, next : Node \cup {End},
     tailNext : Node \cup {End}, headFresh : BOOLEAN, tailFresh : BOOLEAN,
     ret : Nat]

Making == {"readtail", "readnext", "help", "link"}
TailRead == {"readnext", "help", "link"}

(* The locals that a thread has set where it is. *)
Filled(r) ==
    /\ r.pc \in Making \cup {"grow", "movetail"} => r.node \in Node
    /\ r.pc \in TailRead \cup {"grow", "movetail", "readnext2", "readtailnext",
                               "help2", "readdata", "movehead"} =>
          r.tail \in Node
    /\ r.pc \in {"readtail2", "readnext2", "readtailnext", "help2", "readdata",
                 "movehead", "delete"} => r.head \in Node
    /\ r.pc = "help" => r.next \in Node
    /\ r.pc = "help2" => r.tailNext \in Node
    /\ r.pc \in {"readdata", "movehead"} => r.next \in Node

Types ==
    /\ data \in [Node -> 0 .. MaxItems]
    /\ qNext \in [Node -> Node \cup {End}]
    /\ qHead \in Node /\ qTail \in Node /\ free \in SUBSET Node
    /\ qSize \in Int /\ items \in 0 .. MaxItems /\ taken \in SUBSET (1 .. items)
    /\ qTh \in [Thread -> ThreadType]
    /\ \A t \in Thread : Filled(qTh[t])

(* Nodes that have left the queue and are not in the pool yet, nodes of the *)
(* queue or of an Enqueue, and those that an Enqueue has not linked yet.    *)
Gone == {qTh[t].head : t \in {u \in Thread : Q!At(u, "delete")}}
InUse == Node \ (free \cup Gone)
Makes(t) == qTh[t].pc \in Making
New == {qTh[t].node : t \in {u \in Thread : Makes(u)}}

Owners ==
    /\ qHead \in InUse /\ qTail \in InUse
    /\ \A t \in Thread : Makes(t) => qTh[t].node \in InUse \ {qHead, qTail}
    /\ \A t \in Thread : Q!At(t, "delete") =>
          qTh[t].head \notin free /\ qNext[qTh[t].head] # End
    /\ \A t, u \in Thread :
          Makes(t) /\ Makes(u) /\ qTh[t].node = qTh[u].node => t = u
    /\ \A t, u \in Thread :
          Q!At(t, "delete") /\ Q!At(u, "delete") /\ qTh[t].head = qTh[u].head
              => t = u

(* Each of them but the head, and but those, follows one other.            *)
Links ==
    /\ \A n \in InUse : qNext[n] # End => qNext[n] \in InUse \ ({qHead} \cup New)
    /\ \A m, n \in InUse : qNext[m] = qNext[n] /\ qNext[m] # End => m = n
    /\ \A n \in InUse \ ({qHead} \cup New) : \E p \in InUse : qNext[p] = n

Numbers ==
    /\ {data[n] : n \in InUse \ {qHead}} = (1 .. items) \ taken
    /\ \A m, n \in InUse \ {qHead} : data[m] = data[n] => m = n

(* What a thread read is still so, if nobody has moved head or tail.       *)
LocalsOf(r) ==
    /\ r.headFresh => r.head = qHead
    /\ r.tailFresh => r.tail = qTail
    /\ r.pc \in TailRead => r.tail \in InUse \/ qNext[r.tail] # End
    /\ r.tailFresh =>
          /\ r.pc = "help" => r.next = qNext[qTail]
          /\ r.pc = "help2" => r.tailNext = qNext[qTail]
          /\ r.pc \in {"grow", "movetail"} => r.node = qNext[qTail]
    /\ r.headFresh =>
          /\ r.pc = "readtailnext" => r.next \in {End, qNext[qHead]}
          /\ r.pc \in {"readdata", "movehead"} =>
                r.next = qNext[qHead] /\ qTail # qHead
          /\ r.pc = "movehead" => r.ret = data[r.next]
          /\ r.pc \in {"readnext2", "readtailnext"} /\ qTail = qHead =>
                r.tail = qHead

Locals == \A t \in Thread : LocalsOf(qTh[t])

BusyPc == Q!Place \ {"idle", "movetail", "delete"}
Busy == {t \in Thread : qTh[t].pc \in BusyPc}
Sized == qSize + Cardinality(Busy) = Cardinality(InUse) - 1

Closed(S) == \A n \in S : qNext[n] # End => qNext[n] \in S
Reaches(a, b) == \A S \in SUBSET Node : a \in S /\ Closed(S) => b \in S

(* The tail as r has read it is not behind a node that is not linked, or    *)
(* one that was made later than the one of r.                              *)
Behind(r) ==
    \A u \in Thread :
        Makes(u) /\ r.pc \in TailRead /\ Reaches(qTh[u].node, r.tail)
            => data[r.node] < data[r.tail]

Private ==
    /\ \A u \in Thread : Makes(u) =>
          /\ ~Reaches(qTh[u].node, qTail)
          /\ \A n \in Node :
                Reaches(qTh[u].node, n) => data[n] <= data[qTh[u].node]
    /\ \A t \in Thread : Behind(qTh[t])

Acyclic ==
    \A S \in SUBSET InUse :
        S = {} \/ \E n \in S : \A p \in S : qNext[p] # n

QueueInv ==
    /\ Types /\ Owners /\ Links /\ Numbers /\ Locals /\ Sized /\ Private
    /\ Acyclic

-----------------------------------------------------------------------------
(* What can be reached over _next. *)
LEMMA ReachNext ==
    ASSUME Types, QueueParameters, NEW a, NEW n \in Node, Reaches(a, n),
           qNext[n] # End
    PROVE  Reaches(a, qNext[n])
  BY DEF Reaches, Closed

LEMMA ReachLast ==
    ASSUME Types, NEW a \in Node, NEW b \in Node, Reaches(a, b), b # a
    PROVE  \E p \in Node : Reaches(a, p) /\ qNext[p] = b
  <1> DEFINE S == {n \in Node : /\ Reaches(a, n)
                                /\ n = a \/ \E p \in Node :
                                              Reaches(a, p) /\ qNext[p] = n}
  <1>1. a \in S
    BY DEF Reaches
  <1>2. ASSUME NEW n \in S, qNext[n] # End
        PROVE  qNext[n] \in S
    <2>1. n \in Node /\ Reaches(a, n)
      OBVIOUS
    <2>2. qNext[n] \in Node
      BY <1>2, <2>1 DEF Types
    <2>3. Reaches(a, qNext[n])
      BY <1>2, <2>1 DEF Reaches, Closed
    <2> QED
      BY <2>1, <2>2, <2>3
  <1>3. S \in SUBSET Node /\ Closed(S)
    <2> HIDE DEF S
    <2>1. Closed(S)
      BY <1>2 DEF Closed
    <2> QED
      BY <2>1 DEF S
  <1>4. b \in S
    <2> HIDE DEF S
    <2> QED
      BY <1>1, <1>3 DEF Reaches
  <1> QED
    BY <1>4

LEMMA ReachInUse ==
    ASSUME Types, Links, NEW a \in InUse, NEW b, Reaches(a, b)
    PROVE  b \in InUse
  <1>1. Closed(InUse) /\ InUse \in SUBSET Node
    BY DEF Closed, Links, InUse
  <1> QED
    BY <1>1 DEF Reaches

(* A node in front of one that can be reached can be reached, too, if it    *)
(* is the only one.                                                        *)
LEMMA ReachBack ==
    ASSUME Types, Links, NEW a \in InUse, NEW p \in InUse,
           qNext[p] # End, Reaches(a, qNext[p]), qNext[p] # a
    PROVE  Reaches(a, p)
  <1>1. qNext[p] \in InUse /\ InUse \subseteq Node
    BY DEF Links, InUse
  <1>2. PICK q \in Node : Reaches(a, q) /\ qNext[q] = qNext[p]
    BY <1>1, ReachLast
  <1>3. q \in InUse
    BY <1>2, ReachInUse
  <1> QED
    BY <1>2, <1>3 DEF Links

LEMMA ReachSame ==
    ASSUME qNext' = qNext, NEW a, NEW b
    PROVE  Reaches(a, b)' <=> Reaches(a, b)
  BY DEF Reaches, Closed

(* A node is linked behind x: what can be reached now, could be before, or  *)
(* from the new one.                                                       *)
LEMMA ReachLinked ==
    ASSUME Types, QueueParameters, NEW x \in Node, NEW m \in Node,
           qNext[x] = End, qNext' = [qNext EXCEPT ![x] = m],
           NEW a \in Node, NEW b \in Node, Reaches(a, b)'
    PROVE  Reaches(a, b) \/ (Reaches(a, x) /\ Reaches(m, b))
  <1> DEFINE S == {n \in Node : \/ Reaches(a, n)
                                \/ (Reaches(a, x) /\ Reaches(m, n))}
  <1>1. a \in S /\ S \in SUBSET Node
    BY DEF Reaches
  <1>2. ASSUME NEW n \in S, qNext'[n] # End
        PROVE  qNext'[n] \in S
    <2>1. CASE n = x
      <3>1. qNext'[n] = m
        BY <2>1 DEF Types
      <3>2. Reaches(m, m)
        BY DEF Reaches
      <3>3. Reaches(a, x)
        BY <2>1
      <3> QED
        BY <3>1, <3>2, <3>3
    <2>2. CASE n # x
      <3>1. qNext'[n] = qNext[n] /\ qNext[n] # End /\ qNext[n] \in Node
        BY <1>2, <2>2 DEF Types
      <3>2. CASE Reaches(a, n)
        BY <3>1, <3>2, ReachNext
      <3>3. CASE Reaches(a, x) /\ Reaches(m, n)
        BY <3>1, <3>3, ReachNext
      <3> QED
        BY <3>2, <3>3
    <2> QED
      BY <2>1, <2>2
  <1> HIDE DEF S
  <1>4. b \in S
    BY <1>1, <1>2 DEF Reaches, Closed
  <1> QED
    BY <1>4 DEF S

LEMMA ReachCut ==
    ASSUME Types, QueueParameters, NEW x \in Node,
           qNext' = [qNext EXCEPT ![x] = End],
           NEW a \in Node, NEW b \in Node, Reaches(a, b)'
    PROVE  Reaches(a, b)
  <1> DEFINE S == {n \in Node : Reaches(a, n)}
  <1>1. a \in S /\ S \in SUBSET Node
    BY DEF Reaches
  <1>2. ASSUME NEW n \in S, qNext'[n] # End
        PROVE  qNext'[n] \in S
    <2>1. n # x /\ qNext'[n] = qNext[n] /\ qNext[n] \in Node
      BY <1>2 DEF Types
    <2> QED
      BY <1>2, <2>1, ReachNext
  <1> HIDE DEF S
  <1>3. b \in S
    BY <1>1, <1>2 DEF Reaches, Closed
  <1> QED
    BY <1>3 DEF S

-----------------------------------------------------------------------------
(* A step of thread t leaves it with the locals r, and takes from the others *)
(* at most the belief that head or tail has not moved.                     *)
AsBefore(u) ==
    /\ qTh'[u].pc = qTh[u].pc /\ qTh'[u].node = qTh[u].node
    /\ qTh'[u].head = qTh[u].head /\ qTh'[u].tail = qTh[u].tail
    /\ qTh'[u].next = qTh[u].next /\ qTh'[u].tailNext = qTh[u].tailNext
    /\ qTh'[u].ret = qTh[u].ret
    /\ qTh'[u].headFresh => qTh[u].headFresh
    /\ qTh'[u].tailFresh => qTh[u].tailFresh

Moves(t, r) ==
    /\ qTh' \in [Thread -> ThreadType]
    /\ qTh'[t] = r
    /\ \A u \in Thread \ {t} : AsBefore(u)

LEMMA MovesAlone ==
    ASSUME Types, NEW t \in Thread, NEW r \in ThreadType,
           qTh' = [qTh EXCEPT ![t] = r]
    PROVE  Moves(t, r) /\ \A u \in Thread \ {t} : qTh'[u] = qTh[u]
  BY DEF Moves, AsBefore, Types

LEMMA StaleTypes ==
    ASSUME Types
    PROVE  /\ Q!StaleTail \in [Thread -> ThreadType]
           /\ Q!StaleHead \in [Thread -> ThreadType]
           /\ \A u \in Thread :
                 /\ Q!StaleTail[u].pc = qTh[u].pc
                 /\ Q!StaleTail[u].node = qTh[u].node
                 /\ Q!StaleTail[u].head = qTh[u].head
                 /\ Q!StaleTail[u].tail = qTh[u].tail
                 /\ Q!StaleTail[u].next = qTh[u].next
                 /\ Q!StaleTail[u].tailNext = qTh[u].tailNext
                 /\ Q!StaleTail[u].ret = qTh[u].ret
                 /\ Q!StaleTail[u].headFresh = qTh[u].headFresh
                 /\ ~Q!StaleTail[u].tailFresh
           /\ \A u \in Thread :
                 /\ Q!StaleHead[u].pc = qTh[u].pc
                 /\ Q!StaleHead[u].node = qTh[u].node
                 /\ Q!StaleHead[u].head = qTh[u].head
                 /\ Q!StaleHead[u].tail = qTh[u].tail
                 /\ Q!StaleHead[u].next = qTh[u].next
                 /\ Q!StaleHead[u].tailNext = qTh[u].tailNext
                 /\ Q!StaleHead[u].ret = qTh[u].ret
                 /\ ~Q!StaleHead[u].headFresh
                 /\ Q!StaleHead[u].tailFresh = qTh[u].tailFresh
  <1>1. \A u \in Thread : qTh[u] \in ThreadType
    BY DEF Types
  <1>2. ASSUME NEW u \in Thread
        PROVE  /\ Q!StaleTail[u] = [qTh[u] EXCEPT !.tailFresh = FALSE]
               /\ Q!StaleHead[u] = [qTh[u] EXCEPT !.headFresh = FALSE]
    BY DEF Q!StaleTail, Q!StaleHead
  <1>3. ASSUME NEW u \in Thread
        PROVE  Q!StaleTail[u] \in ThreadType /\ Q!StaleHead[u] \in ThreadType
    <2> DEFINE no == FALSE
    <2>1. no \in BOOLEAN /\ qTh[u] \in ThreadType
      BY <1>1
    <2>2. /\ Q!StaleTail[u] = [qTh[u] EXCEPT !.tailFresh = no]
          /\ Q!StaleHead[u] = [qTh[u] EXCEPT !.headFresh = no]
      BY <1>2
    <2> HIDE DEF no
    <2> QED
      BY <2>1, <2>2 DEF ThreadType
  <1>4. Q!StaleTail \in [Thread -> ThreadType]
        /\ Q!StaleHead \in [Thread -> ThreadType]
    BY <1>3 DEF Q!StaleTail, Q!StaleHead
  <1> QED
    BY <1>1, <1>2, <1>4 DEF ThreadType

LEMMA MovesTail ==
    ASSUME Types, NEW t \in Thread, NEW r \in ThreadType,
           qTh' = [Q!StaleTail EXCEPT ![t] = r]
    PROVE  Moves(t, r) /\ \A u \in Thread \ {t} : ~qTh'[u].tailFresh
  <1>1. Q!StaleTail \in [Thread -> ThreadType]
    BY StaleTypes
  <1>2. /\ qTh' \in [Thread -> ThreadType] /\ qTh'[t] = r
        /\ \A u \in Thread \ {t} : qTh'[u] = Q!StaleTail[u]
    BY <1>1
  <1> QED
    BY <1>2, StaleTypes DEF Moves, AsBefore

LEMMA MovesHead ==
    ASSUME Types, NEW t \in Thread, NEW r \in ThreadType,
           qTh' = [Q!StaleHead EXCEPT ![t] = r]
    PROVE  Moves(t, r) /\ \A u \in Thread \ {t} : ~qTh'[u].headFresh
  <1>1. Q!StaleHead \in [Thread -> ThreadType]
    BY StaleTypes
  <1>2. /\ qTh' \in [Thread -> ThreadType] /\ qTh'[t] = r
        /\ \A u \in Thread \ {t} : qTh'[u] = Q!StaleHead[u]
    BY <1>1
  <1> QED
    BY <1>2, StaleTypes DEF Moves, AsBefore

LEMMA TypesKept ==
    ASSUME Types, NEW t \in Thread, NEW r \in ThreadType, Moves(t, r),
           Filled(r), data' \in [Node -> 0 .. MaxItems],
           qNext' \in [Node -> Node \cup {End}],
           qHead' \in Node, qTail' \in Node, free' \in SUBSET Node,
           qSize' \in Int,
           items' \in 0 .. MaxItems, taken' \in SUBSET (1 .. items')
    PROVE  Types'
  <1>1. ASSUME NEW u \in Thread
        PROVE  Filled(qTh'[u])
    <2>1. CASE u = t
      BY <2>1 DEF Moves
    <2>2. CASE u # t
      <3>1. Filled(qTh[u]) /\ AsBefore(u)
        BY <2>2 DEF Types, Moves
      <3> QED
        BY <3>1 DEF Filled, AsBefore
    <2> QED
      BY <2>1, <2>2
  <1> QED
    BY <1>1 DEF Types, Moves, Filled

(* Who leaves, makes or is at work. *)
LEMMA GoneThen ==
    ASSUME Types, NEW t \in Thread, NEW r, Moves(t, r)
    PROVE  /\ ~Q!At(t, "delete") /\ r.pc # "delete" => Gone' = Gone
           /\ ~Q!At(t, "delete") /\ r.pc = "delete" => Gone' = Gone \cup {r.head}
           /\ Q!At(t, "delete") /\ r.pc # "delete" /\ Owners =>
                 Gone' = Gone \ {qTh[t].head}
  <1>1. /\ qTh'[t] = r
        /\ \A u \in Thread \ {t} : /\ Q!At(u, "delete")' <=> Q!At(u, "delete")
                                   /\ qTh'[u].head = qTh[u].head
    BY DEF Moves, AsBefore, Q!At
  <1>2. \A n : n \in Gone <=> \E u \in Thread : Q!At(u, "delete")
                                             /\ n = qTh[u].head
    BY DEF Gone
  <1>3. \A n : n \in Gone' <=> \E u \in Thread : Q!At(u, "delete")'
                                              /\ n = qTh'[u].head
    BY DEF Gone
  <1>4. Q!At(t, "delete")' <=> r.pc = "delete"
    BY <1>1 DEF Q!At
  <1>5. ASSUME ~Q!At(t, "delete"), r.pc # "delete"
        PROVE  Gone' = Gone
    <2>1. \A n : n \in Gone' <=> n \in Gone
      BY <1>1, <1>2, <1>3, <1>4, <1>5
    <2> QED
      BY <2>1
  <1>6. ~Q!At(t, "delete") /\ r.pc = "delete" => Gone' = Gone \cup {r.head}
    BY <1>1, <1>2, <1>3, <1>4
  <1>7. ASSUME Q!At(t, "delete"), r.pc # "delete", Owners
        PROVE  Gone' = Gone \ {qTh[t].head}
    <2>1. \A u \in Thread \ {t} : Q!At(u, "delete") => qTh[u].head # qTh[t].head
      BY <1>7 DEF Owners
    <2> QED
      BY <1>1, <1>2, <1>3, <1>4, <1>7, <2>1
  <1> QED
    BY <1>5, <1>6, <1>7

LEMMA NewThen ==
    ASSUME Types, NEW t \in Thread, NEW r, Moves(t, r)
    PROVE  /\ (/\ Makes(t) <=> r.pc \in Making
               /\ Makes(t) => r.node = qTh[t].node)
                => New' = New
           /\ ~Makes(t) /\ r.pc \in Making => New' = New \cup {r.node}
           /\ Makes(t) /\ r.pc \notin Making /\ Owners =>
                 New' = New \ {qTh[t].node}
  <1>1. /\ qTh'[t] = r
        /\ \A u \in Thread \ {t} : /\ Makes(u)' <=> Makes(u)
                                   /\ qTh'[u].node = qTh[u].node
    BY DEF Moves, AsBefore, Makes
  <1>2. \A n : n \in New <=> \E u \in Thread : Makes(u) /\ n = qTh[u].node
    BY DEF New
  <1>3. \A n : n \in New' <=> \E u \in Thread : Makes(u)' /\ n = qTh'[u].node
    BY DEF New
  <1>4. Makes(t)' <=> r.pc \in Making
    BY <1>1 DEF Makes
  <1>5. CASE /\ Makes(t) <=> r.pc \in Making
             /\ Makes(t) => r.node = qTh[t].node
    BY ZenonT(40), <1>1, <1>2, <1>3, <1>4, <1>5
  <1>6. CASE ~Makes(t) /\ r.pc \in Making
    BY <1>1, <1>2, <1>3, <1>4, <1>6
  <1>7. CASE Makes(t) /\ r.pc \notin Making /\ Owners
    <2>1. \A u \in Thread \ {t} : Makes(u) => qTh[u].node # qTh[t].node
      BY <1>7 DEF Owners
    <2> QED
      BY <1>1, <1>2, <1>3, <1>4, <1>7, <2>1
  <1> QED
    BY <1>5, <1>6, <1>7

AsOne(b) == IF b THEN 1 ELSE 0

LEMMA BusyThen ==
    ASSUME Types, QueueParameters, NEW t \in Thread, NEW r, Moves(t, r)
    PROVE  /\ Cardinality(Busy) \in Nat /\ Cardinality(Busy') \in Nat
           /\ Cardinality(Busy') + AsOne(qTh[t].pc \in BusyPc)
                = Cardinality(Busy) + AsOne(r.pc \in BusyPc)
  <1> DEFINE B == {u \in Thread \ {t} : qTh[u].pc \in BusyPc}
  <1>1. IsFiniteSet(B) /\ t \notin B
    <2>1. B \subseteq Thread
      OBVIOUS
    <2> QED
      BY <2>1, FS_Subset DEF QueueParameters
  <1>2. Busy = IF qTh[t].pc \in BusyPc THEN B \cup {t} ELSE B
    BY DEF Busy
  <1>3. Busy' = IF r.pc \in BusyPc THEN B \cup {t} ELSE B
    BY DEF Busy, Moves, AsBefore
  <1> HIDE DEF B
  <1>4. Cardinality(B) \in Nat /\ Cardinality(B \cup {t}) = Cardinality(B) + 1
    BY <1>1, FS_CardinalityType, FS_AddElement
  <1>5. Cardinality(Busy) = Cardinality(B) + AsOne(qTh[t].pc \in BusyPc)
    BY <1>2, <1>4 DEF AsOne
  <1>6. Cardinality(Busy') = Cardinality(B) + AsOne(r.pc \in BusyPc)
    BY <1>3, <1>4 DEF AsOne
  <1>7. AsOne(qTh[t].pc \in BusyPc) \in {0, 1} /\ AsOne(r.pc \in BusyPc) \in {0, 1}
    BY DEF AsOne
  <1> HIDE DEF AsOne
  <1> QED
    BY <1>4, <1>5, <1>6, <1>7

(* The nodes in use lose or gain one. *)
LEMMA InUseCount ==
    ASSUME Types, QueueParameters, NEW n \in Node
    PROVE  /\ Cardinality(InUse) \in Nat
           /\ n \notin InUse =>
                 Cardinality(InUse \cup {n}) = Cardinality(InUse) + 1
           /\ n \in InUse => Cardinality(InUse \ {n}) = Cardinality(InUse) - 1
  <1>1. IsFiniteSet(InUse)
    <2>1. InUse \subseteq Node
      BY DEF InUse
    <2> QED
      BY <2>1, FS_Subset DEF QueueParameters
  <1> QED
    BY <1>1, FS_CardinalityType, FS_AddElement, FS_RemoveElement

-----------------------------------------------------------------------------
(* A step that changes nothing but _size, the pool and the thread's own      *)
(* locals.                                                                 *)
LEMMA StillKeeps ==
    ASSUME QueueInv, QueueParameters, NEW t \in Thread, NEW r \in ThreadType,
           Moves(t, r), Filled(r), LocalsOf(r), Behind(r),
           data' = data, qNext' = qNext, qHead' = qHead, qTail' = qTail,
           items' = items, taken' = taken, qSize' \in Int, r.pc # "delete",
           free' = IF Q!At(t, "delete") THEN free \cup {qTh[t].head} ELSE free,
           Makes(t) <=> r.pc \in Making, Makes(t) => r.node = qTh[t].node,
           qSize' + AsOne(r.pc \in BusyPc) = qSize + AsOne(qTh[t].pc \in BusyPc)
    PROVE  QueueInv'
  <1>1. /\ Types /\ Owners /\ Links /\ Numbers /\ Locals /\ Sized /\ Private
        /\ Acyclic
    BY DEF QueueInv
  <1>2. New' = New /\ InUse' = InUse
    <2>1. CASE ~Q!At(t, "delete")
      BY <1>1, <2>1, GoneThen, NewThen DEF InUse
    <2>2. CASE Q!At(t, "delete")
      <3>1. Gone' = Gone \ {qTh[t].head} /\ qTh[t].head \in Gone
        BY <1>1, <2>2, GoneThen DEF Gone
      <3>2. free' = free \cup {qTh[t].head}
        BY <2>2
      <3> QED
        BY <1>1, <3>1, <3>2, NewThen DEF InUse
    <2> QED
      BY <2>1, <2>2
  <1>3. /\ qTh'[t] = r
        /\ \A u \in Thread \ {t} : AsBefore(u)
    BY DEF Moves
  <1>4. ASSUME NEW u \in Thread
        PROVE  /\ Makes(u)' <=> Makes(u)
               /\ Makes(u) => qTh'[u].node = qTh[u].node
               /\ Q!At(u, "delete")' <=> u # t /\ Q!At(u, "delete")
               /\ Q!At(u, "delete")' => qTh'[u].head = qTh[u].head
    <2>1. CASE u = t
      BY <1>3, <2>1 DEF Makes, Q!At
    <2>2. CASE u # t
      BY <1>3, <2>2 DEF Makes, Q!At, AsBefore
    <2> QED
      BY <2>1, <2>2
  <1>5. Types'
    <2>1. Q!At(t, "delete") => qTh[t].head \in Node
      BY <1>1 DEF Types, Filled, Q!At
    <2>2. free' \in SUBSET Node
      BY <1>1, <2>1 DEF Types
    <2> QED
      BY <1>1, <2>2, TypesKept DEF Types
  <1>6. Owners'
    <2>1. ASSUME NEW u \in Thread, Q!At(u, "delete")'
          PROVE  qTh'[u].head \notin free' /\ qNext[qTh'[u].head] # End
      <3>1. u # t /\ Q!At(u, "delete") /\ qTh'[u].head = qTh[u].head
        BY <1>4, <2>1
      <3>2. qTh[u].head \notin free /\ qNext[qTh[u].head] # End
        BY <1>1, <3>1 DEF Owners
      <3>3. Q!At(t, "delete") => qTh[t].head # qTh[u].head
        BY <1>1, <3>1 DEF Owners
      <3> QED
        BY <3>1, <3>2, <3>3
    <2>2. ASSUME NEW u \in Thread, Makes(u)'
          PROVE  qTh'[u].node \in InUse \ {qHead, qTail}
      BY <1>1, <1>4, <2>2 DEF Owners
    <2>3. ASSUME NEW u \in Thread, NEW v \in Thread,
                 Makes(u)', Makes(v)', qTh'[u].node = qTh'[v].node
          PROVE  u = v
      BY <1>1, <1>4, <2>3 DEF Owners
    <2>4. ASSUME NEW u \in Thread, NEW v \in Thread,
                 Q!At(u, "delete")', Q!At(v, "delete")', qTh'[u].head = qTh'[v].head
          PROVE  u = v
      BY <1>1, <1>4, <2>4 DEF Owners
    <2>5. qHead \in InUse /\ qTail \in InUse
      BY <1>1 DEF Owners
    <2> QED
      BY <1>2, <2>1, <2>2, <2>3, <2>4, <2>5 DEF Owners
  <1>7. Links' /\ Numbers' /\ Acyclic'
    BY <1>1, <1>2 DEF Links, Numbers, Acyclic
  <1>8. ASSUME NEW u \in Thread
        PROVE  LocalsOf(qTh[u])'
    <2>1. CASE u = t
      <3>1. qTh'[u] = r
        BY <1>3, <2>1
      <3> QED
        BY <1>2, <3>1 DEF LocalsOf
    <2>2. CASE u # t
      <3>1. LocalsOf(qTh[u]) /\ AsBefore(u)
        BY <1>1, <1>3, <2>2 DEF Locals
      <3> QED
        BY <1>2, <3>1 DEF LocalsOf, AsBefore
    <2> QED
      BY <2>1, <2>2
  <1>9. Sized'
    <2>1. /\ Cardinality(Busy) \in Nat /\ Cardinality(Busy') \in Nat
          /\ Cardinality(Busy') + AsOne(qTh[t].pc \in BusyPc)
                = Cardinality(Busy) + AsOne(r.pc \in BusyPc)
      BY <1>1, BusyThen
    <2>2. qSize + Cardinality(Busy) = Cardinality(InUse) - 1
          /\ qSize \in Int /\ Cardinality(InUse) \in Nat
      BY <1>1, InUseCount DEF Sized, Types
    <2>3. AsOne(qTh[t].pc \in BusyPc) \in Int /\ AsOne(r.pc \in BusyPc) \in Int
      BY DEF AsOne
    <2> HIDE DEF AsOne
    <2>4. qSize' + Cardinality(Busy') = Cardinality(InUse) - 1
      BY <2>1, <2>2, <2>3
    <2> QED
      BY <1>2, <2>4 DEF Sized
  <1>10. \A a, b : Reaches(a, b)' <=> Reaches(a, b)
    BY DEF Reaches, Closed
  <1>11. Private'
    <2>1. ASSUME NEW u \in Thread, Makes(u)'
          PROVE  /\ ~Reaches(qTh[u].node, qTail)'
                 /\ \A n \in Node :
                       Reaches(qTh[u].node, n)' => data[n] <= data[qTh'[u].node]
      <3>1. Makes(u) /\ qTh'[u].node = qTh[u].node
        BY <1>4, <2>1
      <3>2. PICK a : a = qTh[u].node
        OBVIOUS
      <3>3. /\ ~Reaches(a, qTail)
            /\ \A n \in Node : Reaches(a, n) => data[n] <= data[a]
        BY <1>1, <3>1, <3>2 DEF Private
      <3> QED
        BY <1>10, <3>1, <3>2, <3>3 DEF Reaches, Closed
    <2>2. ASSUME NEW v \in Thread, NEW u \in Thread,
                 Makes(u)', qTh'[v].pc \in TailRead,
                 Reaches(qTh[u].node, qTh[v].tail)'
          PROVE  data[qTh'[v].node] < data[qTh'[v].tail]
      <3>1. Makes(u) /\ qTh'[u].node = qTh[u].node
        BY <1>4, <2>2
      <3>2. PICK a, b : a = qTh'[u].node /\ b = qTh'[v].tail
        OBVIOUS
      <3>3. Reaches(a, b)
        BY <1>10, <2>2, <3>2 DEF Reaches, Closed
      <3>4. CASE v = t
        BY <1>3, <2>2, <3>1, <3>2, <3>3, <3>4 DEF Behind
      <3>5. CASE v # t
        <4>1. Behind(qTh[v]) /\ AsBefore(v)
          BY <1>1, <1>3, <3>5 DEF Private
        <4> QED
          BY <2>2, <3>1, <3>2, <3>3, <4>1 DEF Behind, AsBefore
      <3> QED
        BY <3>4, <3>5
    <2>3. \A v \in Thread : Behind(qTh[v])'
      BY <2>2 DEF Behind
    <2> QED
      BY <2>1, <2>3 DEF Private
  <1> QED
    BY <1>5, <1>6, <1>7, <1>8, <1>9, <1>11 DEF QueueInv, Locals

-----------------------------------------------------------------------------
(* The tail moves to the node behind it. *)
LEMMA TailKeeps ==
    ASSUME QueueInv, QueueParameters, NEW t \in Thread, NEW r \in ThreadType,
           Moves(t, r), Filled(r), LocalsOf(r), ~r.tailFresh,
           r.pc \notin TailRead,
           r.pc \notin {"delete", "readdata", "movehead"},
           \A u \in Thread \ {t} : ~qTh'[u].tailFresh,
           data' = data, qNext' = qNext, qHead' = qHead, qSize' = qSize,
           free' = free, items' = items, taken' = taken,
           qNext[qTail] # End, qTail' = qNext[qTail],
           ~Q!At(t, "delete"), Makes(t) <=> r.pc \in Making,
           Makes(t) => r.node = qTh[t].node,
           r.pc \in BusyPc <=> qTh[t].pc \in BusyPc
    PROVE  QueueInv'
  <1>1. /\ Types /\ Owners /\ Links /\ Numbers /\ Locals /\ Sized /\ Private
        /\ Acyclic
    BY DEF QueueInv
  <1>2. Gone' = Gone /\ New' = New /\ InUse' = InUse
    BY <1>1, GoneThen, NewThen DEF InUse
  <1>3. /\ qTh'[t] = r
        /\ \A u \in Thread \ {t} : AsBefore(u)
    BY DEF Moves
  <1>4. ASSUME NEW u \in Thread
        PROVE  /\ Makes(u)' <=> Makes(u)
               /\ Makes(u) => qTh'[u].node = qTh[u].node
               /\ Q!At(u, "delete")' <=> Q!At(u, "delete")
               /\ Q!At(u, "delete") => qTh'[u].head = qTh[u].head
    <2>1. CASE u = t
      BY <1>3, <2>1 DEF Makes, Q!At
    <2>2. CASE u # t
      BY <1>3, <2>2 DEF Makes, Q!At, AsBefore
    <2> QED
      BY <2>1, <2>2
  <1>5. /\ qTail \in InUse /\ qTail' \in InUse
        /\ qTail' # qHead /\ qTail' \notin New /\ qTail' \in Node
    BY <1>1 DEF Owners, Links, InUse
  <1>6. Types'
    BY <1>1, <1>5, TypesKept DEF Types
  <1>7. Owners'
    <2>1. ASSUME NEW u \in Thread, Q!At(u, "delete")'
          PROVE  qTh'[u].head \notin free /\ qNext[qTh'[u].head] # End
      BY <1>1, <1>4, <2>1 DEF Owners
    <2>2. ASSUME NEW u \in Thread, Makes(u)'
          PROVE  qTh'[u].node \in InUse \ {qHead, qTail'}
      <3>1. Makes(u) /\ qTh'[u].node = qTh[u].node
        BY <1>4, <2>2
      <3>2. qTh[u].node \in New
        BY <3>1 DEF New
      <3> QED
        BY <1>1, <1>5, <3>1, <3>2 DEF Owners
    <2>3. ASSUME NEW u \in Thread, NEW v \in Thread,
                 Makes(u)', Makes(v)', qTh'[u].node = qTh'[v].node
          PROVE  u = v
      BY <1>1, <1>4, <2>3 DEF Owners
    <2>4. ASSUME NEW u \in Thread, NEW v \in Thread,
                 Q!At(u, "delete")', Q!At(v, "delete")', qTh'[u].head = qTh'[v].head
          PROVE  u = v
      BY <1>1, <1>4, <2>4 DEF Owners
    <2>5. qHead \in InUse
      BY <1>1 DEF Owners
    <2> QED
      BY <1>2, <1>5, <2>1, <2>2, <2>3, <2>4, <2>5 DEF Owners
  <1>8. Links' /\ Numbers' /\ Acyclic'
    BY <1>1, <1>2 DEF Links, Numbers, Acyclic
  <1>9. ASSUME NEW u \in Thread
        PROVE  LocalsOf(qTh[u])'
    <2>1. CASE u = t
      <3>1. qTh'[u] = r
        BY <1>3, <2>1
      <3> QED
        BY <1>2, <1>5, <3>1 DEF LocalsOf
    <2>2. CASE u # t
      <3>1. LocalsOf(qTh[u]) /\ AsBefore(u) /\ ~qTh'[u].tailFresh
        BY <1>1, <1>3, <2>2 DEF Locals
      <3> QED
        BY <1>2, <1>5, <3>1 DEF LocalsOf, AsBefore
    <2> QED
      BY <2>1, <2>2
  <1>10. Sized'
    <2>1. /\ Cardinality(Busy) \in Nat /\ Cardinality(Busy') \in Nat
          /\ Cardinality(Busy') + AsOne(qTh[t].pc \in BusyPc)
                = Cardinality(Busy) + AsOne(r.pc \in BusyPc)
      BY <1>1, BusyThen
    <2>2. AsOne(qTh[t].pc \in BusyPc) = AsOne(r.pc \in BusyPc)
          /\ AsOne(qTh[t].pc \in BusyPc) \in Int
      BY DEF AsOne
    <2> HIDE DEF AsOne
    <2>3. Cardinality(Busy') = Cardinality(Busy)
      BY <2>1, <2>2
    <2> QED
      BY <1>1, <1>2, <2>3 DEF Sized
  <1>11. \A a, b : Reaches(a, b)' <=> Reaches(a, b)
    BY DEF Reaches, Closed
  <1>12. Private'
    <2>1. ASSUME NEW u \in Thread, Makes(u)'
          PROVE  /\ ~Reaches(qTh[u].node, qTail)'
                 /\ \A n \in Node :
                       Reaches(qTh[u].node, n)' => data[n] <= data[qTh'[u].node]
      <3>1. Makes(u) /\ qTh'[u].node = qTh[u].node
        BY <1>4, <2>1
      <3>2. PICK a, b : a = qTh[u].node /\ b = qTail'
        OBVIOUS
      <3>3. /\ ~Reaches(a, qTail)
            /\ \A n \in Node : Reaches(a, n) => data[n] <= data[a]
        BY <1>1, <3>1, <3>2 DEF Private
      <3>4. a \in InUse /\ a \in New
        BY <1>1, <3>1, <3>2 DEF Owners, New
      <3>5. ~Reaches(a, b)
        <4> SUFFICES ASSUME Reaches(a, b) PROVE FALSE
          OBVIOUS
        <4>1. Reaches(a, qNext[qTail]) /\ qNext[qTail] # a
          BY <1>5, <3>2, <3>4
        <4>2. Reaches(a, qTail)
          BY <1>1, <1>5, <3>4, <4>1, ReachBack
        <4> QED
          BY <3>3, <4>2
      <3> QED
        BY <1>11, <3>1, <3>2, <3>3, <3>5 DEF Reaches, Closed
    <2>2. ASSUME NEW v \in Thread, NEW u \in Thread,
                 Makes(u)', qTh'[v].pc \in TailRead,
                 Reaches(qTh[u].node, qTh[v].tail)'
          PROVE  data[qTh'[v].node] < data[qTh'[v].tail]
      <3>1. Makes(u) /\ qTh'[u].node = qTh[u].node
        BY <1>4, <2>2
      <3>2. PICK a, b : a = qTh'[u].node /\ b = qTh'[v].tail
        OBVIOUS
      <3>3. Reaches(a, b)
        BY <1>11, <2>2, <3>2 DEF Reaches, Closed
      <3>4. v # t
        BY <1>3, <2>2
      <3>5. Behind(qTh[v]) /\ AsBefore(v)
        BY <1>1, <1>3, <3>4 DEF Private
      <3> QED
        BY <2>2, <3>1, <3>2, <3>3, <3>5 DEF Behind, AsBefore
    <2>3. \A v \in Thread : Behind(qTh[v])'
      BY <2>2 DEF Behind
    <2> QED
      BY <2>1, <2>3 DEF Private
  <1> QED
    BY <1>6, <1>7, <1>8, <1>9, <1>10, <1>12 DEF QueueInv, Locals

-----------------------------------------------------------------------------
(* A node is linked behind x, which is the last in the queue or in the hands *)
(* of another Enqueue.                                                     *)
LEMMA LinkKeeps ==
    ASSUME QueueInv, QueueParameters, NEW t \in Thread, NEW r \in ThreadType,
           NEW x, NEW m, x = qTh[t].tail, m = qTh[t].node,
           Moves(t, r), Filled(r), Q!At(t, "link"), r.pc = "grow",
           r.node = m, r.tail = x, r.head = qTh[t].head,
           r.headFresh = qTh[t].headFresh, r.tailFresh = qTh[t].tailFresh,
           qNext[x] = End, qNext' = [qNext EXCEPT ![x] = m],
           data' = data, qHead' = qHead, qTail' = qTail, qSize' = qSize,
           free' = free, items' = items, taken' = taken
    PROVE  QueueInv'
  <1>1. /\ Types /\ Owners /\ Links /\ Numbers /\ Locals /\ Sized /\ Private
        /\ Acyclic
    BY DEF QueueInv
  <1>2. Makes(t) /\ ~Q!At(t, "delete") /\ r.pc \notin Making
    BY DEF Makes, Q!At, Making
  <1>3. Gone' = Gone /\ New' = New \ {m} /\ InUse' = InUse
    BY <1>1, <1>2, GoneThen, NewThen DEF InUse
  <1>4. /\ qTh'[t] = r
        /\ \A u \in Thread \ {t} : AsBefore(u)
    BY DEF Moves
  <1>5. ASSUME NEW u \in Thread
        PROVE  /\ Makes(u)' => u # t /\ Makes(u) /\ qTh'[u].node = qTh[u].node
               /\ Q!At(u, "delete")' => Q!At(u, "delete")
               /\ Q!At(u, "delete") => qTh'[u].head = qTh[u].head
    <2>1. CASE u = t
      BY <1>4, <2>1 DEF Makes, Q!At, Making
    <2>2. CASE u # t
      BY <1>4, <2>2 DEF Makes, Q!At, AsBefore
    <2> QED
      BY <2>1, <2>2
  <1>6. /\ m \in InUse /\ m # qHead /\ m # qTail /\ m \in New
    BY <1>1, <1>2 DEF Owners, New
  <1>7. InUse \subseteq Node /\ m \in Node /\ m # End
    BY <1>6 DEF InUse, QueueParameters
  <1>8. x \in InUse /\ x \in Node
    <2>1. LocalsOf(qTh[t]) /\ qTh[t].pc \in TailRead
      BY <1>1 DEF Locals, Q!At, TailRead
    <2> QED
      BY <1>7, <2>1 DEF LocalsOf
  <1>9. /\ qNext'[x] = m
        /\ \A n \in Node \ {x} : qNext'[n] = qNext[n]
    BY <1>1, <1>8 DEF Types
  <1>10. Types'
    <2>1. qNext' \in [Node -> Node \cup {End}]
      BY <1>1, <1>7 DEF Types
    <2> QED
      BY <1>1, <2>1, TypesKept DEF Types
  <1>11. Owners'
    <2>1. ASSUME NEW u \in Thread, Q!At(u, "delete")'
          PROVE  qTh'[u].head \notin free /\ qNext'[qTh'[u].head] # End
      <3>1. qTh'[u].head = qTh[u].head /\ qTh[u].head \in Node
        BY <1>1, <1>5, <2>1 DEF Types, Filled, Q!At
      <3>2. qTh[u].head \notin free /\ qNext[qTh[u].head] # End
        BY <1>1, <1>5, <2>1 DEF Owners
      <3> QED
        BY <1>7, <1>9, <3>1, <3>2
    <2>2. ASSUME NEW u \in Thread, Makes(u)'
          PROVE  qTh'[u].node \in InUse \ {qHead, qTail}
      BY <1>1, <1>5, <2>2 DEF Owners
    <2>3. ASSUME NEW u \in Thread, NEW v \in Thread,
                 Makes(u)', Makes(v)', qTh'[u].node = qTh'[v].node
          PROVE  u = v
      BY <1>1, <1>5, <2>3 DEF Owners
    <2>4. ASSUME NEW u \in Thread, NEW v \in Thread,
                 Q!At(u, "delete")', Q!At(v, "delete")', qTh'[u].head = qTh'[v].head
          PROVE  u = v
      BY <1>1, <1>5, <2>4 DEF Owners
    <2>5. qHead \in InUse /\ qTail \in InUse
      BY <1>1 DEF Owners
    <2> QED
      BY <1>3, <2>1, <2>2, <2>3, <2>4, <2>5 DEF Owners
  <1>12. Links'
    <2>1. ASSUME NEW n \in InUse, qNext'[n] # End
          PROVE  qNext'[n] \in InUse \ ({qHead} \cup (New \ {m}))
      <3>1. CASE n = x
        BY <1>6, <1>9, <3>1
      <3>2. CASE n # x
        <4>1. qNext'[n] = qNext[n]
          BY <1>7, <1>9, <3>2
        <4> QED
          BY <1>1, <2>1, <4>1 DEF Links
      <3> QED
        BY <3>1, <3>2
    <2>2. ASSUME NEW a \in InUse, NEW b \in InUse,
                 qNext'[a] = qNext'[b], qNext'[a] # End
          PROVE  a = b
      <3>1. \A n \in InUse : n # x => qNext'[n] = qNext[n] /\ qNext[n] # m
        <4>1. ASSUME NEW n \in InUse, n # x
              PROVE  qNext'[n] = qNext[n]
          BY <1>7, <1>9, <4>1
        <4>2. ASSUME NEW n \in InUse
              PROVE  qNext[n] # m
          BY <1>1, <1>6, <1>7 DEF Links
        <4> QED
          BY <4>1, <4>2
      <3> QED
        BY <1>1, <1>9, <2>2, <3>1 DEF Links
    <2>3. ASSUME NEW n \in InUse \ ({qHead} \cup (New \ {m}))
          PROVE  \E p \in InUse : qNext'[p] = n
      <3>1. CASE n = m
        BY <1>8, <1>9, <3>1
      <3>2. CASE n # m
        <4>1. PICK p \in InUse : qNext[p] = n
          BY <1>1, <3>2 DEF Links
        <4>2. n # End
          BY <1>7 DEF QueueParameters
        <4>3. p # x /\ p \in Node
          BY <1>7, <4>1, <4>2
        <4> QED
          BY <1>9, <4>1, <4>3
      <3> QED
        BY <3>1, <3>2
    <2>4. \A n \in InUse : qNext'[n] # End =>
              qNext'[n] \in InUse \ ({qHead} \cup (New \ {m}))
      BY <2>1
    <2>5. \A a, b \in InUse : qNext'[a] = qNext'[b] /\ qNext'[a] # End => a = b
      BY <2>2
    <2>6. \A n \in InUse \ ({qHead} \cup (New \ {m})) :
              \E p \in InUse : qNext'[p] = n
      BY <2>3
    <2> QED
      BY <1>3, <2>4, <2>5, <2>6 DEF Links
  <1>13. Numbers'
    BY <1>1, <1>3 DEF Numbers
  <1>14. \A n \in Node : qNext[n] # End => qNext'[n] = qNext[n]
    BY <1>9
  <1>15. qHead \in Node /\ qTail \in Node
    BY <1>1 DEF Types
  <1>16. ASSUME NEW u \in Thread
         PROVE  LocalsOf(qTh[u])'
    <2>1. CASE u = t
      <3>1. LocalsOf(qTh[t])
        BY <1>1 DEF Locals
      <3>2. qTh'[u] = r
        BY <1>4, <2>1
      <3>3. qTh[t].tailFresh => x = qTail
        BY <3>1 DEF LocalsOf
      <3>4. qTh[t].headFresh => qTh[t].head = qHead
        BY <3>1 DEF LocalsOf
      <3> QED
        BY <1>9, <3>2, <3>3, <3>4 DEF LocalsOf, TailRead
    <2>2. CASE u # t
      <3>1. LocalsOf(qTh[u]) /\ AsBefore(u) /\ Filled(qTh[u])
        BY <1>1, <1>4, <2>2 DEF Locals, Types
      <3>2. /\ qTh'[u].headFresh => qTh'[u].head = qHead
            /\ qTh'[u].tailFresh => qTh'[u].tail = qTail
        BY <3>1 DEF LocalsOf, AsBefore
      <3>3. qTh'[u].pc \in TailRead =>
               qTh'[u].tail \in InUse \/ qNext'[qTh'[u].tail] # End
        <4>1. qTh[u].pc \in TailRead => qTh[u].tail \in Node
          BY <3>1 DEF Filled
        <4> QED
          BY <1>14, <3>1, <4>1 DEF LocalsOf, AsBefore
      <3>4. qTh'[u].tailFresh =>
               /\ qTh'[u].pc = "help" => qTh'[u].next = qNext'[qTail]
               /\ qTh'[u].pc = "help2" => qTh'[u].tailNext = qNext'[qTail]
               /\ qTh'[u].pc \in {"grow", "movetail"} =>
                     qTh'[u].node = qNext'[qTail]
        <4>1. End \notin Node
          BY DEF QueueParameters
        <4>2. /\ qTh[u].pc = "help" => qTh[u].next \in Node
              /\ qTh[u].pc = "help2" => qTh[u].tailNext \in Node
              /\ qTh[u].pc \in {"grow", "movetail"} => qTh[u].node \in Node
          BY <3>1 DEF Filled
        <4>3. qTh[u].tailFresh =>
                 /\ qTh[u].pc = "help" => qTh[u].next = qNext[qTail]
                 /\ qTh[u].pc = "help2" => qTh[u].tailNext = qNext[qTail]
                 /\ qTh[u].pc \in {"grow", "movetail"} =>
                       qTh[u].node = qNext[qTail]
          BY <3>1 DEF LocalsOf
        <4> QED
          BY <1>14, <1>15, <3>1, <4>1, <4>2, <4>3 DEF AsBefore
      <3>5. qTh'[u].headFresh =>
               /\ qTh'[u].pc = "readtailnext" =>
                     qTh'[u].next \in {End, qNext'[qHead]}
               /\ qTh'[u].pc \in {"readdata", "movehead"} =>
                     qTh'[u].next = qNext'[qHead] /\ qTail # qHead
               /\ qTh'[u].pc = "movehead" => qTh'[u].ret = data[qTh'[u].next]
               /\ qTh'[u].pc \in {"readnext2", "readtailnext"} /\ qTail = qHead =>
                     qTh'[u].tail = qHead
        <4>1. End \notin Node
          BY DEF QueueParameters
        <4>2. qTh[u].pc \in {"readdata", "movehead"} => qTh[u].next \in Node
          BY <3>1 DEF Filled
        <4>3. qTh[u].headFresh =>
               /\ qTh[u].pc = "readtailnext" => qTh[u].next \in {End, qNext[qHead]}
               /\ qTh[u].pc \in {"readdata", "movehead"} =>
                     qTh[u].next = qNext[qHead] /\ qTail # qHead
               /\ qTh[u].pc = "movehead" => qTh[u].ret = data[qTh[u].next]
               /\ qTh[u].pc \in {"readnext2", "readtailnext"} /\ qTail = qHead =>
                     qTh[u].tail = qHead
          BY <3>1 DEF LocalsOf
        <4> QED
          BY <1>14, <1>15, <3>1, <4>1, <4>2, <4>3 DEF AsBefore
      <3> QED
        BY <1>3, <3>2, <3>3, <3>4, <3>5 DEF LocalsOf
    <2> QED
      BY <2>1, <2>2
  <1>17. Sized'
    <2>1. /\ Cardinality(Busy) \in Nat /\ Cardinality(Busy') \in Nat
          /\ Cardinality(Busy') + AsOne(qTh[t].pc \in BusyPc)
                = Cardinality(Busy) + AsOne(r.pc \in BusyPc)
      BY <1>1, BusyThen
    <2>2. AsOne(qTh[t].pc \in BusyPc) = 1 /\ AsOne(r.pc \in BusyPc) = 1
      BY DEF AsOne, BusyPc, Q!Place, Q!At
    <2>3. Cardinality(Busy') = Cardinality(Busy)
      BY <2>1, <2>2
    <2> QED
      BY <1>1, <1>3, <2>3 DEF Sized
  <1>18. ASSUME NEW a \in Node, NEW b \in Node, Reaches(a, b)'
         PROVE  Reaches(a, b) \/ (Reaches(a, x) /\ Reaches(m, b))
    BY <1>1, <1>7, <1>8, <1>18, ReachLinked
  <1>19. /\ ~Reaches(m, qTail)
         /\ \A n \in Node : Reaches(m, n) => data[n] <= data[m]
    BY <1>1, <1>2 DEF Private
  <1>20. \A u \in Thread :
            Makes(u) /\ Reaches(qTh[u].node, x) => data[m] < data[x]
    BY <1>1 DEF Private, Behind, Q!At, TailRead
  <1>21. data \in [Node -> 0 .. MaxItems]
    BY <1>1 DEF Types
  <1>22. ~Reaches(m, x)
    <2>1. Reaches(m, x) => data[m] < data[x] /\ data[x] <= data[m]
      BY <1>2, <1>8, <1>19, <1>20
    <2> QED
      BY <1>7, <1>8, <1>21, <2>1
  <1>23. Private'
    <2>1. ASSUME NEW u \in Thread, Makes(u)'
          PROVE  /\ ~Reaches(qTh[u].node, qTail)'
                 /\ \A n \in Node :
                       Reaches(qTh[u].node, n)' => data[n] <= data[qTh'[u].node]
      <3>1. Makes(u) /\ qTh'[u].node = qTh[u].node
        BY <1>5, <2>1
      <3>2. PICK a : a = qTh[u].node
        OBVIOUS
      <3>3. PICK b : b = qTail
        OBVIOUS
      <3>4. /\ ~Reaches(a, b)
            /\ \A n \in Node : Reaches(a, n) => data[n] <= data[a]
        BY <1>1, <3>1, <3>2, <3>3 DEF Private
      <3>5. a \in Node
        BY <1>1, <1>7, <3>1, <3>2 DEF Owners
      <3>6. Reaches(a, x) => data[m] <= data[a]
        <4> SUFFICES ASSUME Reaches(a, x) PROVE data[m] <= data[a]
          OBVIOUS
        <4>1. data[m] < data[x] /\ data[x] <= data[a]
          BY <1>8, <1>20, <3>1, <3>2, <3>4
        <4> QED
          BY <1>7, <1>8, <1>21, <3>5, <4>1
      <3>7. ASSUME NEW n \in Node, Reaches(a, n)'
            PROVE  data[n] <= data[a]
        <4>1. Reaches(a, n) \/ (Reaches(a, x) /\ Reaches(m, n))
          BY <1>18, <3>5, <3>7
        <4>2. Reaches(a, x) /\ Reaches(m, n) =>
                 data[n] <= data[m] /\ data[m] <= data[a]
          BY <1>19, <3>6
        <4>3. data[n] \in Nat /\ data[m] \in Nat /\ data[a] \in Nat
          BY <1>7, <1>21, <3>5
        <4> QED
          BY <3>4, <4>1, <4>2, <4>3
      <3>8. ~Reaches(a, b)'
        BY <1>15, <1>18, <1>19, <3>3, <3>4, <3>5
      <3>9. qTh'[u].node = a /\ qTail' = b
        BY <3>1, <3>2, <3>3
      <3> QED
        BY <3>7, <3>8, <3>9 DEF Reaches, Closed
    <2>2. ASSUME NEW v \in Thread, NEW u \in Thread,
                 Makes(u)', qTh'[v].pc \in TailRead,
                 Reaches(qTh[u].node, qTh[v].tail)'
          PROVE  data[qTh'[v].node] < data[qTh'[v].tail]
      <3>1. u # t /\ Makes(u) /\ qTh'[u].node = qTh[u].node
        BY <1>5, <2>2
      <3>2. v # t
        BY <1>4, <2>2 DEF TailRead
      <3>3. Behind(qTh[v]) /\ AsBefore(v) /\ qTh[v].pc \in TailRead
        BY <1>1, <1>4, <2>2, <3>2 DEF Private, AsBefore
      <3>4. PICK a : a = qTh'[u].node
        OBVIOUS
      <3>5. PICK b : b = qTh'[v].tail
        OBVIOUS
      <3>6. a = qTh[u].node /\ b = qTh[v].tail
        BY <3>1, <3>3, <3>4, <3>5 DEF AsBefore
      <3>7. a \in Node /\ b \in Node
        BY <1>1, <1>7, <3>1, <3>3, <3>6 DEF Owners, Types, Filled
      <3>8. Reaches(a, b)'
        BY <2>2, <3>4, <3>5 DEF Reaches, Closed
      <3>9. Reaches(a, b) \/ (Reaches(a, x) /\ Reaches(m, b))
        BY <1>18, <3>7, <3>8
      <3>10. Reaches(a, b) \/ Reaches(m, b)
                => data[qTh[v].node] < data[qTh[v].tail]
        BY <1>2, <3>1, <3>3, <3>6 DEF Behind
      <3> QED
        BY <3>3, <3>9, <3>10 DEF AsBefore
    <2>3. \A v \in Thread : Behind(qTh[v])'
      BY <2>2 DEF Behind
    <2> QED
      BY <2>1, <2>3 DEF Private
  <1>24. Acyclic'
    <2>1. ASSUME NEW S \in SUBSET InUse, S # {}
          PROVE  \E n \in S : \A p \in S : qNext'[p] # n
      <3>1. \A p \in S : p \in Node
        BY <1>7
      <3>2. CASE x \notin S
        <4>1. \A p \in S : qNext'[p] = qNext[p]
          BY <1>9, <3>1, <3>2
        <4> QED
          BY <1>1, <2>1, <4>1 DEF Acyclic
      <3>3. CASE m \notin S
        <4>1. PICK n \in S : \A p \in S : qNext[p] # n
          BY <1>1, <2>1 DEF Acyclic
        <4>2. \A p \in S : qNext'[p] # n
          BY <1>9, <3>1, <3>3, <4>1
        <4> QED
          BY <4>2
      <3>4. CASE x \in S /\ m \in S
        <4> DEFINE U == {n \in S : ~Reaches(m, n)}
        <4>1. x \in U /\ U \in SUBSET InUse
          BY <1>22, <3>4
        <4>2. PICK n \in U : \A p \in U : qNext[p] # n
          BY <1>1, <4>1 DEF Acyclic
        <4>3. n # m
          BY DEF Reaches
        <4>4. ASSUME NEW p \in S, qNext'[p] = n
              PROVE  FALSE
          <5>1. p # x /\ qNext[p] = n /\ p \in Node
            BY <1>9, <3>1, <4>3, <4>4
          <5>2. Reaches(m, p)
            BY <4>2, <5>1
          <5>3. n # End
            BY <3>1 DEF QueueParameters
          <5>4. Reaches(m, n)
            BY <1>1, <5>1, <5>2, <5>3, ReachNext
          <5> QED
            BY <5>4
        <4> QED
          BY <4>4
      <3> QED
        BY <3>2, <3>3, <3>4
    <2> QED
      BY <1>3, <2>1 DEF Acyclic
  <1> QED
    BY <1>10, <1>11, <1>12, <1>13, <1>16, <1>17, <1>23, <1>24 DEF QueueInv,
       Locals

-----------------------------------------------------------------------------
(* The head moves to the node behind it. *)
LEMMA HeadKeeps ==
    ASSUME QueueInv, QueueParameters, NEW t \in Thread, NEW r \in ThreadType,
           Moves(t, r), Filled(r), Q!At(t, "movehead"), qTh[t].headFresh,
           r.pc = "delete", r.head = qTh[t].head, r.tail = qTh[t].tail,
           ~r.headFresh, r.tailFresh = qTh[t].tailFresh,
           \A u \in Thread \ {t} : ~qTh'[u].headFresh,
           qHead' = qTh[t].next, taken' = taken \cup {qTh[t].ret},
           data' = data, qNext' = qNext, qTail' = qTail, qSize' = qSize,
           free' = free, items' = items
    PROVE  QueueInv'
  <1>1. /\ Types /\ Owners /\ Links /\ Numbers /\ Locals /\ Sized /\ Private
        /\ Acyclic
    BY DEF QueueInv
  <1>2. ~Makes(t) /\ ~Q!At(t, "delete") /\ r.pc \notin Making
    BY DEF Makes, Q!At, Making
  <1>3. /\ qTh'[t] = r
        /\ \A u \in Thread \ {t} : AsBefore(u)
    BY DEF Moves
  <1>4. ASSUME NEW u \in Thread
        PROVE  /\ Makes(u)' <=> Makes(u)
               /\ Makes(u) => u # t /\ qTh'[u].node = qTh[u].node
               /\ Q!At(u, "delete")' <=> u = t \/ Q!At(u, "delete")
               /\ Q!At(u, "delete") => qTh'[u].head = qTh[u].head
    <2>1. CASE u = t
      BY <1>2, <1>3, <2>1 DEF Makes, Q!At
    <2>2. CASE u # t
      BY <1>3, <2>2 DEF Makes, Q!At, AsBefore
    <2> QED
      BY <2>1, <2>2
  <1>5. LocalsOf(qTh[t]) /\ Filled(qTh[t])
    BY <1>1 DEF Locals, Types
  <1>6. /\ qTh[t].head = qHead /\ qHead' = qNext[qHead] /\ qTail # qHead
        /\ qNext[qHead] \in Node /\ qTh[t].ret = data[qNext[qHead]]
    BY <1>5 DEF LocalsOf, Filled, Q!At
  <1>7. InUse \subseteq Node /\ qHead \in InUse /\ qTail \in InUse
    BY <1>1 DEF InUse, Owners
  <1>8. /\ qHead' \in InUse /\ qHead' # qHead /\ qHead' \notin New
        /\ qNext[qHead] # End /\ qHead' # End
    BY <1>1, <1>6, <1>7 DEF Links, QueueParameters
  <1>9. /\ Gone' = Gone \cup {qHead} /\ New' = New /\ InUse' = InUse \ {qHead}
    <2>1. Gone' = Gone \cup {qHead}
      BY <1>1, <1>2, <1>6, GoneThen
    <2>2. New' = New
      BY <1>1, <1>2, NewThen
    <2> QED
      BY <2>1, <2>2 DEF InUse
  <1>10. qTh[t].ret \in (1 .. items) \ taken
    BY <1>1, <1>6, <1>8 DEF Numbers
  <1>11. Types'
    <2>1. taken' \in SUBSET (1 .. items)
      BY <1>1, <1>10 DEF Types
    <2>2. qHead' \in Node
      BY <1>6
    <2> QED
      BY <1>1, <2>1, <2>2, TypesKept DEF Types
  <1>12. Owners'
    <2>1. ASSUME NEW u \in Thread, Q!At(u, "delete")'
          PROVE  qTh'[u].head \notin free /\ qNext[qTh'[u].head] # End
      <3>1. CASE u = t
        BY <1>3, <1>6, <1>7, <1>8, <3>1 DEF InUse
      <3>2. CASE u # t
        BY <1>1, <1>4, <2>1, <3>2 DEF Owners
      <3> QED
        BY <3>1, <3>2
    <2>2. ASSUME NEW u \in Thread, Makes(u)'
          PROVE  qTh'[u].node \in (InUse \ {qHead}) \ {qHead', qTail}
      <3>1. Makes(u) /\ qTh'[u].node = qTh[u].node
        BY <1>4, <2>2
      <3>2. qTh[u].node \in New
        BY <3>1 DEF New
      <3> QED
        BY <1>1, <1>8, <3>1, <3>2 DEF Owners
    <2>3. ASSUME NEW u \in Thread, NEW v \in Thread,
                 Makes(u)', Makes(v)', qTh'[u].node = qTh'[v].node
          PROVE  u = v
      BY <1>1, <1>4, <2>3 DEF Owners
    <2>4. ASSUME NEW u \in Thread, NEW v \in Thread,
                 Q!At(u, "delete")', Q!At(v, "delete")', qTh'[u].head = qTh'[v].head
          PROVE  u = v
      <3>1. \A w \in Thread : Q!At(w, "delete") => qTh[w].head # qHead
        <4>1. \A w \in Thread : Q!At(w, "delete") => qTh[w].head \in Gone
          BY DEF Gone
        <4> QED
          BY <1>7, <4>1 DEF InUse
      <3>2. qTh'[t].head = qHead
        BY <1>3, <1>6
      <3>3. \A w \in Thread \ {t} : Q!At(w, "delete")' =>
                 Q!At(w, "delete") /\ qTh'[w].head = qTh[w].head
        BY <1>4
      <3>4. \A w \in Thread \ {t} : Q!At(w, "delete")' => qTh'[w].head # qHead
        BY <3>1, <3>3
      <3>5. CASE u = t \/ v = t
        BY <2>4, <3>2, <3>4, <3>5
      <3>6. CASE u # t /\ v # t
        BY <1>1, <2>4, <3>3, <3>6 DEF Owners
      <3> QED
        BY <3>5, <3>6
    <2>5. qHead' \in InUse \ {qHead} /\ qTail \in InUse \ {qHead}
      BY <1>6, <1>7, <1>8
    <2> QED
      BY <1>9, <2>1, <2>2, <2>3, <2>4, <2>5 DEF Owners
  <1>13. Links'
    <2>1. ASSUME NEW n \in InUse \ {qHead}, qNext[n] # End
          PROVE  qNext[n] \in (InUse \ {qHead}) \ ({qHead'} \cup New)
      <3>1. qNext[n] \in InUse \ ({qHead} \cup New)
        BY <1>1, <2>1 DEF Links
      <3>2. qNext[n] # qHead'
        BY <1>1, <1>6, <1>7, <2>1 DEF Links
      <3> QED
        BY <3>1, <3>2
    <2>2. \A a, b \in InUse \ {qHead} :
              qNext[a] = qNext[b] /\ qNext[a] # End => a = b
      BY <1>1 DEF Links
    <2>3. ASSUME NEW n \in (InUse \ {qHead}) \ ({qHead'} \cup New)
          PROVE  \E p \in InUse \ {qHead} : qNext[p] = n
      <3>1. PICK p \in InUse : qNext[p] = n
        BY <1>1 DEF Links
      <3> QED
        BY <1>6, <3>1
    <2> QED
      BY <1>9, <2>1, <2>2, <2>3 DEF Links
  <1>14. Numbers'
    <2> DEFINE D == {data[n] : n \in InUse \ {qHead}}
               E == {data[n] : n \in (InUse \ {qHead}) \ {qHead'}}
    <2>1. D = (1 .. items) \ taken
          /\ \A k, n \in InUse \ {qHead} : data[k] = data[n] => k = n
      BY <1>1 DEF Numbers
    <2>2. E = D \ {data[qHead']}
      BY <1>8, <2>1
    <2>3. taken' = taken \cup {data[qHead']}
      BY <1>6
    <2>4. E = (1 .. items) \ taken'
      BY <2>1, <2>2, <2>3
    <2> QED
      BY <1>9, <2>1, <2>4 DEF Numbers
  <1>15. ASSUME NEW u \in Thread
         PROVE  LocalsOf(qTh[u])'
    <2>1. CASE u = t
      <3>1. qTh'[u] = r
        BY <1>3, <2>1
      <3> QED
        BY <1>5, <3>1 DEF LocalsOf, TailRead
    <2>2. CASE u # t
      <3>1. LocalsOf(qTh[u]) /\ AsBefore(u) /\ ~qTh'[u].headFresh
        BY <1>1, <1>3, <2>2 DEF Locals
      <3>2. /\ qTh'[u].tailFresh => qTh'[u].tail = qTail
            /\ qTh'[u].tailFresh =>
               /\ qTh'[u].pc = "help" => qTh'[u].next = qNext[qTail]
               /\ qTh'[u].pc = "help2" => qTh'[u].tailNext = qNext[qTail]
               /\ qTh'[u].pc \in {"grow", "movetail"} =>
                     qTh'[u].node = qNext[qTail]
        BY <3>1 DEF LocalsOf, AsBefore
      <3>3. qTh'[u].pc \in TailRead =>
               qTh'[u].tail \in InUse \ {qHead} \/ qNext[qTh'[u].tail] # End
        BY <1>8, <3>1 DEF LocalsOf, AsBefore
      <3> QED
        BY <1>9, <3>1, <3>2, <3>3 DEF LocalsOf
    <2> QED
      BY <2>1, <2>2
  <1>16. Sized'
    <2>1. /\ Cardinality(Busy) \in Nat /\ Cardinality(Busy') \in Nat
          /\ Cardinality(Busy') + AsOne(qTh[t].pc \in BusyPc)
                = Cardinality(Busy) + AsOne(r.pc \in BusyPc)
      BY <1>1, BusyThen
    <2>2. AsOne(qTh[t].pc \in BusyPc) = 1 /\ AsOne(r.pc \in BusyPc) = 0
      BY DEF AsOne, BusyPc, Q!Place, Q!At
    <2>3. Cardinality(Busy') = Cardinality(Busy) - 1
      BY <2>1, <2>2
    <2>4. Cardinality(InUse) \in Nat
          /\ Cardinality(InUse \ {qHead}) = Cardinality(InUse) - 1
      BY <1>1, <1>7, InUseCount
    <2>5. qSize + Cardinality(Busy) = Cardinality(InUse) - 1 /\ qSize \in Int
      BY <1>1 DEF Sized, Types
    <2>6. qSize + Cardinality(Busy') = Cardinality(InUse \ {qHead}) - 1
      BY <2>1, <2>3, <2>4, <2>5
    <2> QED
      BY <1>9, <2>6 DEF Sized
  <1>17. \A a, b : Reaches(a, b)' <=> Reaches(a, b)
    BY DEF Reaches, Closed
  <1>18. Private'
    <2>1. ASSUME NEW u \in Thread, Makes(u)'
          PROVE  /\ ~Reaches(qTh[u].node, qTail)'
                 /\ \A n \in Node :
                       Reaches(qTh[u].node, n)' => data[n] <= data[qTh'[u].node]
      <3>1. Makes(u) /\ qTh'[u].node = qTh[u].node
        BY <1>4, <2>1
      <3>2. PICK a : a = qTh[u].node
        OBVIOUS
      <3>3. /\ ~Reaches(a, qTail)
            /\ \A n \in Node : Reaches(a, n) => data[n] <= data[a]
        BY <1>1, <3>1, <3>2 DEF Private
      <3> QED
        BY <1>17, <3>1, <3>2, <3>3 DEF Reaches, Closed
    <2>2. ASSUME NEW v \in Thread, NEW u \in Thread,
                 Makes(u)', qTh'[v].pc \in TailRead,
                 Reaches(qTh[u].node, qTh[v].tail)'
          PROVE  data[qTh'[v].node] < data[qTh'[v].tail]
      <3>1. Makes(u) /\ qTh'[u].node = qTh[u].node
        BY <1>4, <2>2
      <3>2. PICK a, b : a = qTh'[u].node /\ b = qTh'[v].tail
        OBVIOUS
      <3>3. Reaches(a, b)
        BY <1>17, <2>2, <3>2 DEF Reaches, Closed
      <3>4. v # t
        BY <1>3, <2>2 DEF TailRead
      <3>5. Behind(qTh[v]) /\ AsBefore(v)
        BY <1>1, <1>3, <3>4 DEF Private
      <3> QED
        BY <2>2, <3>1, <3>2, <3>3, <3>5 DEF Behind, AsBefore
    <2>3. \A v \in Thread : Behind(qTh[v])'
      BY <2>2 DEF Behind
    <2> QED
      BY <2>1, <2>3 DEF Private
  <1>19. Acyclic'
    BY <1>1, <1>9 DEF Acyclic
  <1> QED
    BY <1>11, <1>12, <1>13, <1>14, <1>15, <1>16, <1>18, <1>19 DEF QueueInv,
       Locals

-----------------------------------------------------------------------------
(* An Enqueue takes node m from the pool. *)
LEMMA MakesKeeps ==
    ASSUME QueueInv, QueueParameters, NEW t \in Thread, NEW r \in ThreadType,
           NEW m \in free, items < MaxItems,
           Moves(t, r), Filled(r), Q!At(t, "idle"), r.pc = "readtail",
           r.node = m, ~r.headFresh, ~r.tailFresh,
           items' = items + 1, free' = free \ {m},
           data' = [data EXCEPT ![m] = items'],
           qNext' = [qNext EXCEPT ![m] = End],
           qHead' = qHead, qTail' = qTail, qSize' = qSize, taken' = taken
    PROVE  QueueInv'
  <1>1. /\ Types /\ Owners /\ Links /\ Numbers /\ Locals /\ Sized /\ Private
        /\ Acyclic
    BY DEF QueueInv
  <1>2. ~Makes(t) /\ ~Q!At(t, "delete") /\ r.pc \in Making
    BY DEF Makes, Q!At, Making
  <1>3. /\ qTh'[t] = r
        /\ \A u \in Thread \ {t} : AsBefore(u)
    BY DEF Moves
  <1>4. ASSUME NEW u \in Thread
        PROVE  /\ Makes(u)' <=> u = t \/ Makes(u)
               /\ Makes(u) => u # t /\ qTh'[u].node = qTh[u].node
               /\ Q!At(u, "delete")' <=> Q!At(u, "delete")
               /\ Q!At(u, "delete") => qTh'[u].head = qTh[u].head
    <2>1. CASE u = t
      BY <1>2, <1>3, <2>1 DEF Makes, Q!At
    <2>2. CASE u # t
      BY <1>3, <2>2 DEF Makes, Q!At, AsBefore
    <2> QED
      BY <2>1, <2>2
  <1>5. /\ InUse \subseteq Node /\ qHead \in InUse /\ qTail \in InUse
        /\ m \in Node /\ m \notin InUse /\ m # End
    BY <1>1 DEF InUse, Owners, Types, QueueParameters
  <1>6. /\ New' = New \cup {m} /\ InUse' = InUse \cup {m}
    <2>1. New' = New \cup {m}
      BY <1>1, <1>2, NewThen
    <2>2. Gone' = Gone
      BY <1>1, <1>2, GoneThen
    <2>3. m \notin Gone
      BY <1>1 DEF Owners, Gone
    <2> QED
      BY <1>5, <2>1, <2>2, <2>3 DEF InUse
  <1>7. items \in Nat /\ items' \in 0 .. MaxItems
    BY <1>1 DEF Types, QueueParameters
  <1>8. /\ data'[m] = items' /\ qNext'[m] = End
        /\ \A n \in Node \ {m} : data'[n] = data[n] /\ qNext'[n] = qNext[n]
    BY <1>1, <1>5 DEF Types
  <1>9. \A n \in InUse : n # m /\ data'[n] = data[n] /\ qNext'[n] = qNext[n]
    BY <1>5, <1>8
  <1>10. Types'
    <2>1. data' \in [Node -> 0 .. MaxItems]
      BY <1>1, <1>7 DEF Types
    <2>2. qNext' \in [Node -> Node \cup {End}]
      BY <1>1 DEF Types
    <2>3. free' \in SUBSET Node
      BY <1>1 DEF Types
    <2>4. taken' \in SUBSET (1 .. items')
      BY <1>1, <1>7 DEF Types
    <2> QED
      BY <1>1, <1>7, <2>1, <2>2, <2>3, <2>4, TypesKept DEF Types
  <1>11. Owners'
    <2>1. ASSUME NEW u \in Thread, Q!At(u, "delete")'
          PROVE  qTh'[u].head \notin free' /\ qNext'[qTh'[u].head] # End
      <3>1. Q!At(u, "delete") /\ qTh'[u].head = qTh[u].head
        BY <1>4, <2>1
      <3>2. qTh[u].head \notin free /\ qNext[qTh[u].head] # End
        BY <1>1, <3>1 DEF Owners
      <3>3. qTh[u].head \in Node
        BY <1>1, <3>1 DEF Types, Filled, Q!At
      <3> QED
        BY <1>8, <3>1, <3>2, <3>3
    <2>2. ASSUME NEW u \in Thread, Makes(u)'
          PROVE  qTh'[u].node \in (InUse \cup {m}) \ {qHead, qTail}
      BY <1>1, <1>3, <1>4, <1>5, <2>2 DEF Owners
    <2>3. ASSUME NEW u \in Thread, NEW v \in Thread,
                 Makes(u)', Makes(v)', qTh'[u].node = qTh'[v].node
          PROVE  u = v
      <3>1. \A w \in Thread : Makes(w) => qTh'[w].node = qTh[w].node
                                          /\ qTh[w].node # m
        BY <1>1, <1>4, <1>5 DEF Owners
      <3>2. CASE u = t \/ v = t
        BY <1>3, <1>4, <2>3, <3>1, <3>2
      <3>3. CASE u # t /\ v # t
        BY <1>1, <1>4, <2>3, <3>1, <3>3 DEF Owners
      <3> QED
        BY <3>2, <3>3
    <2>4. ASSUME NEW u \in Thread, NEW v \in Thread,
                 Q!At(u, "delete")', Q!At(v, "delete")', qTh'[u].head = qTh'[v].head
          PROVE  u = v
      BY <1>1, <1>4, <2>4 DEF Owners
    <2> QED
      BY <1>5, <1>6, <2>1, <2>2, <2>3, <2>4 DEF Owners
  <1>12. Links'
    <2>1. ASSUME NEW n \in InUse \cup {m}, qNext'[n] # End
          PROVE  qNext'[n] \in (InUse \cup {m}) \ ({qHead} \cup (New \cup {m}))
      <3>1. n \in InUse /\ qNext'[n] = qNext[n]
        BY <1>8, <1>9, <2>1
      <3>2. qNext[n] \in InUse \ ({qHead} \cup New)
        BY <1>1, <2>1, <3>1 DEF Links
      <3> QED
        BY <1>9, <3>1, <3>2
    <2>2. ASSUME NEW a \in InUse \cup {m}, NEW b \in InUse \cup {m},
                 qNext'[a] = qNext'[b], qNext'[a] # End
          PROVE  a = b
      <3>1. a \in InUse /\ b \in InUse
        BY <1>8, <2>2
      <3> QED
        BY <1>1, <1>9, <2>2, <3>1 DEF Links
    <2>3. ASSUME NEW n \in (InUse \cup {m}) \ ({qHead} \cup (New \cup {m}))
          PROVE  \E p \in InUse \cup {m} : qNext'[p] = n
      <3>1. PICK p \in InUse : qNext[p] = n
        BY <1>1 DEF Links
      <3> QED
        BY <1>9, <3>1
    <2>4. \A n \in InUse \cup {m} : qNext'[n] # End =>
              qNext'[n] \in (InUse \cup {m}) \ ({qHead} \cup (New \cup {m}))
      BY <2>1
    <2>5. \A a, b \in InUse \cup {m} :
              qNext'[a] = qNext'[b] /\ qNext'[a] # End => a = b
      BY <2>2
    <2>6. \A n \in (InUse \cup {m}) \ ({qHead} \cup (New \cup {m})) :
              \E p \in InUse \cup {m} : qNext'[p] = n
      BY <2>3
    <2> QED
      BY <1>6, <2>4, <2>5, <2>6 DEF Links
  <1>13. \A n \in InUse \ {qHead} : data[n] \in 1 .. items
    BY <1>1 DEF Numbers
  <1>14. Numbers'
    <2> DEFINE D == {data[n] : n \in InUse \ {qHead}}
               E == {data'[n] : n \in (InUse \cup {m}) \ {qHead}}
    <2>1. D = (1 .. items) \ taken
          /\ \A k, n \in InUse \ {qHead} : data[k] = data[n] => k = n
      BY <1>1 DEF Numbers
    <2>2. E = D \cup {items'}
      BY <1>5, <1>8, <1>9
    <2>3. (1 .. items') \ taken' = ((1 .. items) \ taken) \cup {items'}
      BY <1>1, <1>7 DEF Types
    <2>4. E = (1 .. items') \ taken'
      BY <2>1, <2>2, <2>3
    <2>5. ASSUME NEW k \in (InUse \cup {m}) \ {qHead},
                 NEW n \in (InUse \cup {m}) \ {qHead}, data'[k] = data'[n]
          PROVE  k = n
      <3>1. \A i \in InUse \ {qHead} : data'[i] = data[i] /\ data[i] # items'
        BY <1>7, <1>9, <1>13
      <3> QED
        BY <1>8, <2>1, <2>5, <3>1
    <2> HIDE DEF D, E
    <2>6. (\A k, n \in InUse \ {qHead} : data[k] = data[n] => k = n)'
      BY <1>6, <2>5
    <2>7. {data[n] : n \in InUse \ {qHead}}' = E
      BY <1>6 DEF E
    <2> QED
      BY <2>4, <2>6, <2>7 DEF Numbers
  <1>15. ASSUME NEW u \in Thread
         PROVE  LocalsOf(qTh[u])'
    <2>1. CASE u = t
      <3>1. qTh'[u] = r
        BY <1>3, <2>1
      <3> QED
        BY <3>1 DEF LocalsOf, TailRead
    <2>2. CASE u # t
      <3>1. LocalsOf(qTh[u]) /\ AsBefore(u) /\ Filled(qTh[u])
        BY <1>1, <1>3, <2>2 DEF Locals, Types
      <3>2. qNext'[qTail] = qNext[qTail] /\ qNext'[qHead] = qNext[qHead]
        BY <1>5, <1>9
      <3>3. qTh'[u].pc \in TailRead =>
               qTh'[u].tail \in InUse \cup {m} \/ qNext'[qTh'[u].tail] # End
        <4>1. qTh[u].pc \in TailRead => qTh[u].tail \in Node
          BY <3>1 DEF Filled
        <4> QED
          BY <1>8, <3>1, <4>1 DEF LocalsOf, AsBefore
      <3>4. qTh'[u].headFresh /\ qTh'[u].pc = "movehead" =>
               qTh'[u].ret = data'[qTh'[u].next]
        <4>1. qTh[u].pc = "movehead" => qTh[u].next \in Node
          BY <3>1 DEF Filled
        <4>2. qTh[u].headFresh /\ qTh[u].pc = "movehead" => qTh[u].next \in InUse
          BY <1>1, <1>5, <3>1, <4>1 DEF LocalsOf, Links, QueueParameters
        <4> QED
          BY <1>9, <3>1, <4>2 DEF LocalsOf, AsBefore
      <3>5. /\ qTh'[u].headFresh => qTh'[u].head = qHead
            /\ qTh'[u].tailFresh =>
               /\ qTh'[u].tail = qTail
               /\ qTh'[u].pc = "help" => qTh'[u].next = qNext[qTail]
               /\ qTh'[u].pc = "help2" => qTh'[u].tailNext = qNext[qTail]
               /\ qTh'[u].pc \in {"grow", "movetail"} =>
                     qTh'[u].node = qNext[qTail]
        BY <3>1 DEF LocalsOf, AsBefore
      <3>6. qTh'[u].headFresh =>
               /\ qTh'[u].pc = "readtailnext" =>
                     qTh'[u].next \in {End, qNext[qHead]}
               /\ qTh'[u].pc \in {"readdata", "movehead"} =>
                     qTh'[u].next = qNext[qHead] /\ qTail # qHead
               /\ qTh'[u].pc \in {"readnext2", "readtailnext"} /\ qTail = qHead =>
                     qTh'[u].tail = qHead
        BY <3>1 DEF LocalsOf, AsBefore
      <3> QED
        BY <1>6, <3>2, <3>3, <3>4, <3>5, <3>6 DEF LocalsOf
    <2> QED
      BY <2>1, <2>2
  <1>16. Sized'
    <2>1. /\ Cardinality(Busy) \in Nat /\ Cardinality(Busy') \in Nat
          /\ Cardinality(Busy') + AsOne(qTh[t].pc \in BusyPc)
                = Cardinality(Busy) + AsOne(r.pc \in BusyPc)
      BY <1>1, BusyThen
    <2>2. AsOne(qTh[t].pc \in BusyPc) = 0 /\ AsOne(r.pc \in BusyPc) = 1
      BY DEF AsOne, BusyPc, Q!Place, Q!At
    <2>3. Cardinality(Busy') = Cardinality(Busy) + 1
      BY <2>1, <2>2
    <2>4. Cardinality(InUse) \in Nat
          /\ Cardinality(InUse \cup {m}) = Cardinality(InUse) + 1
      BY <1>1, <1>5, InUseCount
    <2>5. qSize + Cardinality(Busy) = Cardinality(InUse) - 1 /\ qSize \in Int
      BY <1>1 DEF Sized, Types
    <2>6. qSize + Cardinality(Busy') = Cardinality(InUse \cup {m}) - 1
      BY <2>1, <2>3, <2>4, <2>5
    <2> QED
      BY <1>6, <2>6 DEF Sized
  <1>17. ASSUME NEW a \in Node, NEW b \in Node, Reaches(a, b)'
         PROVE  Reaches(a, b)
    BY <1>1, <1>5, <1>17, ReachCut
  <1>18. ASSUME NEW b, Reaches(m, b)'
         PROVE  b = m
    <2>1. Closed({m})'
      BY <1>8 DEF Closed
    <2> QED
      BY <1>5, <1>18, <2>1 DEF Reaches
  <1>19. Private'
    <2>1. ASSUME NEW u \in Thread, Makes(u)'
          PROVE  /\ ~Reaches(qTh[u].node, qTail)'
                 /\ \A n \in Node :
                       Reaches(qTh[u].node, n)'
                           => data'[n] <= data'[qTh'[u].node]
      <3>1. PICK a : a = qTh'[u].node
        OBVIOUS
      <3>2. PICK b : b = qTail
        OBVIOUS
      <3>3. /\ ~Reaches(a, b)'
            /\ \A n \in Node : Reaches(a, n)' => data'[n] <= data'[a]
        <4>1. CASE u = t
          <5>1. a = m /\ b # m
            BY <1>3, <1>5, <3>1, <3>2, <4>1
          <5>2. data'[m] <= data'[m]
            BY <1>7, <1>8
          <5> QED
            BY <1>18, <5>1, <5>2
        <4>2. CASE u # t
          <5>1. Makes(u) /\ a = qTh[u].node
            BY <1>4, <2>1, <3>1, <4>2
          <5>2. /\ ~Reaches(a, b)
                /\ \A n \in Node : Reaches(a, n) => data[n] <= data[a]
            BY <1>1, <3>2, <5>1 DEF Private
          <5>3. a \in InUse
            BY <1>1, <5>1 DEF Owners
          <5>4. ASSUME NEW n \in Node, Reaches(a, n)'
                PROVE  data'[n] <= data'[a]
            <6>1. Reaches(a, n)
              BY <1>5, <1>17, <5>3, <5>4
            <6>2. n \in InUse
              BY <1>1, <5>3, <6>1, ReachInUse
            <6> QED
              BY <1>9, <5>2, <5>3, <6>1, <6>2
          <5>5. ~Reaches(a, b)'
            BY <1>5, <1>17, <3>2, <5>2, <5>3
          <5> QED
            BY <5>4, <5>5
        <4> QED
          BY <4>1, <4>2
      <3>4. a = qTh'[u].node /\ b = qTail'
        BY <3>1, <3>2
      <3> QED
        BY <3>3, <3>4 DEF Reaches, Closed
    <2>2. ASSUME NEW v \in Thread, NEW u \in Thread,
                 Makes(u)', qTh'[v].pc \in TailRead,
                 Reaches(qTh[u].node, qTh[v].tail)'
          PROVE  data'[qTh'[v].node] < data'[qTh'[v].tail]
      <3>1. v # t
        BY <1>3, <2>2 DEF TailRead
      <3>2. Behind(qTh[v]) /\ AsBefore(v) /\ qTh[v].pc \in TailRead
        BY <1>1, <1>3, <2>2, <3>1 DEF Private, AsBefore
      <3>3. PICK a : a = qTh'[u].node
        OBVIOUS
      <3>4. PICK b : b = qTh'[v].tail
        OBVIOUS
      <3>5. PICK c : c = qTh'[v].node
        OBVIOUS
      <3>6. b = qTh[v].tail /\ c = qTh[v].node /\ b \in Node
        BY <1>1, <3>2, <3>4, <3>5 DEF AsBefore, Types, Filled
      <3>7. Reaches(a, b)'
        BY <2>2, <3>3, <3>4 DEF Reaches, Closed
      <3>8. c \in InUse \ {qHead}
        BY <1>1, <3>2, <3>6 DEF Owners, Makes, TailRead, Making
      <3>9. CASE u = t
        <4>1. b = m
          BY <1>3, <1>18, <3>3, <3>7, <3>9
        <4>2. data'[c] = data[c] /\ data[c] \in 1 .. items
          BY <1>9, <1>13, <3>8
        <4> QED
          BY <1>7, <1>8, <3>4, <3>5, <4>1, <4>2
      <3>10. CASE u # t
        <4>1. Makes(u) /\ a = qTh[u].node
          BY <1>4, <2>2, <3>3, <3>10
        <4>2. a \in InUse
          BY <1>1, <4>1 DEF Owners
        <4>3. Reaches(a, b)
          BY <1>5, <1>17, <3>6, <3>7, <4>2
        <4>4. data[c] < data[b]
          BY <3>2, <3>6, <4>1, <4>3 DEF Behind
        <4>5. b \in InUse
          BY <1>1, <4>2, <4>3, ReachInUse
        <4> QED
          BY <1>9, <3>4, <3>5, <3>8, <4>4, <4>5
      <3> QED
        BY <3>9, <3>10
    <2>3. \A v \in Thread : Behind(qTh[v])'
      BY <2>2 DEF Behind
    <2> QED
      BY <2>1, <2>3 DEF Private
  <1>20. Acyclic'
    <2>1. ASSUME NEW S \in SUBSET (InUse \cup {m}), S # {}
          PROVE  \E n \in S : \A p \in S : qNext'[p] # n
      <3>1. CASE S \ {m} = {}
        <4>1. S = {m}
          BY <2>1, <3>1
        <4> QED
          BY <1>5, <1>8, <4>1
      <3>2. CASE S \ {m} # {}
        <4>1. PICK n \in S \ {m} : \A p \in S \ {m} : qNext[p] # n
          BY <1>1, <3>2 DEF Acyclic
        <4>2. n # End /\ \A p \in S \ {m} : p \in InUse
          BY <1>5 DEF QueueParameters
        <4>3. \A p \in S : qNext'[p] # n
          BY <1>8, <1>9, <4>1, <4>2
        <4> QED
          BY <4>3
      <3> QED
        BY <3>1, <3>2
    <2> QED
      BY <1>6, <2>1 DEF Acyclic
  <1> QED
    BY <1>10, <1>11, <1>12, <1>14, <1>15, <1>16, <1>19, <1>20 DEF QueueInv,
       Locals

-----------------------------------------------------------------------------
LEMMA Parts ==
    ASSUME QueueInv, QueueParameters, NEW t \in Thread
    PROVE  /\ Types /\ Locals /\ Private
           /\ qTh[t] \in ThreadType /\ Filled(qTh[t])
           /\ LocalsOf(qTh[t]) /\ Behind(qTh[t])
           /\ qHead \in InUse /\ qTail \in InUse /\ InUse \subseteq Node
           /\ qHead # End /\ qTail # End
  BY DEF QueueInv, Types, Locals, Private, Owners, InUse, QueueParameters

(* A step of one thread with itself, _size and the pool.                   *)
LEMMA OwnKeeps ==
    ASSUME QueueInv, QueueParameters, NEW t \in Thread, NEW r \in ThreadType,
           qTh' = [qTh EXCEPT ![t] = r], Filled(r), LocalsOf(r), Behind(r),
           UNCHANGED <<data, qNext, qHead, qTail, items, taken>>,
           free' = IF Q!At(t, "delete") THEN free \cup {qTh[t].head} ELSE free,
           r.pc # "delete", qTh[t].pc \in Making <=> r.pc \in Making,
           r.pc \in Making => r.node = qTh[t].node,
           \/ qSize' = qSize /\ (r.pc \in BusyPc <=> qTh[t].pc \in BusyPc)
           \/ qSize' = qSize + 1 /\ r.pc \notin BusyPc /\ qTh[t].pc \in BusyPc
           \/ qSize' = qSize - 1 /\ r.pc \in BusyPc /\ qTh[t].pc \notin BusyPc
    PROVE  QueueInv'
  <1>1. Types
    BY Parts
  <1>2. Moves(t, r)
    BY <1>1, MovesAlone
  <1>3. qSize' \in Int
        /\ qSize' + AsOne(r.pc \in BusyPc) = qSize + AsOne(qTh[t].pc \in BusyPc)
    BY <1>1 DEF AsOne, Types
  <1>4. (Makes(t) <=> r.pc \in Making) /\ (Makes(t) => r.node = qTh[t].node)
    BY DEF Makes
  <1> QED
    BY <1>2, <1>3, <1>4, StillKeeps

(* Where a thread goes with what it has read. *)
LEMMA QueueTakes ==
    ASSUME QueueInv, QueueParameters, NEW t \in Thread, NEW to \in Q!Place,
           NEW r, r = [qTh[t] EXCEPT !.pc = to]
    PROVE  /\ r \in ThreadType /\ r.pc = to
           /\ r.node = qTh[t].node /\ r.head = qTh[t].head
           /\ r.tail = qTh[t].tail /\ r.next = qTh[t].next
           /\ r.tailNext = qTh[t].tailNext /\ r.ret = qTh[t].ret
           /\ r.headFresh = qTh[t].headFresh /\ r.tailFresh = qTh[t].tailFresh
           /\ [qTh EXCEPT ![t].pc = to] = [qTh EXCEPT ![t] = r]
  <1>1. qTh[t] \in ThreadType /\ Types
    BY Parts
  <1> QED
    BY <1>1 DEF ThreadType, Types

LEMMA Rests ==
    ASSUME QueueParameters, NEW to \in Q!Place,
           NEW r, r = [Q!Idle EXCEPT !.pc = to]
    PROVE  /\ r \in ThreadType /\ r.pc = to /\ ~r.headFresh /\ ~r.tailFresh
  <1>1. /\ Q!Idle.node = End /\ Q!Idle.head = End /\ Q!Idle.tail = End
        /\ Q!Idle.next = End /\ Q!Idle.tailNext = End /\ Q!Idle.ret = 0
        /\ Q!Idle.headFresh = FALSE /\ Q!Idle.tailFresh = FALSE
        /\ Q!Idle.pc = "idle"
    BY DEF Q!Idle
  <1>2. Q!Idle \in ThreadType
    BY DEF Q!Idle, ThreadType, Q!Place
  <1> QED
    BY <1>1, <1>2 DEF ThreadType

-----------------------------------------------------------------------------
LEMMA ReadTailKeeps ==
    ASSUME QueueInv, QueueParameters, NEW t \in Thread, Q!ReadTail(t)
    PROVE  QueueInv'
  <1> DEFINE yes == TRUE
             to == "readnext"
             s == [qTh[t] EXCEPT !.tail = qTail, !.tailFresh = yes, !.pc = to]
  <1>1. qTh[t].pc = "readtail" /\ qTh' = [qTh EXCEPT ![t] = s]
    BY Parts DEF Q!ReadTail, Q!At, Types
  <1>2. /\ s \in ThreadType /\ s.tail = qTail /\ s.pc = to
        /\ s.node = qTh[t].node /\ s.head = qTh[t].head
        /\ s.headFresh = qTh[t].headFresh
    <2>1. yes \in BOOLEAN /\ to \in Q!Place /\ qTail \in Node
      BY Parts DEF Types, Q!Place
    <2> HIDE DEF yes, to
    <2> QED
      BY <2>1, Parts DEF ThreadType
  <1> HIDE DEF s
  <1>3. PICK r \in ThreadType : r = s
    BY <1>2
  <1>4. Filled(r)
    BY <1>1, <1>2, <1>3, Parts DEF Filled, TailRead, Making, Types
  <1>5. LocalsOf(r)
    BY <1>1, <1>2, <1>3, Parts DEF LocalsOf, TailRead
  <1>6. Behind(r)
    BY <1>2, <1>3, Parts DEF Behind, Private
  <1>7. r.pc \in Making /\ qTh[t].pc \in Making /\ r.node = qTh[t].node
        /\ r.pc \in BusyPc /\ qTh[t].pc \in BusyPc /\ r.pc # "delete"
    BY <1>1, <1>2, <1>3 DEF Making, BusyPc, Q!Place
  <1> QED
    BY <1>1, <1>3, <1>4, <1>5, <1>6, <1>7, OwnKeeps DEF Q!ReadTail, Q!At

LEMMA ReadNextKeeps ==
    ASSUME QueueInv, QueueParameters, NEW t \in Thread, Q!ReadNext(t)
    PROVE  QueueInv'
  <1> DEFINE n == qNext[qTh[t].tail]
             to == IF n = End THEN "link" ELSE "help"
             s == [qTh[t] EXCEPT !.next = n, !.pc = to]
  <1>1. qTh[t].pc = "readnext" /\ qTh' = [qTh EXCEPT ![t] = s]
    BY Parts DEF Q!ReadNext, Q!At, Types
  <1>2. n \in Node \cup {End} /\ qTh[t].tail \in Node
    BY <1>1, Parts DEF Filled, TailRead, Types
  <1>3. /\ s \in ThreadType /\ s.next = n /\ s.pc = to
        /\ s.node = qTh[t].node /\ s.head = qTh[t].head /\ s.tail = qTh[t].tail
        /\ s.headFresh = qTh[t].headFresh /\ s.tailFresh = qTh[t].tailFresh
    <2>1. to \in Q!Place
      BY DEF Q!Place
    <2> HIDE DEF n, to
    <2> QED
      BY <1>2, <2>1, Parts DEF ThreadType
  <1> HIDE DEF s
  <1>4. PICK r \in ThreadType : r = s
    BY <1>3
  <1>5. Filled(r)
    BY <1>1, <1>2, <1>3, <1>4, Parts DEF Filled, TailRead, Making
  <1>6. LocalsOf(r)
    BY <1>1, <1>2, <1>3, <1>4, Parts DEF LocalsOf, TailRead
  <1>7. Behind(r)
    BY <1>1, <1>3, <1>4, Parts DEF Behind, TailRead
  <1>8. r.pc \in Making /\ qTh[t].pc \in Making /\ r.node = qTh[t].node
        /\ r.pc \in BusyPc /\ qTh[t].pc \in BusyPc /\ r.pc # "delete"
    BY <1>1, <1>3, <1>4 DEF Making, BusyPc, Q!Place
  <1> QED
    BY <1>1, <1>4, <1>5, <1>6, <1>7, <1>8, OwnKeeps DEF Q!ReadNext, Q!At

(* A swap of the tail that comes too late. *)
LEMMA HelpLate ==
    ASSUME QueueInv, QueueParameters, NEW t \in Thread, Q!Help(t), ~qTh[t].tailFresh
    PROVE  QueueInv'
  <1>1. qTh[t].pc = "help" /\ "readtail" \in Q!Place
    BY DEF Q!Help, Q!At, Q!Place
  <1>2. PICK r : r = [qTh[t] EXCEPT !.pc = "readtail"]
    OBVIOUS
  <1>3. /\ r \in ThreadType /\ r.pc = "readtail"
        /\ r.node = qTh[t].node /\ r.head = qTh[t].head
        /\ r.tail = qTh[t].tail /\ r.next = qTh[t].next
        /\ r.headFresh = qTh[t].headFresh /\ r.tailFresh = qTh[t].tailFresh
        /\ qTh' = [qTh EXCEPT ![t] = r]
    BY <1>1, <1>2, QueueTakes DEF Q!Help, Q!SwapTail, Q!Goto
  <1>4. Filled(r)
    BY <1>1, <1>3, Parts DEF Filled, TailRead, Making
  <1>5. LocalsOf(r)
    BY <1>1, <1>3, Parts DEF LocalsOf, TailRead
  <1>6. Behind(r)
    BY <1>3 DEF Behind, TailRead
  <1>7. r.pc \in Making /\ qTh[t].pc \in Making /\ r.node = qTh[t].node
        /\ r.pc \in BusyPc /\ qTh[t].pc \in BusyPc /\ r.pc # "delete"
    BY <1>1, <1>3 DEF Making, BusyPc, Q!Place
  <1> QED
    BY <1>1, <1>3, <1>4, <1>5, <1>6, <1>7, OwnKeeps
    DEF Q!Help, Q!SwapTail, Q!At

LEMMA LinkLate ==
    ASSUME QueueInv, QueueParameters, NEW t \in Thread, Q!Link(t),
           qNext[qTh[t].tail] # End
    PROVE  QueueInv'
  <1>1. qTh[t].pc = "link" /\ "readtail" \in Q!Place
    BY DEF Q!Link, Q!At, Q!Place
  <1>2. PICK r : r = [qTh[t] EXCEPT !.pc = "readtail"]
    OBVIOUS
  <1>3. /\ r \in ThreadType /\ r.pc = "readtail"
        /\ r.node = qTh[t].node /\ r.head = qTh[t].head
        /\ r.tail = qTh[t].tail /\ r.next = qTh[t].next
        /\ r.headFresh = qTh[t].headFresh /\ r.tailFresh = qTh[t].tailFresh
        /\ qTh' = [qTh EXCEPT ![t] = r]
    BY <1>1, <1>2, QueueTakes DEF Q!Link, Q!Goto
  <1>4. Filled(r)
    BY <1>1, <1>3, Parts DEF Filled, TailRead, Making
  <1>5. LocalsOf(r)
    BY <1>1, <1>3, Parts DEF LocalsOf, TailRead
  <1>6. Behind(r)
    BY <1>3 DEF Behind, TailRead
  <1>7. r.pc \in Making /\ qTh[t].pc \in Making /\ r.node = qTh[t].node
        /\ r.pc \in BusyPc /\ qTh[t].pc \in BusyPc /\ r.pc # "delete"
    BY <1>1, <1>3 DEF Making, BusyPc, Q!Place
  <1> QED
    BY <1>1, <1>3, <1>4, <1>5, <1>6, <1>7, OwnKeeps DEF Q!Link, Q!At

LEMMA GrowKeeps ==
    ASSUME QueueInv, QueueParameters, NEW t \in Thread, Q!Grow(t)
    PROVE  QueueInv'
  <1>1. qTh[t].pc = "grow" /\ "movetail" \in Q!Place
    BY DEF Q!Grow, Q!At, Q!Place
  <1>2. PICK r : r = [qTh[t] EXCEPT !.pc = "movetail"]
    OBVIOUS
  <1>3. /\ r \in ThreadType /\ r.pc = "movetail"
        /\ r.node = qTh[t].node /\ r.head = qTh[t].head
        /\ r.tail = qTh[t].tail /\ r.next = qTh[t].next
        /\ r.headFresh = qTh[t].headFresh /\ r.tailFresh = qTh[t].tailFresh
        /\ qTh' = [qTh EXCEPT ![t] = r]
    BY <1>1, <1>2, QueueTakes DEF Q!Grow, Q!Goto
  <1>4. Filled(r)
    BY <1>1, <1>3, Parts DEF Filled, TailRead, Making
  <1>5. LocalsOf(r)
    BY <1>1, <1>3, Parts DEF LocalsOf, TailRead
  <1>6. Behind(r)
    BY <1>3 DEF Behind, TailRead
  <1>7. r.pc \notin Making /\ qTh[t].pc \notin Making
        /\ r.pc \notin BusyPc /\ qTh[t].pc \in BusyPc /\ r.pc # "delete"
    BY <1>1, <1>3 DEF Making, BusyPc, Q!Place
  <1> QED
    BY <1>1, <1>3, <1>4, <1>5, <1>6, <1>7, OwnKeeps DEF Q!Grow, Q!At

(* A call that ends, or the one of a Dequeue that begins. *)
LEMMA EndKeeps ==
    ASSUME QueueInv, QueueParameters, NEW t \in Thread,
           \/ Q!MoveTail(t) /\ ~qTh[t].tailFresh
           \/ Q!PutBack(t)
           \/ Q!Delete(t)
    PROVE  QueueInv'
  <1>1. qTh[t].pc \in {"movetail", "putback", "delete"} /\ "idle" \in Q!Place
    BY DEF Q!MoveTail, Q!PutBack, Q!Delete, Q!At, Q!Place
  <1>2. PICK r : r = Q!Idle
    OBVIOUS
  <1>3. r \in ThreadType /\ r.pc = "idle" /\ ~r.headFresh /\ ~r.tailFresh
    BY <1>2 DEF Q!Idle, ThreadType, Q!Place
  <1>4. qTh' = [qTh EXCEPT ![t] = r]
    BY <1>2 DEF Q!MoveTail, Q!PutBack, Q!Delete
  <1>5. Filled(r)
    BY <1>3 DEF Filled, TailRead, Making
  <1>6. LocalsOf(r)
    BY <1>3 DEF LocalsOf, TailRead
  <1>7. Behind(r)
    BY <1>3 DEF Behind, TailRead
  <1>8. r.pc \notin Making /\ qTh[t].pc \notin Making
        /\ r.pc \notin BusyPc /\ r.pc # "delete"
        /\ (qTh[t].pc \in BusyPc <=> qTh[t].pc = "putback")
    BY <1>1, <1>3 DEF Making, BusyPc, Q!Place
  <1>9. UNCHANGED <<data, qNext, qHead, qTail, items, taken>>
    BY DEF Q!MoveTail, Q!PutBack, Q!Delete
  <1>10. /\ free' = IF Q!At(t, "delete") THEN free \cup {qTh[t].head} ELSE free
         /\ \/ qSize' = qSize /\ qTh[t].pc # "putback"
            \/ qSize' = qSize + 1 /\ qTh[t].pc = "putback"
    BY DEF Q!MoveTail, Q!PutBack, Q!Delete, Q!At
  <1> QED
    BY <1>3, <1>4, <1>5, <1>6, <1>7, <1>8, <1>9, <1>10, OwnKeeps

LEMMA DequeueKeeps ==
    ASSUME QueueInv, QueueParameters, NEW t \in Thread, Q!Dequeue(t)
    PROVE  QueueInv'
  <1>1. PICK to : to = IF qSize' < 0 THEN "putback" ELSE "readhead"
    OBVIOUS
  <1>2. qTh[t].pc = "idle" /\ to \in Q!Place /\ to \in {"putback", "readhead"}
    BY <1>1 DEF Q!Dequeue, Q!At, Q!Place
  <1>3. PICK r : r = [Q!Idle EXCEPT !.pc = to]
    OBVIOUS
  <1>4. r \in ThreadType /\ r.pc = to /\ ~r.headFresh /\ ~r.tailFresh
    BY <1>2, <1>3, Rests
  <1>5. qTh' = [qTh EXCEPT ![t] = r]
    BY <1>1, <1>3 DEF Q!Dequeue
  <1>6. Filled(r)
    BY <1>2, <1>4 DEF Filled, TailRead, Making
  <1>7. LocalsOf(r)
    BY <1>2, <1>4 DEF LocalsOf, TailRead
  <1>8. Behind(r)
    BY <1>2, <1>4 DEF Behind, TailRead
  <1>9. r.pc \notin Making /\ qTh[t].pc \notin Making
        /\ r.pc \in BusyPc /\ qTh[t].pc \notin BusyPc /\ r.pc # "delete"
    BY <1>2, <1>4 DEF Making, BusyPc, Q!Place
  <1> QED
    BY <1>2, <1>4, <1>5, <1>6, <1>7, <1>8, <1>9, OwnKeeps DEF Q!Dequeue, Q!At

-----------------------------------------------------------------------------
LEMMA ReadHeadKeeps ==
    ASSUME QueueInv, QueueParameters, NEW t \in Thread, Q!ReadHead(t)
    PROVE  QueueInv'
  <1> DEFINE yes == TRUE
             to == "readtail2"
             s == [qTh[t] EXCEPT !.head = qHead, !.headFresh = yes, !.pc = to]
  <1>1. qTh[t].pc = "readhead" /\ qTh' = [qTh EXCEPT ![t] = s]
    BY Parts DEF Q!ReadHead, Q!At, Types
  <1>2. /\ s \in ThreadType /\ s.head = qHead /\ s.pc = to
        /\ s.tail = qTh[t].tail /\ s.tailFresh = qTh[t].tailFresh
    <2>1. yes \in BOOLEAN /\ to \in Q!Place /\ qHead \in Node
      BY Parts DEF Types, Q!Place
    <2> HIDE DEF yes, to
    <2> QED
      BY <2>1, Parts DEF ThreadType
  <1> HIDE DEF s
  <1>3. PICK r \in ThreadType : r = s
    BY <1>2
  <1>4. Filled(r)
    BY <1>1, <1>2, <1>3, Parts DEF Filled, TailRead, Making, Types
  <1>5. LocalsOf(r)
    BY <1>1, <1>2, <1>3, Parts DEF LocalsOf, TailRead
  <1>6. Behind(r)
    BY <1>2, <1>3 DEF Behind, TailRead
  <1>7. r.pc \notin Making /\ qTh[t].pc \notin Making
        /\ r.pc \in BusyPc /\ qTh[t].pc \in BusyPc /\ r.pc # "delete"
    BY <1>1, <1>2, <1>3 DEF Making, BusyPc, Q!Place
  <1> QED
    BY <1>1, <1>3, <1>4, <1>5, <1>6, <1>7, OwnKeeps DEF Q!ReadHead, Q!At

LEMMA ReadTailTooKeeps ==
    ASSUME QueueInv, QueueParameters, NEW t \in Thread, Q!ReadTailToo(t)
    PROVE  QueueInv'
  <1> DEFINE yes == TRUE
             to == "readnext2"
             s == [qTh[t] EXCEPT !.tail = qTail, !.tailFresh = yes, !.pc = to]
  <1>1. qTh[t].pc = "readtail2" /\ qTh' = [qTh EXCEPT ![t] = s]
    BY Parts DEF Q!ReadTailToo, Q!At, Types
  <1>2. /\ s \in ThreadType /\ s.tail = qTail /\ s.pc = to
        /\ s.head = qTh[t].head /\ s.headFresh = qTh[t].headFresh
    <2>1. yes \in BOOLEAN /\ to \in Q!Place /\ qTail \in Node
      BY Parts DEF Types, Q!Place
    <2> HIDE DEF yes, to
    <2> QED
      BY <2>1, Parts DEF ThreadType
  <1> HIDE DEF s
  <1>3. PICK r \in ThreadType : r = s
    BY <1>2
  <1>4. Filled(r)
    BY <1>1, <1>2, <1>3, Parts DEF Filled, TailRead, Making, Types
  <1>5. LocalsOf(r)
    BY <1>1, <1>2, <1>3, Parts DEF LocalsOf, TailRead
  <1>6. Behind(r)
    BY <1>2, <1>3 DEF Behind, TailRead
  <1>7. r.pc \notin Making /\ qTh[t].pc \notin Making
        /\ r.pc \in BusyPc /\ qTh[t].pc \in BusyPc /\ r.pc # "delete"
    BY <1>1, <1>2, <1>3 DEF Making, BusyPc, Q!Place
  <1> QED
    BY <1>1, <1>3, <1>4, <1>5, <1>6, <1>7, OwnKeeps DEF Q!ReadTailToo, Q!At

LEMMA ReadHeadNextKeeps ==
    ASSUME QueueInv, QueueParameters, NEW t \in Thread, Q!ReadHeadNext(t)
    PROVE  QueueInv'
  <1> DEFINE n == qNext[qTh[t].head]
             to == "readtailnext"
             s == [qTh[t] EXCEPT !.next = n, !.pc = to]
  <1>1. qTh[t].pc = "readnext2" /\ qTh' = [qTh EXCEPT ![t] = s]
    BY Parts DEF Q!ReadHeadNext, Q!At, Types
  <1>2. n \in Node \cup {End}
    BY <1>1, Parts DEF Filled, Types
  <1>3. /\ s \in ThreadType /\ s.next = n /\ s.pc = to
        /\ s.head = qTh[t].head /\ s.tail = qTh[t].tail
        /\ s.headFresh = qTh[t].headFresh /\ s.tailFresh = qTh[t].tailFresh
    <2>1. to \in Q!Place
      BY DEF Q!Place
    <2> HIDE DEF n, to
    <2> QED
      BY <1>2, <2>1, Parts DEF ThreadType
  <1> HIDE DEF s
  <1>4. PICK r \in ThreadType : r = s
    BY <1>3
  <1>5. Filled(r)
    BY <1>1, <1>3, <1>4, Parts DEF Filled, TailRead, Making
  <1>6. LocalsOf(r)
    BY <1>1, <1>3, <1>4, Parts DEF LocalsOf, TailRead
  <1>7. Behind(r)
    BY <1>3, <1>4 DEF Behind, TailRead
  <1>8. r.pc \notin Making /\ qTh[t].pc \notin Making
        /\ r.pc \in BusyPc /\ qTh[t].pc \in BusyPc /\ r.pc # "delete"
    BY <1>1, <1>3, <1>4 DEF Making, BusyPc, Q!Place
  <1> QED
    BY <1>1, <1>4, <1>5, <1>6, <1>7, <1>8, OwnKeeps DEF Q!ReadHeadNext, Q!At

(* With the head and the tail as they were, and a node behind the first,    *)
(* the two are not the same: the tail would have been helped first.        *)
LEMMA ReadTailNextKeeps ==
    ASSUME QueueInv, QueueParameters, NEW t \in Thread, Q!ReadTailNext(t)
    PROVE  QueueInv'
  <1> DEFINE n == qNext[qTh[t].tail]
             to == CASE n # End -> "help2"
                     [] n = End /\ qTh[t].next = End -> "readhead"
                     [] OTHER -> "readdata"
             s == [qTh[t] EXCEPT !.tailNext = n, !.pc = to]
  <1>1. qTh[t].pc = "readtailnext" /\ qTh' = [qTh EXCEPT ![t] = s]
    BY Parts DEF Q!ReadTailNext, Q!At, Types
  <1>2. n \in Node \cup {End}
    BY <1>1, Parts DEF Filled, Types
  <1>3. /\ to \in {"help2", "readhead", "readdata"} /\ to \in Q!Place
        /\ to = "help2" <=> n # End
        /\ to = "readdata" => n = End /\ qTh[t].next # End
    BY DEF Q!Place
  <1>4. /\ s \in ThreadType /\ s.tailNext = n /\ s.pc = to
        /\ s.head = qTh[t].head /\ s.tail = qTh[t].tail /\ s.next = qTh[t].next
        /\ s.headFresh = qTh[t].headFresh /\ s.tailFresh = qTh[t].tailFresh
    <2> HIDE DEF n, to
    <2> QED
      BY <1>2, <1>3, Parts DEF ThreadType
  <1> HIDE DEF s, to
  <1>5. PICK r \in ThreadType : r = s
    BY <1>4
  <1>6. Filled(r)
    <2>1. qTh[t].head \in Node /\ qTh[t].tail \in Node
          /\ qTh[t].next \in Node \cup {End}
      BY <1>1, Parts DEF Filled, ThreadType
    <2> QED
      BY <1>2, <1>3, <1>4, <1>5, <2>1 DEF Filled, TailRead, Making
  <1>7. LocalsOf(r)
    <2>1. /\ qTh[t].headFresh => qTh[t].head = qHead
          /\ qTh[t].tailFresh => qTh[t].tail = qTail
          /\ qTh[t].headFresh => qTh[t].next \in {End, qNext[qHead]}
          /\ qTh[t].headFresh /\ qTail = qHead => qTh[t].tail = qHead
      BY <1>1, Parts DEF LocalsOf
    <2>2. qTh[t].headFresh /\ to = "readdata" =>
              qTh[t].next = qNext[qHead] /\ qTail # qHead
      BY <1>3, <2>1
    <2> QED
      BY <1>3, <1>4, <1>5, <2>1, <2>2 DEF LocalsOf, TailRead
  <1>8. Behind(r)
    BY <1>3, <1>4, <1>5 DEF Behind, TailRead
  <1>9. r.pc \notin Making /\ qTh[t].pc \notin Making
        /\ r.pc \in BusyPc /\ qTh[t].pc \in BusyPc /\ r.pc # "delete"
    BY <1>1, <1>3, <1>4, <1>5 DEF Making, BusyPc, Q!Place
  <1> QED
    BY <1>1, <1>5, <1>6, <1>7, <1>8, <1>9, OwnKeeps DEF Q!ReadTailNext, Q!At

LEMMA ReadDataKeeps ==
    ASSUME QueueInv, QueueParameters, NEW t \in Thread, Q!ReadData(t)
    PROVE  QueueInv'
  <1> DEFINE d == data[qTh[t].next]
             to == "movehead"
             s == [qTh[t] EXCEPT !.ret = d, !.pc = to]
  <1>1. qTh[t].pc = "readdata" /\ qTh' = [qTh EXCEPT ![t] = s]
    BY Parts DEF Q!ReadData, Q!At, Types
  <1>2. d \in Nat
    BY <1>1, Parts DEF Filled, Types
  <1>3. /\ s \in ThreadType /\ s.ret = d /\ s.pc = to
        /\ s.head = qTh[t].head /\ s.tail = qTh[t].tail /\ s.next = qTh[t].next
        /\ s.headFresh = qTh[t].headFresh /\ s.tailFresh = qTh[t].tailFresh
    <2>1. to \in Q!Place
      BY DEF Q!Place
    <2> HIDE DEF d, to
    <2> QED
      BY <1>2, <2>1, Parts DEF ThreadType
  <1> HIDE DEF s
  <1>4. PICK r \in ThreadType : r = s
    BY <1>3
  <1>5. Filled(r)
    BY <1>1, <1>3, <1>4, Parts DEF Filled, TailRead, Making
  <1>6. LocalsOf(r)
    BY <1>1, <1>3, <1>4, Parts DEF LocalsOf, TailRead
  <1>7. Behind(r)
    BY <1>3, <1>4 DEF Behind, TailRead
  <1>8. r.pc \notin Making /\ qTh[t].pc \notin Making
        /\ r.pc \in BusyPc /\ qTh[t].pc \in BusyPc /\ r.pc # "delete"
    BY <1>1, <1>3, <1>4 DEF Making, BusyPc, Q!Place
  <1> QED
    BY <1>1, <1>4, <1>5, <1>6, <1>7, <1>8, OwnKeeps DEF Q!ReadData, Q!At

(* A Dequeue whose swap comes too late begins again. *)
LEMMA AgainKeeps ==
    ASSUME QueueInv, QueueParameters, NEW t \in Thread,
           \/ Q!HelpToo(t) /\ ~qTh[t].tailFresh
           \/ Q!MoveHead(t) /\ ~qTh[t].headFresh
    PROVE  QueueInv'
  <1>1. qTh[t].pc \in {"help2", "movehead"} /\ "readhead" \in Q!Place
    BY DEF Q!HelpToo, Q!MoveHead, Q!At, Q!Place
  <1>2. PICK r : r = [qTh[t] EXCEPT !.pc = "readhead"]
    OBVIOUS
  <1>3. qTh' = [qTh EXCEPT ![t].pc = "readhead"]
    BY DEF Q!HelpToo, Q!MoveHead, Q!SwapTail, Q!Goto
  <1>4. /\ r \in ThreadType /\ r.pc = "readhead"
        /\ r.node = qTh[t].node /\ r.head = qTh[t].head
        /\ r.tail = qTh[t].tail /\ r.next = qTh[t].next
        /\ r.headFresh = qTh[t].headFresh /\ r.tailFresh = qTh[t].tailFresh
        /\ qTh' = [qTh EXCEPT ![t] = r]
    BY <1>1, <1>2, <1>3, QueueTakes
  <1>5. Filled(r)
    BY <1>4 DEF Filled, TailRead, Making
  <1>6. LocalsOf(r)
    BY <1>4, Parts DEF LocalsOf, TailRead
  <1>7. Behind(r)
    BY <1>4 DEF Behind, TailRead
  <1>8. r.pc \notin Making /\ qTh[t].pc \notin Making
        /\ r.pc \in BusyPc /\ qTh[t].pc \in BusyPc /\ r.pc # "delete"
        /\ ~Q!At(t, "delete")
    BY <1>1, <1>4 DEF Making, BusyPc, Q!Place, Q!At
  <1>9. UNCHANGED <<data, qNext, qHead, qTail, items, taken, qSize, free>>
    BY DEF Q!HelpToo, Q!MoveHead, Q!SwapTail
  <1> QED
    BY <1>4, <1>5, <1>6, <1>7, <1>8, <1>9, OwnKeeps

-----------------------------------------------------------------------------
(* The swaps that succeed. *)
LEMMA HelpKeeps ==
    ASSUME QueueInv, QueueParameters, NEW t \in Thread, qTh[t].tailFresh,
           Q!Help(t) \/ Q!HelpToo(t)
    PROVE  QueueInv'
  <1>1. PICK to : to = IF Q!Help(t) THEN "readtail" ELSE "readhead"
    OBVIOUS
  <1>2. /\ qTh[t].pc = IF to = "readtail" THEN "help" ELSE "help2"
        /\ to \in {"readtail", "readhead"}
    BY <1>1 DEF Q!Help, Q!HelpToo, Q!At
  <1>3. /\ qTail' = IF to = "readtail" THEN qTh[t].next ELSE qTh[t].tailNext
        /\ qTh' = [Q!StaleTail EXCEPT ![t].pc = to]
        /\ UNCHANGED <<data, qNext, qHead, qSize, free, items, taken>>
    BY <1>1, <1>2 DEF Q!Help, Q!HelpToo, Q!SwapTail, Q!At
  <1>4. /\ Q!StaleTail[t] \in ThreadType
        /\ Q!StaleTail[t].node = qTh[t].node /\ Q!StaleTail[t].head = qTh[t].head
        /\ Q!StaleTail[t].headFresh = qTh[t].headFresh
        /\ ~Q!StaleTail[t].tailFresh
        /\ Q!StaleTail \in [Thread -> ThreadType]
    BY Parts, StaleTypes
  <1>5. PICK r : r = [Q!StaleTail[t] EXCEPT !.pc = to]
    OBVIOUS
  <1>6. /\ r \in ThreadType /\ r.pc = to
        /\ r.node = qTh[t].node /\ r.head = qTh[t].head
        /\ r.headFresh = qTh[t].headFresh /\ ~r.tailFresh
        /\ qTh' = [Q!StaleTail EXCEPT ![t] = r]
    <2>1. to \in Q!Place
      BY <1>2 DEF Q!Place
    <2>2. qTh' = [Q!StaleTail EXCEPT ![t] = r]
      BY <1>3, <1>4, <1>5
    <2> QED
      BY <1>4, <1>5, <2>1, <2>2 DEF ThreadType
  <1>7. Moves(t, r) /\ \A u \in Thread \ {t} : ~qTh'[u].tailFresh
    BY <1>6, Parts, MovesTail
  <1>8. qNext[qTail] # End /\ qTail' = qNext[qTail]
    BY <1>2, <1>3, Parts DEF LocalsOf, Filled, QueueParameters
  <1>9. Filled(r)
    BY <1>2, <1>6, Parts DEF Filled, TailRead, Making
  <1>10. LocalsOf(r)
    BY <1>2, <1>6, Parts DEF LocalsOf, TailRead
  <1>11. /\ r.pc \notin TailRead
         /\ r.pc \notin {"delete", "readdata", "movehead"}
         /\ ~Q!At(t, "delete")
         /\ Makes(t) <=> r.pc \in Making
         /\ Makes(t) => r.node = qTh[t].node
         /\ r.pc \in BusyPc <=> qTh[t].pc \in BusyPc
    BY <1>2, <1>6 DEF TailRead, Making, Makes, BusyPc, Q!Place, Q!At
  <1> QED
    BY <1>3, <1>6, <1>7, <1>8, <1>9, <1>10, <1>11, TailKeeps

LEMMA MoveTailKeeps ==
    ASSUME QueueInv, QueueParameters, NEW t \in Thread, Q!MoveTail(t),
           qTh[t].tailFresh
    PROVE  QueueInv'
  <1>1. /\ qTh[t].pc = "movetail" /\ qTail' = qTh[t].node
        /\ qTh' = [Q!StaleTail EXCEPT ![t] = Q!Idle]
        /\ UNCHANGED <<data, qNext, qHead, qSize, free, items, taken>>
    BY DEF Q!MoveTail, Q!At
  <1>2. PICK r : r = Q!Idle
    OBVIOUS
  <1>3. r \in ThreadType /\ r.pc = "idle" /\ ~r.headFresh /\ ~r.tailFresh
    BY <1>2 DEF Q!Idle, ThreadType, Q!Place
  <1>4. Moves(t, r) /\ \A u \in Thread \ {t} : ~qTh'[u].tailFresh
    BY <1>1, <1>2, <1>3, Parts, MovesTail
  <1>5. qNext[qTail] # End /\ qTail' = qNext[qTail]
    BY <1>1, Parts DEF LocalsOf, Filled, QueueParameters
  <1>6. Filled(r)
    BY <1>3 DEF Filled, TailRead, Making
  <1>7. LocalsOf(r)
    BY <1>3 DEF LocalsOf, TailRead
  <1>8. /\ r.pc \notin TailRead
        /\ r.pc \notin {"delete", "readdata", "movehead"}
        /\ ~Q!At(t, "delete")
        /\ Makes(t) <=> r.pc \in Making
        /\ Makes(t) => r.node = qTh[t].node
        /\ r.pc \in BusyPc <=> qTh[t].pc \in BusyPc
    BY <1>1, <1>3 DEF TailRead, Making, Makes, BusyPc, Q!Place, Q!At
  <1> QED
    BY <1>1, <1>3, <1>4, <1>5, <1>6, <1>7, <1>8, TailKeeps

LEMMA LinkDone ==
    ASSUME QueueInv, QueueParameters, NEW t \in Thread, Q!Link(t),
           qNext[qTh[t].tail] = End
    PROVE  QueueInv'
  <1>1. qTh[t].pc = "link" /\ "grow" \in Q!Place
    BY DEF Q!Link, Q!At, Q!Place
  <1>2. PICK r : r = [qTh[t] EXCEPT !.pc = "grow"]
    OBVIOUS
  <1>3. PICK x : x = qTh[t].tail
    OBVIOUS
  <1>4. PICK m : m = qTh[t].node
    OBVIOUS
  <1>5. /\ r \in ThreadType /\ r.pc = "grow"
        /\ r.node = m /\ r.head = qTh[t].head /\ r.tail = x
        /\ r.headFresh = qTh[t].headFresh /\ r.tailFresh = qTh[t].tailFresh
        /\ qTh' = [qTh EXCEPT ![t] = r]
    BY <1>1, <1>2, <1>3, <1>4, QueueTakes DEF Q!Link, Q!Goto
  <1>6. Moves(t, r)
    BY <1>5, Parts, MovesAlone
  <1>7. Filled(r)
    BY <1>1, <1>3, <1>4, <1>5, Parts DEF Filled, TailRead, Making
  <1>8. qNext' = [qNext EXCEPT ![x] = m] /\ Q!At(t, "link")
        /\ UNCHANGED <<data, qHead, qTail, qSize, free, items, taken>>
    BY <1>3, <1>4 DEF Q!Link
  <1> QED
    BY <1>3, <1>4, <1>5, <1>6, <1>7, <1>8, LinkKeeps

LEMMA MoveHeadKeeps ==
    ASSUME QueueInv, QueueParameters, NEW t \in Thread, Q!MoveHead(t),
           qTh[t].headFresh
    PROVE  QueueInv'
  <1>1. /\ qTh[t].pc = "movehead" /\ qHead' = qTh[t].next
        /\ taken' = taken \cup {qTh[t].ret}
        /\ qTh' = [Q!StaleHead EXCEPT ![t].pc = "delete"]
        /\ UNCHANGED <<data, qNext, qTail, qSize, free, items>>
    BY DEF Q!MoveHead, Q!At
  <1>2. /\ Q!StaleHead[t] \in ThreadType
        /\ Q!StaleHead[t].head = qTh[t].head /\ Q!StaleHead[t].tail = qTh[t].tail
        /\ ~Q!StaleHead[t].headFresh
        /\ Q!StaleHead[t].tailFresh = qTh[t].tailFresh
        /\ Q!StaleHead \in [Thread -> ThreadType]
    BY Parts, StaleTypes
  <1>3. PICK r : r = [Q!StaleHead[t] EXCEPT !.pc = "delete"]
    OBVIOUS
  <1>4. /\ r \in ThreadType /\ r.pc = "delete"
        /\ r.head = qTh[t].head /\ r.tail = qTh[t].tail
        /\ ~r.headFresh /\ r.tailFresh = qTh[t].tailFresh
        /\ qTh' = [Q!StaleHead EXCEPT ![t] = r]
    <2>1. "delete" \in Q!Place
      BY DEF Q!Place
    <2>2. qTh' = [Q!StaleHead EXCEPT ![t] = r]
      BY <1>1, <1>2, <1>3
    <2> QED
      BY <1>2, <1>3, <2>1, <2>2 DEF ThreadType
  <1>5. Moves(t, r) /\ \A u \in Thread \ {t} : ~qTh'[u].headFresh
    BY <1>4, Parts, MovesHead
  <1>6. Filled(r)
    BY <1>1, <1>4, Parts DEF Filled, TailRead, Making
  <1> QED
    BY <1>1, <1>4, <1>5, <1>6, HeadKeeps DEF Q!At

LEMMA EnqueueDone ==
    ASSUME QueueInv, QueueParameters, NEW t \in Thread, Q!Enqueue(t)
    PROVE  QueueInv'
  <1>1. PICK m \in free :
           /\ free' = free \ {m}
           /\ data' = [data EXCEPT ![m] = items']
           /\ qNext' = [qNext EXCEPT ![m] = End]
           /\ qTh' = [qTh EXCEPT ![t] =
                        [Q!Idle EXCEPT !.pc = "readtail", !.node = m]]
    BY DEF Q!Enqueue
  <1>2. PICK r : r = [Q!Idle EXCEPT !.pc = "readtail", !.node = m]
    OBVIOUS
  <1>3. /\ r \in ThreadType /\ r.pc = "readtail" /\ r.node = m
        /\ ~r.headFresh /\ ~r.tailFresh
    <2>1. m \in Node
      BY Parts DEF Types
    <2> QED
      BY <1>2, <2>1 DEF Q!Idle, ThreadType, Q!Place
  <1>4. Moves(t, r)
    BY <1>1, <1>2, <1>3, Parts, MovesAlone
  <1>5. Filled(r)
    BY <1>3, Parts DEF Filled, TailRead, Making, Types
  <1> QED
    BY <1>1, <1>3, <1>4, <1>5, MakesKeeps DEF Q!Enqueue, Q!At

-----------------------------------------------------------------------------
LEMMA QueueStarts ==
    ASSUME QueueParameters, Q!Init
    PROVE  QueueInv
  <1>1. \A u \in Thread :
           qTh[u].pc = "idle" /\ ~qTh[u].headFresh /\ ~qTh[u].tailFresh
    BY DEF Q!Init, Q!Idle
  <1>2. Types
    <2>1. Q!Idle \in ThreadType
      BY DEF Q!Idle, ThreadType, Q!Place
    <2>2. Filled(Q!Idle)
      BY DEF Q!Idle, Filled, Making, TailRead
    <2> QED
      BY <2>1, <2>2 DEF Q!Init, Types, QueueParameters
  <1>3. New = {} /\ Gone = {} /\ InUse = {Dummy}
    BY <1>1 DEF New, Gone, Makes, Making, Q!At, InUse, Q!Init, QueueParameters
  <1>4. /\ qHead = Dummy /\ qTail = Dummy /\ qNext[Dummy] = End /\ End # Dummy
        /\ items = 0 /\ taken = {} /\ qSize = 0
    BY DEF Q!Init, QueueParameters
  <1>5. \A u \in Thread : ~Makes(u) /\ ~Q!At(u, "delete")
    BY <1>1 DEF Makes, Making, Q!At
  <1>6. Owners
    BY <1>3, <1>4, <1>5 DEF Owners
  <1>7. Links
    BY <1>3, <1>4 DEF Links
  <1>8. Numbers
    BY <1>3, <1>4 DEF Numbers
  <1>9. Locals
    BY <1>1 DEF Locals, LocalsOf, TailRead
  <1>10. Sized
    <2>1. Busy = {}
      BY <1>1 DEF Busy, BusyPc
    <2> QED
      BY <1>3, <1>4, <2>1, FS_EmptySet, FS_Singleton DEF Sized
  <1>11. Private
    BY <1>5 DEF Private, Behind
  <1>12. Acyclic
    BY <1>3, <1>4 DEF Acyclic
  <1> QED
    BY <1>2, <1>6, <1>7, <1>8, <1>9, <1>10, <1>11, <1>12 DEF QueueInv

LEMMA QueueGoes ==
    ASSUME QueueInv, QueueParameters, [Q!Next]_(Q!vars)
    PROVE  QueueInv'
  <1>1. CASE UNCHANGED Q!vars
    BY <1>1 DEF Q!vars, QueueInv, Types, Filled, Owners, Links, Numbers, Locals,
       LocalsOf, Sized, Private, Behind, Acyclic, InUse, Gone, New, Makes,
       Busy, Q!At, Reaches, Closed
  <1>2. ASSUME NEW t \in Thread, Q!Enqueue(t) \/ Q!Dequeue(t) \/ Q!Step(t)
        PROVE  QueueInv'
    <2>1. CASE Q!Enqueue(t)
      BY <2>1, EnqueueDone
    <2>2. CASE Q!Dequeue(t)
      BY <2>2, DequeueKeeps
    <2>3. CASE Q!ReadTail(t)
      BY <2>3, ReadTailKeeps
    <2>4. CASE Q!ReadNext(t)
      BY <2>4, ReadNextKeeps
    <2>5. CASE Q!Help(t)
      BY <2>5, HelpLate, HelpKeeps
    <2>6. CASE Q!Link(t)
      BY <2>6, LinkLate, LinkDone
    <2>7. CASE Q!Grow(t)
      BY <2>7, GrowKeeps
    <2>8. CASE Q!MoveTail(t)
      BY <2>8, EndKeeps, MoveTailKeeps
    <2>9. CASE Q!PutBack(t)
      BY <2>9, EndKeeps
    <2>10. CASE Q!ReadHead(t)
      BY <2>10, ReadHeadKeeps
    <2>11. CASE Q!ReadTailToo(t)
      BY <2>11, ReadTailTooKeeps
    <2>12. CASE Q!ReadHeadNext(t)
      BY <2>12, ReadHeadNextKeeps
    <2>13. CASE Q!ReadTailNext(t)
      BY <2>13, ReadTailNextKeeps
    <2>14. CASE Q!HelpToo(t)
      BY <2>14, AgainKeeps, HelpKeeps
    <2>15. CASE Q!ReadData(t)
      BY <2>15, ReadDataKeeps
    <2>16. CASE Q!MoveHead(t)
      BY <2>16, AgainKeeps, MoveHeadKeeps
    <2>17. CASE Q!Delete(t)
      BY <2>17, EndKeeps
    <2> QED
      BY <1>2, <2>1, <2>2, <2>3, <2>4, <2>5, <2>6, <2>7, <2>8, <2>9, <2>10,
         <2>11, <2>12, <2>13, <2>14, <2>15, <2>16, <2>17 DEF Q!Step
  <1> QED
    BY <1>1, <1>2 DEF Q!Next

LEMMA ThenTypes ==
    ASSUME QueueParameters, QueueInv
    PROVE  Q!TypeOK
  <1>1. \A t \in Thread : qTh[t].pc \in Q!Place
    BY DEF QueueInv, Types, ThreadType
  <1> QED
    BY <1>1 DEF QueueInv, Types, Q!TypeOK, QueueParameters

(* A Dequeue takes what is first, and once. *)
LEMMA ThenFirst ==
    ASSUME QueueParameters, QueueInv, [Q!Next]_(Q!vars), qHead' # qHead
    PROVE  LET first == data[qNext[qHead]]
           IN  first \notin taken /\ taken' = taken \cup {first}
  <1>1. PICK t \in Thread : Q!MoveHead(t) /\ qTh[t].headFresh
    BY DEF Q!Next, Q!Step, Q!vars, Q!Enqueue, Q!Dequeue, Q!ReadTail,
       Q!ReadNext, Q!Help, Q!Link, Q!Grow, Q!MoveTail, Q!PutBack, Q!ReadHead,
       Q!ReadTailToo, Q!ReadHeadNext, Q!ReadTailNext, Q!HelpToo, Q!ReadData,
       Q!MoveHead, Q!Delete
  <1>2. qTh[t].pc = "movehead" /\ taken' = taken \cup {qTh[t].ret}
    BY <1>1 DEF Q!MoveHead, Q!At
  <1>3. /\ qTh[t].next = qNext[qHead] /\ qTh[t].next \in Node
        /\ qTh[t].ret = data[qNext[qHead]]
    BY <1>1, <1>2, Parts DEF LocalsOf, Filled
  <1>4. qNext[qHead] \in InUse \ {qHead}
    BY <1>3, Parts DEF QueueInv, Links, QueueParameters
  <1>5. data[qNext[qHead]] \notin taken
    BY <1>4 DEF QueueInv, Numbers
  <1> QED
    BY <1>2, <1>3, <1>5

-----------------------------------------------------------------------------
(* The walk over _next that Chain is made of. *)
Walks(f, a, m) ==
    f = [k \in 0 .. m |->
            IF k = 0 THEN a
            ELSE IF f[k - 1] = End THEN End ELSE qNext[f[k - 1]]]

LEMMA WalkExists ==
    ASSUME NEW a, NEW n \in Nat
    PROVE  \E f : Walks(f, a, n)
  <1> DEFINE Z == {m \in 0 .. n : \E f : Walks(f, a, m)}
  <1>1. 0 \in Z
    <2>1. Walks([k \in 0 .. 0 |-> a], a, 0)
      BY DEF Walks
    <2>2. \E f : Walks(f, a, 0)
      BY <2>1
    <2> QED
      BY <2>2
  <1>2. ASSUME NEW m \in 0 .. n, m < n, m \in Z
        PROVE  m + 1 \in Z
    <2>1. PICK f : Walks(f, a, m)
      BY <1>2
    <2>2. \A k \in 0 .. m :
             f[k] = IF k = 0 THEN a
                    ELSE IF f[k - 1] = End THEN End ELSE qNext[f[k - 1]]
      BY <2>1 DEF Walks
    <2> DEFINE g == [k \in 0 .. m + 1 |->
                       IF k <= m THEN f[k]
                       ELSE IF f[m] = End THEN End ELSE qNext[f[m]]]
    <2>3. ASSUME NEW k \in 0 .. m + 1
          PROVE  g[k] = IF k = 0 THEN a
                        ELSE IF g[k - 1] = End THEN End ELSE qNext[g[k - 1]]
      <3>1. CASE k <= m
        <4>1. g[k] = f[k] /\ (k # 0 => g[k - 1] = f[k - 1])
          BY <2>3, <3>1
        <4>2. f[k] = IF k = 0 THEN a
                     ELSE IF f[k - 1] = End THEN End ELSE qNext[f[k - 1]]
          BY <2>2, <2>3, <3>1
        <4> QED
          BY <4>1, <4>2
      <3>2. CASE k = m + 1
        <4>1. g[k] = IF f[m] = End THEN End ELSE qNext[f[m]]
          BY <3>2
        <4>2. k # 0 /\ g[k - 1] = f[m]
          BY <3>2
        <4> QED
          BY <4>1, <4>2
      <3> QED
        BY <3>1, <3>2
    <2>4. DOMAIN g = 0 .. m + 1 /\ g = [k \in 0 .. m + 1 |-> g[k]]
      OBVIOUS
    <2>5. Walks(g, a, m + 1)
      <3> HIDE DEF g
      <3> QED
        BY <2>3, <2>4 DEF Walks
    <2>6. m + 1 \in 0 .. n
      BY <1>2
    <2> QED
      BY <2>5, <2>6
  <1>3. n \in Z
    <2> HIDE DEF Z
    <2> QED
      BY <1>1, <1>2, Induction
  <1> QED
    BY <1>3

(* The size of a set is the same in every module.                           *)
LEMMA SameSize ==
    ASSUME NEW S
    PROVE  Q!Cardinality(S) = Cardinality(S)
  BY DEF Q!Cardinality, Cardinality

(* From a node in use, a walk stays in use until it has come to the end.    *)
LEMMA ChainWalk ==
    ASSUME Types, Links, QueueParameters, NEW a \in InUse
    PROVE  \E f \in [0 .. Cardinality(Node) -> InUse \cup {End}] :
              /\ f[0] = a
              /\ \A k \in 1 .. Cardinality(Node) :
                    f[k] = IF f[k - 1] = End THEN End ELSE qNext[f[k - 1]]
              /\ Q!Chain(a) = {f[k] : k \in 0 .. Cardinality(Node)} \ {End}
  <1> DEFINE N == Cardinality(Node)
  <1>1. N \in Nat
    BY FS_CardinalityType DEF QueueParameters
  <1> HIDE DEF N
  <1>2. PICK f : Walks(f, a, N) /\ Q!Chain(a) = {f[k] : k \in DOMAIN f} \ {End}
    <2>1. \E f : Walks(f, a, N)
      BY <1>1, WalkExists
    <2> DEFINE g == CHOOSE f : Walks(f, a, N)
    <2>2. Q!Chain(a) = {g[k] : k \in DOMAIN g} \ {End}
      BY SameSize, ZenonT(40) DEF Q!Chain, Walks, N
    <2>3. Walks(g, a, N)
      BY <2>1
    <2> QED
      BY <2>2, <2>3
  <1>3. DOMAIN f = 0 .. N
    BY <1>2 DEF Walks
  <1>4. \A k \in 0 .. N :
           f[k] = IF k = 0 THEN a
                  ELSE IF f[k - 1] = End THEN End ELSE qNext[f[k - 1]]
    BY <1>2 DEF Walks
  <1>5. ASSUME NEW k \in 0 .. N
        PROVE  f[k] \in InUse \cup {End}
    <2> DEFINE Z == {i \in 0 .. N : f[i] \in InUse \cup {End}}
    <2>1. 0 \in Z
      BY <1>1, <1>4
    <2>2. ASSUME NEW i \in 0 .. k, i < k, i \in Z
          PROVE  i + 1 \in Z
      <3>1. i + 1 \in 0 .. N /\ i + 1 # 0 /\ (i + 1) - 1 = i
        BY <1>1, <1>5, <2>2
      <3>2. f[i + 1] = IF f[i] = End THEN End ELSE qNext[f[i]]
        BY <1>4, <3>1
      <3>3. f[i] \in InUse /\ qNext[f[i]] # End => qNext[f[i]] \in InUse
        BY DEF Links
      <3>4. f[i + 1] \in InUse \cup {End}
        BY <2>2, <3>2, <3>3
      <3> QED
        BY <3>1, <3>4
    <2>3. k \in Z
      <3> HIDE DEF Z
      <3> QED
        BY <1>5, <2>1, <2>2, Induction
    <2> QED
      BY <2>3
  <1>6. f = [k \in 0 .. N |-> f[k]]
    BY <1>2 DEF Walks
  <1>7. f \in [0 .. N -> InUse \cup {End}]
    BY <1>5, <1>6
  <1>8. f[0] = a
    BY <1>1, <1>4
  <1>9. \A k \in 1 .. N : f[k] = IF f[k - 1] = End THEN End ELSE qNext[f[k - 1]]
    BY <1>1, <1>4
  <1> QED
    BY <1>2, <1>3, <1>7, <1>8, <1>9 DEF N

LEMMA ThenInUse ==
    ASSUME QueueParameters, QueueInv
    PROVE  Q!NodesInUse
  <1>1. Types /\ Links /\ qHead \in InUse /\ qTail \in InUse
    BY DEF QueueInv, Owners
  <1>2. ASSUME NEW a \in InUse
        PROVE  Q!Chain(a) \subseteq InUse
    <2> DEFINE N == Cardinality(Node)
    <2>1. PICK f \in [0 .. N -> InUse \cup {End}] :
              Q!Chain(a) = {f[k] : k \in 0 .. N} \ {End}
      BY <1>1, ChainWalk
    <2> HIDE DEF N
    <2> QED
      BY <2>1
  <1> QED
    BY <1>1, <1>2 DEF Q!NodesInUse, InUse

LEMMA UpToSize ==
    ASSUME NEW n \in Nat
    PROVE  IsFiniteSet(0 .. n) /\ Cardinality(0 .. n) = n + 1
  <1>1. 0 \in Int /\ n \in Int /\ ~(0 > n) /\ n - 0 + 1 = n + 1
    OBVIOUS
  <1>2. /\ IsFiniteSet(0 .. n)
        /\ Cardinality(0 .. n) = IF 0 > n THEN 0 ELSE n - 0 + 1
    BY <1>1, FS_Interval
  <1> QED
    BY <1>1, <1>2

(* A walk ends before it has made more steps than there are nodes.          *)
LEMMA WalkEnds ==
    ASSUME Types, Acyclic, QueueParameters,
           NEW f \in [0 .. Cardinality(Node) -> InUse \cup {End}],
           \A k \in 1 .. Cardinality(Node) :
              f[k] = IF f[k - 1] = End THEN End ELSE qNext[f[k - 1]]
    PROVE  f[Cardinality(Node)] = End
  <1> DEFINE N == Cardinality(Node)
  <1>1. N \in Nat /\ IsFiniteSet(0 .. N) /\ Cardinality(0 .. N) = N + 1
    <2>1. N \in Nat
      BY FS_CardinalityType DEF QueueParameters
    <2> HIDE DEF N
    <2> QED
      BY <2>1, UpToSize
  <1>2. Cardinality(Node) = N /\ InUse \subseteq Node
    BY DEF InUse
  <1> HIDE DEF N
  <1>3. /\ f \in [0 .. N -> InUse \cup {End}]
        /\ \A k \in 1 .. N :
              f[k] = IF f[k - 1] = End THEN End ELSE qNext[f[k - 1]]
    BY <1>2
  <1> SUFFICES ASSUME f[N] # End PROVE FALSE
    BY <1>2
  <1>4. ASSUME NEW k \in 0 .. N
        PROVE  f[k] # End
    <2> DEFINE Z == {i \in 0 .. N : f[N - i] # End}
    <2>1. 0 \in Z
      BY <1>1
    <2>2. ASSUME NEW i \in 0 .. N - k, i < N - k, i \in Z
          PROVE  i + 1 \in Z
      <3>1. /\ N - i \in 1 .. N /\ i + 1 \in 0 .. N
            /\ (N - i) - 1 = N - (i + 1)
        BY <1>1, <1>4, <2>2
      <3>2. f[N - i] = IF f[N - (i + 1)] = End THEN End
                       ELSE qNext[f[N - (i + 1)]]
        BY <1>3, <3>1
      <3> QED
        BY <2>2, <3>1, <3>2
    <2>3. N - k \in Nat
      BY <1>1, <1>4
    <2>4. N - k \in Z
      <3> HIDE DEF Z
      <3> QED
        BY <2>1, <2>2, <2>3, Induction
    <2>5. N - (N - k) = k
      BY <1>1, <1>4
    <2> QED
      BY <2>4, <2>5
  <1>5. f \in [0 .. N -> Node]
    BY <1>2, <1>3, <1>4
  <1>6. \E x, y \in 0 .. N : x # y /\ f[x] = f[y]
    <2> DEFINE D == 0 .. N
    <2>1. Cardinality(D) = N + 1 /\ IsFiniteSet(D)
      BY <1>1, <1>2
    <2>2. IsFiniteSet(Node) /\ f \in [D -> Node]
      BY <1>5 DEF QueueParameters
    <2> HIDE DEF D
    <2>3. \E x, y \in D : x # y /\ f[x] = f[y]
      <3> SUFFICES ASSUME \A x, y \in D : f[x] = f[y] => x = y
                   PROVE  FALSE
        OBVIOUS
      <3>1. f \in Injection(D, Node)
        BY <2>2 DEF Injection, IsInjective
      <3>2. Cardinality(D) <= Cardinality(Node)
        BY <2>2, <3>1, FS_Injection
      <3> QED
        BY <1>1, <1>2, <2>1, <3>2
    <2> QED
      BY <2>3 DEF D
  <1>7. PICK i \in 0 .. N, j \in 0 .. N : i < j /\ f[i] = f[j]
    BY <1>6
  <1> DEFINE S == {f[k] : k \in i + 1 .. j}
  <1>8. S \subseteq InUse /\ S # {}
    <2>1. i + 1 .. j \subseteq 0 .. N /\ j \in i + 1 .. j
      BY <1>1, <1>7
    <2>2. \A k \in 0 .. N : f[k] \in InUse
      BY <1>3, <1>4
    <2> QED
      BY <2>1, <2>2
  <1>9. PICK n \in S : \A p \in S : qNext[p] # n
    <2> HIDE DEF S
    <2> QED
      BY <1>8 DEF Acyclic
  <1>10. PICK k \in i + 1 .. j : n = f[k]
    OBVIOUS
  <1>11. k \in 1 .. N /\ k - 1 \in 0 .. N
    BY <1>1, <1>7
  <1>12. qNext[f[k - 1]] = n
    BY <1>3, <1>4, <1>10, <1>11
  <1>13. f[k - 1] \in S
    <2>1. CASE k = i + 1
      <3>1. f[k - 1] = f[j] /\ j \in i + 1 .. j
        BY <1>7, <2>1
      <3> QED
        BY <3>1
    <2>2. CASE k # i + 1
      <3>1. k - 1 \in i + 1 .. j
        BY <1>7, <2>2
      <3> QED
        BY <3>1
    <2> QED
      BY <2>1, <2>2
  <1> QED
    BY <1>9, <1>12, <1>13

(* When no Enqueue is building one, every node in use is in the queue.      *)
LEMMA ChainIsAll ==
    ASSUME Types, Links, Acyclic, Owners, New = {}, QueueParameters
    PROVE  Q!Chain(qHead) = InUse
  <1> DEFINE N == Cardinality(Node)
  <1>1. N \in Nat
    BY FS_CardinalityType DEF QueueParameters
  <1>2. qHead \in InUse /\ InUse \subseteq Node
    BY DEF Owners, InUse
  <1>3. PICK f \in [0 .. N -> InUse \cup {End}] :
              /\ f[0] = qHead
              /\ \A k \in 1 .. N :
                    f[k] = IF f[k - 1] = End THEN End ELSE qNext[f[k - 1]]
              /\ Q!Chain(qHead) = {f[k] : k \in 0 .. N} \ {End}
    BY <1>2, ChainWalk
  <1>4. f[N] = End
    BY <1>3, WalkEnds
  <1> HIDE DEF N
  <1>5. Q!Chain(qHead) \subseteq InUse /\ qHead \in Q!Chain(qHead)
    BY <1>1, <1>2, <1>3 DEF QueueParameters
  <1>6. ASSUME NEW n \in Q!Chain(qHead), qNext[n] # End
        PROVE  qNext[n] \in Q!Chain(qHead)
    <2>1. PICK k \in 0 .. N : n = f[k] /\ n # End
      BY <1>3
    <2>2. k + 1 \in 1 .. N /\ k + 1 \in 0 .. N /\ (k + 1) - 1 = k
      BY <1>1, <1>4, <2>1
    <2>3. f[k + 1] = qNext[n]
      BY <1>3, <2>1, <2>2
    <2> QED
      BY <1>3, <1>6, <2>2, <2>3
  <1> DEFINE U == InUse \ Q!Chain(qHead)
  <1>7. ASSUME NEW n \in U
        PROVE  \E p \in U : qNext[p] = n
    <2>1. n \in InUse /\ n # qHead /\ n # End
      BY <1>2, <1>5, <1>7 DEF QueueParameters
    <2>2. PICK p \in InUse : qNext[p] = n
      BY <2>1 DEF Links
    <2> QED
      BY <1>6, <1>7, <2>1, <2>2
  <1>8. U = {}
    <2>1. U \in SUBSET InUse
      OBVIOUS
    <2> HIDE DEF U
    <2> QED
      BY <1>7, <2>1 DEF Acyclic
  <1> QED
    BY <1>5, <1>8

LEMMA ThenNothingLost ==
    ASSUME QueueParameters, QueueInv
    PROVE  Q!NothingLost
  <1> SUFFICES ASSUME Q!Quiet
               PROVE  /\ Q!Waiting = (1 .. items) \ taken
                      /\ qSize = Cardinality(Q!Chain(qHead)) - 1
    BY SameSize DEF Q!NothingLost
  <1>1. \A t \in Thread : qTh[t].pc = "idle"
    BY DEF Q!Quiet, Q!At
  <1>2. New = {} /\ Busy = {}
    BY <1>1 DEF New, Makes, Making, Busy, BusyPc
  <1>3. Q!Chain(qHead) = InUse
    BY <1>2, ChainIsAll DEF QueueInv
  <1>4. Q!Waiting = (1 .. items) \ taken
    BY <1>3 DEF Q!Waiting, QueueInv, Numbers
  <1>5. qSize = Cardinality(InUse) - 1
    <2>1. qSize + 0 = Cardinality(InUse) - 1 /\ qSize \in Int
      BY <1>2, FS_EmptySet DEF QueueInv, Sized, Types
    <2> QED
      BY <2>1
  <1> QED
    BY <1>3, <1>4, <1>5

-----------------------------------------------------------------------------
(* A function may be defined by recursion over a range of numbers. *)
StepsIn(G, n, V) == \A i \in 1 .. n : \A x \in V : G[i][x] \in V

RunOf(f, G, n, v, V) == /\ f = [i \in 0 .. n |-> f[i]]
                        /\ \A i \in 0 .. n : f[i] \in V
                        /\ f[0] = v
                        /\ \A i \in 1 .. n : f[i] = G[i][f[i - 1]]

LEMMA Recursion ==
    ASSUME NEW n \in Nat, NEW V, NEW v \in V, NEW G, StepsIn(G, n, V)
    PROVE  \E f : RunOf(f, G, n, v, V)
  <1> DEFINE Z == {m \in 0 .. n : \E f : RunOf(f, G, m, v, V)}
  <1>1. 0 \in Z
    <2> DEFINE f == [i \in 0 .. 0 |-> v]
    <2>1. /\ f = [i \in 0 .. 0 |-> f[i]]
          /\ \A i \in 0 .. 0 : f[i] \in V
          /\ f[0] = v
          /\ \A i \in 1 .. 0 : f[i] = G[i][f[i - 1]]
      OBVIOUS
    <2> HIDE DEF f
    <2>2. RunOf(f, G, 0, v, V)
      BY <2>1 DEF RunOf
    <2> QED
      BY <2>2
  <1>2. ASSUME NEW m \in 0 .. n, m < n, m \in Z
        PROVE  m + 1 \in Z
    <2>1. PICK f : RunOf(f, G, m, v, V)
      BY <1>2
    <2>2. /\ \A i \in 0 .. m : f[i] \in V
          /\ f[0] = v
          /\ \A i \in 1 .. m : f[i] = G[i][f[i - 1]]
      BY <2>1 DEF RunOf
    <2> DEFINE g == [i \in 0 .. m + 1 |->
                       IF i <= m THEN f[i] ELSE G[m + 1][f[m]]]
    <2>3. m + 1 \in 1 .. n /\ m + 1 \in 0 .. n /\ m \in 0 .. m
      BY <1>2
    <2>4. G[m + 1][f[m]] \in V
      BY <2>2, <2>3 DEF StepsIn
    <2>5. \A i \in 0 .. m + 1 : g[i] \in V
      BY <2>2, <2>4
    <2>6. g[0] = v
      BY <2>2, <2>3
    <2>7. ASSUME NEW i \in 1 .. m + 1
          PROVE  g[i] = G[i][g[i - 1]]
      <3>1. i - 1 \in 0 .. m /\ g[i - 1] = f[i - 1]
        BY <2>3, <2>7
      <3>2. CASE i <= m
        BY <2>2, <2>7, <3>1, <3>2
      <3>3. CASE i = m + 1
        <4>1. g[i] = G[m + 1][f[m]]
          BY <3>3
        <4>2. g[i - 1] = f[m]
          BY <3>1, <3>3
        <4> QED
          BY <3>3, <4>1, <4>2
      <3> QED
        BY <2>7, <3>2, <3>3
    <2>8. RunOf(g, G, m + 1, v, V)
      <3>1. g = [i \in 0 .. m + 1 |-> g[i]]
        OBVIOUS
      <3> HIDE DEF g
      <3> QED
        BY <2>5, <2>6, <2>7, <3>1 DEF RunOf
    <2> QED
      BY <2>3, <2>8
  <1>3. n \in Z
    <2> HIDE DEF Z
    <2> QED
      BY <1>1, <1>2, Induction
  <1> QED
    BY <1>3

-----------------------------------------------------------------------------
PoolPlace ==
    {"idle", "readpush", "push", "grow", "readsize", "readtop", "readnext",
     "pop", "shrink", "new"}

Entry == {e \in (Cell \cup {Null}) \X (0 .. MaxPushes) :
             e[1] = Null => e = P!Nil}

PoolThread ==
    [pc : PoolPlace, cell : Cell \cup {Null}, top : Entry, next : Entry]
PoolLocal ==
    [msize : 0 .. NODECOUNT, top : 0 .. NODECOUNT, freeTop : {0, NODECOUNT}]

PoolTypes ==
    /\ made \in 0 .. MaxMade /\ held \in Nat
    /\ local \in [Thread -> PoolLocal]
    /\ top \in Entry /\ list \in [Cell -> 0 .. NODECOUNT]
    /\ pNext \in [Cell -> Entry]
    /\ msize \in Int /\ spare \in SUBSET Cell /\ pushes \in 0 .. MaxPushes
    /\ pTh \in [Thread -> PoolThread]

(* A thread's list is as long as it says, it has none while it looks for     *)
(* one, and a list in a cell is a full one.                                *)
Looking(r) ==
    r.pc \in {"readsize", "readtop", "readnext", "pop", "shrink", "new"}
PoolLists ==
    /\ \A t \in Thread : local[t].msize = local[t].top
    /\ \A t \in Thread :
          Looking(pTh[t]) => local[t].top = 0 /\ local[t].freeTop = 0
    /\ \A c \in Cell \ spare : list[c] = NODECOUNT

(* The cell that is a thread's own.                                        *)
Brings(r) == r.pc \in {"readpush", "push"}
Owns(r, c) == (Brings(r) /\ r.cell = c) \/ (r.pc = "shrink" /\ r.top[1] = c)

PoolCells ==
    /\ \A t \in Thread : Brings(pTh[t]) => pTh[t].cell \in Cell
    /\ \A t \in Thread :
          pTh[t].pc \in {"readnext", "pop", "shrink"} => pTh[t].top[1] \in Cell
    /\ \A t \in Thread : \A c \in spare : ~Owns(pTh[t], c)
    /\ \A t, u \in Thread : \A c \in Cell :
          Owns(pTh[t], c) /\ Owns(pTh[u], c) => t = u

PoolNumbers ==
    /\ top[2] <= pushes /\ \A c \in Cell : pNext[c][2] <= pushes
    /\ \A t \in Thread : pTh[t].top[2] <= pushes /\ pTh[t].next[2] <= pushes

(* The cells of the stack form one list.                                   *)
OnStack == {c \in Cell \ spare : \A t \in Thread : ~Owns(pTh[t], c)}
Listed(n, s) ==
    /\ \A i, j \in 1 .. n : s[i] = s[j] => i = j
    /\ \A c \in OnStack : \E i \in 1 .. n : s[i] = c
    /\ n = 0 => top[1] = Null
    /\ n # 0 => top[1] = s[1]
    /\ \A i \in 1 .. n : i # n => pNext[s[i]][1] = s[i + 1]
    /\ n # 0 => pNext[s[n]][1] = Null
PoolStack == \E n \in Nat : \E s \in [1 .. n -> OnStack] : Listed(n, s)

(* What a thread has read is still so if the cell, with the number of its    *)
(* push, is on the stack.                                                  *)
Standing == {top} \cup {pNext[c] : c \in OnStack}
PoolReads ==
    /\ \A t \in Thread : Brings(pTh[t]) => pTh[t].next[1] = pTh[t].cell
    /\ \A t \in Thread : pTh[t].pc = "push" => pNext[pTh[t].cell] = pTh[t].top
    /\ \A t \in Thread : pTh[t].pc = "pop" /\ pTh[t].top \in Standing
                            => pTh[t].next = pNext[pTh[t].top[1]]
    /\ \A t, u \in Thread : pTh[t].pc \in {"readnext", "pop"} /\ Brings(pTh[u])
                               => pTh[t].top # pTh[u].next

InPools(l) ==
    LET InPool(t) == l[t].top + l[t].freeTop
        inPools[S \in SUBSET Thread] ==
          IF S = {} THEN 0
          ELSE LET t == CHOOSE t \in S : TRUE IN InPool(t) + inPools[S \ {t}]
    IN  inPools[Thread]
PoolSum ==
    made = held + InPools(local) + NODECOUNT * Cardinality(Cell \ spare)

PoolInv ==
    /\ PoolTypes /\ PoolLists /\ PoolCells /\ PoolNumbers /\ PoolStack
    /\ PoolReads /\ PoolSum

-----------------------------------------------------------------------------
(* What holds of the empty set, and of a set if it does of those that lack   *)
(* one element of it, holds of every finite set.                           *)
LEMMA SetInduction ==
    ASSUME NEW T, IsFiniteSet(T), NEW Z, {} \in Z,
           \A S \in SUBSET T :
              S # {} /\ (\A c \in S : S \ {c} \in Z) => S \in Z
    PROVE  \A S \in SUBSET T : S \in Z
  <1> DEFINE N == Cardinality(T)
             W == {n \in 0 .. N :
                     \A S \in SUBSET T : Cardinality(S) <= n => S \in Z}
  <1>1. N \in Nat
    BY FS_CardinalityType
  <1>2. \A S \in SUBSET T :
           /\ IsFiniteSet(S) /\ Cardinality(S) \in Nat /\ Cardinality(S) <= N
           /\ Cardinality(S) = 0 <=> S = {}
    BY FS_Subset, FS_CardinalityType, FS_EmptySet
  <1> HIDE DEF N
  <1>3. 0 \in W
    <2>1. \A S \in SUBSET T : Cardinality(S) <= 0 => S = {}
      BY <1>2
    <2> QED
      BY <1>1, <2>1
  <1>4. ASSUME NEW n \in 0 .. N, n < N, n \in W
        PROVE  n + 1 \in W
    <2>1. ASSUME NEW S \in SUBSET T, Cardinality(S) <= n + 1
          PROVE  S \in Z
      <3>1. CASE S = {}
        BY <3>1
      <3>2. CASE S # {}
        <4>1. ASSUME NEW c \in S PROVE S \ {c} \in Z
          <5>1. Cardinality(S \ {c}) = Cardinality(S) - 1
            BY <1>2, FS_RemoveElement
          <5>2. Cardinality(S \ {c}) <= n /\ S \ {c} \in SUBSET T
            BY <1>2, <2>1, <5>1
          <5> QED
            BY <1>4, <5>2
        <4> QED
          BY <3>2, <4>1
      <3> QED
        BY <3>1, <3>2
    <2>2. n + 1 \in 0 .. N
      BY <1>1, <1>4
    <2> QED
      BY <2>1, <2>2
  <1>5. N \in W
    <2> HIDE DEF W
    <2> QED
      BY <1>1, <1>3, <1>4, Induction
  <1> QED
    BY <1>2, <1>5

(* One that sums up v over each set, taking the elements as CHOOSE does.    *)
One(S) == CHOOSE t \in S : TRUE
Sums(f, T, v) ==
    \A S \in SUBSET T : f[S] = IF S = {} THEN 0
                               ELSE v[One(S)] + f[S \ {One(S)}]

(* There is one, its values are numbers, and zero if all summands are.      *)
LEMMA SumsExist ==
    ASSUME NEW T, IsFiniteSet(T), NEW v, \A t \in T : v[t] \in Nat
    PROVE  \E f : f = [S \in SUBSET T |-> f[S]] /\ Sums(f, T, v)
  <1> DEFINE N == Cardinality(T)
             Upon(f) == [S \in SUBSET T |->
                           IF S = {} THEN 0 ELSE v[One(S)] + f[S \ {One(S)}]]
             Right(f, n) == \A S \in SUBSET T : Cardinality(S) <= n
                               => f[S] = Upon(f)[S]
             W == {n \in 0 .. N : \E f : f = [S \in SUBSET T |-> f[S]]
                                         /\ Right(f, n)}
  <1>1. N \in Nat
    BY FS_CardinalityType
  <1>2. \A S \in SUBSET T :
           /\ IsFiniteSet(S) /\ Cardinality(S) \in Nat /\ Cardinality(S) <= N
           /\ Cardinality(S) = 0 <=> S = {}
    BY FS_Subset, FS_CardinalityType, FS_EmptySet
  <1>3. \A S \in SUBSET T : S # {} =>
           /\ One(S) \in S /\ S \ {One(S)} \in SUBSET T
           /\ Cardinality(S \ {One(S)}) = Cardinality(S) - 1
    <2> TAKE S \in SUBSET T
    <2> HAVE S # {}
    <2>1. One(S) \in S
      BY DEF One
    <2>2. PICK c \in S : c = One(S)
      BY <2>1
    <2>3. Cardinality(S \ {c}) = Cardinality(S) - 1
      BY <1>2, FS_RemoveElement
    <2> QED
      BY <2>2, <2>3
  <1> HIDE DEF N
  <1>4. 0 \in W
    <2> DEFINE f == [S \in SUBSET T |-> 0]
    <2>1. ASSUME NEW S \in SUBSET T, Cardinality(S) <= 0
          PROVE  f[S] = Upon(f)[S]
      BY <1>2, <2>1
    <2>2. f = [S \in SUBSET T |-> f[S]]
      OBVIOUS
    <2> HIDE DEF f, Upon
    <2>3. Right(f, 0)
      BY <2>1
    <2> HIDE DEF Right
    <2> QED
      BY <1>1, <2>2, <2>3
  <1>5. ASSUME NEW n \in 0 .. N, n < N, n \in W
        PROVE  n + 1 \in W
    <2>1. PICK f : Right(f, n)
      BY <1>5
    <2> DEFINE g == Upon(f)
    <2>2. ASSUME NEW S \in SUBSET T, Cardinality(S) <= n + 1
          PROVE  g[S] = Upon(g)[S]
      <3>1. CASE S = {}
        BY <3>1
      <3>2. CASE S # {}
        <4>1. PICK rest \in SUBSET T :
                   rest = S \ {One(S)} /\ Cardinality(rest) <= n
          <5>1. /\ S \ {One(S)} \in SUBSET T
                /\ Cardinality(S \ {One(S)}) = Cardinality(S) - 1
            BY <1>3, <3>2
          <5>2. Cardinality(S) \in Nat
            BY <1>2
          <5>3. Cardinality(S \ {One(S)}) <= n
            BY <2>2, <5>1, <5>2
          <5> QED
            BY <5>1, <5>3
        <4>2. f[rest] = g[rest]
          BY <2>1, <4>1
        <4>3. g[S] = v[One(S)] + f[rest] /\ Upon(g)[S] = v[One(S)] + g[rest]
          BY <3>2, <4>1
        <4> QED
          BY <4>2, <4>3
      <3> QED
        BY <3>1, <3>2
    <2>3. g = [S \in SUBSET T |-> g[S]]
      OBVIOUS
    <2> HIDE DEF g, Upon
    <2>4. Right(g, n + 1)
      BY <2>2
    <2>5. n + 1 \in 0 .. N
      BY <1>1, <1>5
    <2> HIDE DEF Right
    <2> QED
      BY <2>3, <2>4, <2>5
  <1>6. N \in W
    <2> HIDE DEF W
    <2> QED
      BY <1>1, <1>4, <1>5, Induction
  <1>7. PICK f : f = [S \in SUBSET T |-> f[S]] /\ Right(f, N)
    BY <1>6
  <1>8. ASSUME NEW S \in SUBSET T
        PROVE  f[S] = IF S = {} THEN 0 ELSE v[One(S)] + f[S \ {One(S)}]
    BY <1>2, <1>7
  <1>9. Sums(f, T, v)
    BY <1>8 DEF Sums
  <1> QED
    BY <1>7, <1>9

LEMMA SumsNat ==
    ASSUME NEW T, IsFiniteSet(T), NEW v, \A t \in T : v[t] \in Nat,
           NEW f, Sums(f, T, v)
    PROVE  \A S \in SUBSET T : f[S] \in Nat
  <1> DEFINE Z == {S \in SUBSET T : f[S] \in Nat}
  <1>1. {} \in Z
    BY DEF Sums
  <1>2. ASSUME NEW S \in SUBSET T, S # {}, \A c \in S : S \ {c} \in Z
        PROVE  S \in Z
    <2>1. PICK c \in S : c = One(S)
      BY <1>2 DEF One
    <2>2. f[S] = v[c] + f[S \ {c}]
      BY <1>2, <2>1 DEF Sums
    <2> QED
      BY <1>2, <2>1, <2>2
  <1> HIDE DEF Z
  <1>3. \A S \in SUBSET T : S \in Z
    BY <1>1, <1>2, SetInduction
  <1> QED
    BY <1>3 DEF Z

LEMMA SumsZero ==
    ASSUME NEW T, IsFiniteSet(T), NEW v, \A t \in T : v[t] = 0,
           NEW f, Sums(f, T, v)
    PROVE  \A S \in SUBSET T : f[S] = 0
  <1> DEFINE Z == {S \in SUBSET T : f[S] = 0}
  <1>1. {} \in Z
    BY DEF Sums
  <1>2. ASSUME NEW S \in SUBSET T, S # {}, \A c \in S : S \ {c} \in Z
        PROVE  S \in Z
    <2>1. PICK c \in S : c = One(S)
      BY <1>2 DEF One
    <2>2. f[S] = v[c] + f[S \ {c}]
      BY <1>2, <2>1 DEF Sums
    <2> QED
      BY <1>2, <2>1, <2>2
  <1> HIDE DEF Z
  <1>3. \A S \in SUBSET T : S \in Z
    BY <1>1, <1>2, SetInduction
  <1> QED
    BY <1>3 DEF Z

(* One summand changes. *)
LEMMA SumsChange ==
    ASSUME NEW T, IsFiniteSet(T), NEW v, \A s \in T : v[s] \in Nat,
           NEW w, \A s \in T : w[s] \in Nat,
           NEW t \in T, \A s \in T \ {t} : w[s] = v[s],
           NEW f, Sums(f, T, v), NEW g, Sums(g, T, w)
    PROVE  g[T] = f[T] - v[t] + w[t]
  <1> DEFINE Z == {S \in SUBSET T : /\ t \notin S => g[S] = f[S]
                                    /\ t \in S => g[S] = f[S] - v[t] + w[t]}
  <1>1. {} \in Z
    BY DEF Sums
  <1>2. ASSUME NEW S \in SUBSET T, S # {}, \A c \in S : S \ {c} \in Z
        PROVE  S \in Z
    <2>1. PICK c \in S : c = One(S)
      BY <1>2 DEF One
    <2>2. PICK rest \in SUBSET T : rest = S \ {c}
      OBVIOUS
    <2>3. f[S] = v[c] + f[rest] /\ g[S] = w[c] + g[rest]
      BY <1>2, <2>1, <2>2 DEF Sums
    <2>4. f[rest] \in Nat /\ g[rest] \in Nat
      BY SumsNat
    <2>5. rest \in Z
      BY <1>2, <2>1, <2>2
    <2>6. CASE c = t
      <3>1. g[rest] = f[rest]
        BY <2>2, <2>5, <2>6
      <3> QED
        BY <2>1, <2>3, <2>4, <2>6, <3>1
    <2>7. CASE c # t
      <3>1. w[c] = v[c] /\ v[c] \in Nat /\ (t \in S <=> t \in rest)
        BY <2>1, <2>2, <2>7
      <3>2. CASE t \in S
        <4>1. g[rest] = f[rest] - v[t] + w[t]
          BY <2>5, <3>1, <3>2
        <4> QED
          BY <2>3, <2>4, <3>1, <3>2, <4>1
      <3>3. CASE t \notin S
        <4>1. g[rest] = f[rest]
          BY <2>5, <3>1, <3>3
        <4> QED
          BY <2>3, <3>1, <3>3, <4>1
      <3> QED
        BY <3>2, <3>3
    <2> QED
      BY <2>6, <2>7
  <1> HIDE DEF Z
  <1>3. \A S \in SUBSET T : S \in Z
    BY <1>1, <1>2, SetInduction
  <1>4. T \in Z
    BY <1>3
  <1> QED
    BY <1>4 DEF Z

(* The objects in the lists of the threads. *)
PoolOf(l) == [t \in Thread |-> l[t].top + l[t].freeTop]
(* OwnedOnce adds them up in this way.                                      *)
LEMMA InPoolsSum ==
    ASSUME NEW l, \A t \in Thread : l[t].top \in Nat /\ l[t].freeTop \in Nat
    PROVE  \E f : Sums(f, Thread, PoolOf(l)) /\ InPools(l) = f[Thread]
  <1> DEFINE D(f) == f = [S \in SUBSET Thread |->
               IF S = {} THEN 0
               ELSE (l[CHOOSE t \in S : TRUE].top
                       + l[CHOOSE t \in S : TRUE].freeTop)
                    + f[S \ {CHOOSE t \in S : TRUE}]]
             f == CHOOSE g : D(g)
  <1>1. InPools(l) = f[Thread]
    BY DEF InPools
  <1>2. ASSUME NEW S \in SUBSET Thread, S # {}
        PROVE  PoolOf(l)[One(S)] = l[CHOOSE t \in S : TRUE].top
                                     + l[CHOOSE t \in S : TRUE].freeTop
    <2>1. One(S) \in Thread
      BY <1>2 DEF One
    <2>2. PICK c \in Thread : c = One(S)
      BY <2>1
    <2>3. PoolOf(l)[c] = l[c].top + l[c].freeTop
      BY DEF PoolOf
    <2> QED
      BY <2>2, <2>3 DEF One
  <1>3. \E g : D(g)
    <2>1. IsFiniteSet(Thread)
      BY LibraryAssumption
    <2>2. \A t \in Thread : PoolOf(l)[t] \in Nat
      BY DEF PoolOf
    <2>3. PICK g : /\ g = [S \in SUBSET Thread |-> g[S]]
                   /\ Sums(g, Thread, PoolOf(l))
      BY <2>1, <2>2, SumsExist
    <2>4. ASSUME NEW S \in SUBSET Thread
          PROVE  g[S] = IF S = {} THEN 0
                        ELSE (l[CHOOSE t \in S : TRUE].top
                                + l[CHOOSE t \in S : TRUE].freeTop)
                             + g[S \ {CHOOSE t \in S : TRUE}]
      <3>1. CASE S = {}
        BY <2>3, <3>1 DEF Sums
      <3>2. CASE S # {}
        <4>1. g[S] = PoolOf(l)[One(S)] + g[S \ {One(S)}]
          BY <2>3, <3>2 DEF Sums
        <4> QED
          BY <1>2, <3>2, <4>1 DEF One
      <3> QED
        BY <3>1, <3>2
    <2>5. D(g)
      BY <2>3, <2>4, Zenon
    <2> HIDE DEF D
    <2> QED
      BY <2>5
  <1>4. D(f)
    <2> HIDE DEF D
    <2> QED
      BY <1>3
  <1> HIDE DEF f
  <1>5. ASSUME NEW S \in SUBSET Thread
        PROVE  f[S] = IF S = {} THEN 0
                      ELSE PoolOf(l)[One(S)] + f[S \ {One(S)}]
    <2>1. f[S] = IF S = {} THEN 0
                 ELSE (l[CHOOSE t \in S : TRUE].top
                         + l[CHOOSE t \in S : TRUE].freeTop)
                      + f[S \ {CHOOSE t \in S : TRUE}]
      BY <1>4
    <2> QED
      BY <1>2, <2>1 DEF One
  <1>6. Sums(f, Thread, PoolOf(l))
    BY <1>5 DEF Sums
  <1> QED
    BY <1>1, <1>6

(* What LibraryAssumption says of this part.                                *)
LEMMA PoolFacts ==
    /\ NODECOUNT \in Nat \ {0} /\ MaxMade \in Nat /\ MaxPushes \in Nat
    /\ Null \notin Cell /\ IsFiniteSet(Thread) /\ IsFiniteSet(Cell)
  BY LibraryAssumption

LEMMA IdleThread ==
    /\ P!Idle \in PoolThread /\ P!Idle.pc = "idle"
    /\ P!Idle.top = P!Nil /\ P!Idle.next = P!Nil
  <1>1. P!Nil \in Entry
    BY PoolFacts DEF Entry, P!Nil
  <1>2. PICK nil \in Entry : nil = P!Nil
    BY <1>1
  <1>3. P!Idle = [pc |-> "idle", cell |-> Null, top |-> nil, next |-> nil]
    BY <1>2 DEF P!Idle
  <1>4. P!Idle \in PoolThread
    BY <1>3 DEF PoolThread, PoolPlace
  <1>5. P!Idle.pc = "idle" /\ P!Idle.top = nil /\ P!Idle.next = nil
    BY <1>3
  <1> QED
    BY <1>2, <1>4, <1>5

(* The sum is a number, and changes as one thread's lists do.               *)
LEMMA PoolsNat ==
    ASSUME NEW l, \A t \in Thread : l[t].top \in Nat /\ l[t].freeTop \in Nat
    PROVE  InPools(l) \in Nat
  <1>1. PICK f : Sums(f, Thread, PoolOf(l)) /\ InPools(l) = f[Thread]
    BY InPoolsSum
  <1>2. \A t \in Thread : PoolOf(l)[t] \in Nat
    BY DEF PoolOf
  <1>3. f[Thread] \in Nat
    BY <1>1, <1>2, PoolFacts, SumsNat
  <1> QED
    BY <1>1, <1>3

LEMMA PoolsMove ==
    ASSUME PoolTypes, NEW t \in Thread, NEW l \in PoolLocal,
           local' = [local EXCEPT ![t] = l]
    PROVE  /\ local' \in [Thread -> PoolLocal]
           /\ local'[t] = l /\ \A u \in Thread \ {t} : local'[u] = local[u]
           /\ InPools(local) \in Nat
           /\ local[t].top \in Nat /\ local[t].freeTop \in Nat
           /\ InPools(local)' = InPools(local)
                                  - (local[t].top + local[t].freeTop)
                                  + (l.top + l.freeTop)
  <1>1. /\ local' \in [Thread -> PoolLocal]
        /\ local'[t] = l /\ \A u \in Thread \ {t} : local'[u] = local[u]
    BY DEF PoolTypes
  <1>2. PICK k : k = local'
    OBVIOUS
  <1>3. /\ \A u \in Thread : local[u].top \in Nat /\ local[u].freeTop \in Nat
        /\ \A u \in Thread : k[u].top \in Nat /\ k[u].freeTop \in Nat
    BY <1>1, <1>2, PoolFacts DEF PoolTypes, PoolLocal
  <1>4. PICK f : /\ Sums(f, Thread, PoolOf(local))
                 /\ InPools(local) = f[Thread]
    BY <1>3, InPoolsSum
  <1>5. PICK g : Sums(g, Thread, PoolOf(k)) /\ InPools(k) = g[Thread]
    BY <1>3, InPoolsSum
  <1>6. PICK v, w : v = PoolOf(local) /\ w = PoolOf(k)
    OBVIOUS
  <1>7. /\ \A u \in Thread : v[u] \in Nat /\ w[u] \in Nat
        /\ v[t] = local[t].top + local[t].freeTop
        /\ w[t] = l.top + l.freeTop
        /\ \A u \in Thread \ {t} : w[u] = v[u]
    BY <1>1, <1>2, <1>3, <1>6 DEF PoolOf
  <1>8. g[Thread] = f[Thread] - v[t] + w[t]
    BY <1>4, <1>5, <1>6, <1>7, PoolFacts, SumsChange
  <1>9. InPools(local)' = InPools(k)
    BY <1>2 DEF InPools
  <1> QED
    BY <1>1, <1>3, <1>4, <1>5, <1>7, <1>8, <1>9, PoolsNat

(* One thread goes on.                                                      *)
LEMMA PoolMoves ==
    ASSUME PoolTypes, NEW t \in Thread, NEW r \in PoolThread,
           pTh' = [pTh EXCEPT ![t] = r]
    PROVE  /\ pTh' \in [Thread -> PoolThread]
           /\ pTh'[t] = r /\ \A u \in Thread \ {t} : pTh'[u] = pTh[u]
  BY DEF PoolTypes

(* What stands on the stack is in one of its cells, or nothing.            *)
LEMMA StandingOn ==
    ASSUME PoolTypes, PoolStack
    PROVE  /\ \A e \in Standing : e \in Entry /\ e[1] \in OnStack \cup {Null}
           /\ \A c \in OnStack : pNext[c][1] # top[1] \/ top[1] = Null
           /\ top \in Standing
  <1>1. PICK n \in Nat : \E s \in [1 .. n -> OnStack] : Listed(n, s)
    BY DEF PoolStack
  <1>2. PICK s \in [1 .. n -> OnStack] : Listed(n, s)
    BY <1>1
  <1>3. /\ n = 0 => top[1] = Null
        /\ n # 0 => top[1] = s[1]
    BY <1>2 DEF Listed
  <1>4. ASSUME NEW c \in OnStack
        PROVE  /\ pNext[c][1] \in OnStack \cup {Null}
               /\ pNext[c][1] # top[1] \/ top[1] = Null
               /\ pNext[c] \in Entry
    <2>1. PICK i \in 1 .. n : s[i] = c
      BY <1>2 DEF Listed
    <2>2. CASE i = n
      <3>1. pNext[c][1] = Null
        BY <1>2, <2>1, <2>2 DEF Listed
      <3> QED
        BY <3>1 DEF OnStack, PoolTypes
    <2>3. CASE i # n
      <3>1. i + 1 \in 1 .. n /\ 1 \in 1 .. n /\ i + 1 # 1
        BY <2>3
      <3>2. pNext[c][1] = s[i + 1]
        BY <1>2, <2>1, <2>3 DEF Listed
      <3>3. s[i + 1] # s[1]
        BY <1>2, <3>1 DEF Listed
      <3> QED
        BY <1>3, <3>1, <3>2, <3>3 DEF OnStack, PoolTypes
    <2> QED
      BY <2>2, <2>3
  <1>5. top[1] \in OnStack \cup {Null}
    BY <1>3
  <1> QED
    BY <1>4, <1>5 DEF Standing, PoolTypes

(* The list of the stack stays if its cells and their links do.            *)
LEMMA PoolStackStays ==
    ASSUME PoolStack, OnStack' = OnStack, UNCHANGED top,
           \A c \in OnStack : pNext'[c] = pNext[c]
    PROVE  PoolStack' /\ Standing' = Standing
  <1>1. PICK n \in Nat : \E s \in [1 .. n -> OnStack] : Listed(n, s)
    BY DEF PoolStack
  <1>2. PICK s \in [1 .. n -> OnStack] : Listed(n, s)
    BY <1>1
  <1>3. Listed(n, s)'
    <2>1. \A i \in 1 .. n : pNext'[s[i]] = pNext[s[i]]
      OBVIOUS
    <2> QED
      BY <1>2, <2>1 DEF Listed
  <1>4. PoolStack'
    BY <1>3 DEF PoolStack
  <1>5. Standing' = Standing
    BY DEF Standing
  <1> QED
    BY <1>4, <1>5

(* A thread moves that brings no cell to the stack and takes none.         *)
LEMMA PoolQuiet ==
    ASSUME PoolInv, NEW t \in Thread, NEW r \in PoolThread,
           pTh' = [pTh EXCEPT ![t] = r],
           UNCHANGED <<top, spare, pushes>>, pNext' \in [Cell -> Entry],
           \A c \in OnStack : pNext'[c] = pNext[c],
           \A c \in Cell : Owns(r, c) <=> Owns(pTh[t], c),
           Brings(r) => /\ r.cell \in Cell /\ Brings(pTh[t])
                        /\ r.next = pTh[t].next /\ r.cell = pTh[t].cell,
           r.pc \in {"readnext", "pop", "shrink"} => r.top[1] \in Cell,
           r.top[2] <= pushes /\ r.next[2] <= pushes,
           \A c \in Cell : pNext'[c][2] <= pushes,
           r.pc = "push" => pNext'[r.cell] = r.top,
           \A u \in Thread \ {t} :
               pTh[u].pc = "push" => pNext'[pTh[u].cell] = pNext[pTh[u].cell],
           r.pc = "pop" /\ r.top \in Standing => r.next = pNext[r.top[1]],
           r.pc \in {"readnext", "pop"} =>
               \A u \in Thread : Brings(pTh[u]) => r.top # pTh[u].next
    PROVE  PoolCells' /\ PoolNumbers' /\ PoolStack' /\ PoolReads'
  <1> USE DEF PoolInv
  <1>1. /\ pTh'[t] = r /\ \A u \in Thread \ {t} : pTh'[u] = pTh[u]
    BY PoolMoves
  <1>2. \A u \in Thread : \A c \in Cell : Owns(pTh'[u], c) <=> Owns(pTh[u], c)
    BY <1>1
  <1>3. spare \in SUBSET Cell
    BY DEF PoolTypes
  <1>4. PoolCells'
    <2>1. \A u \in Thread : Brings(pTh'[u]) => pTh'[u].cell \in Cell
      BY <1>1 DEF PoolCells
    <2>2. \A u \in Thread :
             pTh'[u].pc \in {"readnext", "pop", "shrink"}
                => pTh'[u].top[1] \in Cell
      BY <1>1 DEF PoolCells
    <2>3. \A u \in Thread : \A c \in spare : ~Owns(pTh'[u], c)
      BY <1>2, <1>3 DEF PoolCells
    <2>4. \A u, w \in Thread : \A c \in Cell :
             Owns(pTh'[u], c) /\ Owns(pTh'[w], c) => u = w
      BY <1>2 DEF PoolCells
    <2> QED
      BY <2>1, <2>2, <2>3, <2>4 DEF PoolCells
  <1>5. PoolNumbers'
    BY <1>1 DEF PoolNumbers
  <1>6. OnStack' = OnStack
    BY <1>2 DEF OnStack
  <1>7. PoolStack' /\ Standing' = Standing
    BY <1>6, PoolStackStays
  <1>8. PoolReads'
    <2>1. \A u \in Thread : Brings(pTh'[u]) => pTh'[u].next[1] = pTh'[u].cell
      BY <1>1 DEF PoolReads
    <2>2. \A u \in Thread :
             pTh'[u].pc = "push" => pNext'[pTh'[u].cell] = pTh'[u].top
      BY <1>1 DEF PoolReads
    <2>3. ASSUME NEW u \in Thread, pTh'[u].pc = "pop", pTh'[u].top \in Standing
          PROVE  pTh'[u].next = pNext'[pTh'[u].top[1]]
      <3>1. pTh'[u].top[1] \in Cell
        BY <1>1, <2>3 DEF PoolCells
      <3>2. pTh'[u].top[1] \in OnStack
        BY <2>3, <3>1, StandingOn, PoolFacts
      <3>3. pTh'[u].next = pNext[pTh'[u].top[1]]
        BY <1>1, <2>3 DEF PoolReads
      <3> QED
        BY <3>2, <3>3
    <2>4. ASSUME NEW u \in Thread, NEW w \in Thread,
                 pTh'[u].pc \in {"readnext", "pop"}, Brings(pTh'[w])
          PROVE  pTh'[u].top # pTh'[w].next
      <3>1. Brings(pTh[w]) /\ pTh'[w].next = pTh[w].next
        BY <1>1, <2>4
      <3>2. CASE u = t
        BY <1>1, <2>4, <3>1, <3>2
      <3>3. CASE u # t
        BY <1>1, <2>4, <3>1, <3>3 DEF PoolReads
      <3> QED
        BY <3>2, <3>3
    <2> QED
      BY <1>7, <2>1, <2>2, <2>3, <2>4 DEF PoolReads
  <1> QED
    BY <1>4, <1>5, <1>7, <1>8

(* A thread takes a spare cell for its list. *)
LEMMA PoolStart ==
    ASSUME PoolInv, NEW t \in Thread, pTh[t].pc = "idle",
           local[t].freeTop = NODECOUNT, P!StartPush(t),
           UNCHANGED <<top, pNext>>
    PROVE  /\ PoolCells' /\ PoolNumbers' /\ PoolStack' /\ PoolReads'
           /\ pTh' \in [Thread -> PoolThread]
           /\ list' \in [Cell -> 0 .. NODECOUNT]
           /\ pTh'[t].pc = "readpush"
           /\ \A u \in Thread \ {t} : pTh'[u] = pTh[u]
           /\ \A c \in Cell \ spare' : list'[c] = NODECOUNT
           /\ spare' \in SUBSET Cell /\ pushes' \in 0 .. MaxPushes
           /\ Cardinality(Cell \ spare) \in Nat
           /\ Cardinality(Cell \ spare)' = Cardinality(Cell \ spare) + 1
  <1> USE DEF PoolInv
  <1>1. PICK c \in spare :
           /\ spare' = spare \ {c} /\ list' = [list EXCEPT ![c] = NODECOUNT]
           /\ pTh' = [pTh EXCEPT ![t] = [P!Idle EXCEPT !.pc = "readpush",
                                 !.cell = c, !.next = <<c, pushes'>>]]
    BY DEF P!StartPush
  <1>2. pushes' = pushes + 1 /\ pushes \in Nat /\ pushes' \in 0 .. MaxPushes
    BY PoolFacts DEF P!StartPush, PoolTypes
  <1>3. /\ c \in Cell /\ c # Null /\ spare \in SUBSET Cell
        /\ spare' \in SUBSET Cell
    BY <1>1, PoolFacts DEF PoolTypes
  <1>4. PICK r \in PoolThread :
           /\ pTh' = [pTh EXCEPT ![t] = r]
           /\ r.pc = "readpush" /\ r.cell = c /\ r.top = P!Nil
           /\ r.next = <<c, pushes'>>
    <2>1. PICK r : r = [P!Idle EXCEPT !.pc = "readpush", !.cell = c,
                                      !.next = <<c, pushes'>>]
      OBVIOUS
    <2>2. PICK e : e = <<c, pushes'>>
      OBVIOUS
    <2>3. e \in Entry /\ P!Nil \in Entry
      BY <1>2, <1>3, <2>2, PoolFacts DEF Entry, P!Nil
    <2>4. PICK i \in PoolThread : i = P!Idle /\ i.top = P!Nil
      BY IdleThread
    <2>5. r = [i EXCEPT !.pc = "readpush", !.cell = c, !.next = e]
      BY <2>1, <2>2, <2>4
    <2>6. r \in PoolThread
      BY <1>3, <2>3, <2>4, <2>5 DEF PoolThread, PoolPlace
    <2>7. r.pc = "readpush" /\ r.cell = c /\ r.top = P!Nil /\ r.next = e
      BY <2>4, <2>5 DEF PoolThread
    <2>8. pTh' = [pTh EXCEPT ![t] = r]
      BY <1>1, <2>1
    <2> QED
      BY <2>2, <2>6, <2>7, <2>8
  <1>5. /\ pTh' \in [Thread -> PoolThread]
        /\ pTh'[t] = r /\ \A u \in Thread \ {t} : pTh'[u] = pTh[u]
    BY <1>4, PoolMoves
  <1>6. \A a \in Cell : (Owns(r, a) <=> a = c) /\ ~Owns(pTh[t], a)
    BY <1>4 DEF Owns, Brings
  <1>7. /\ \A u \in Thread : ~Owns(pTh[u], c)
        /\ \A u \in Thread : \A a \in spare' : ~Owns(pTh[u], a)
    BY <1>1 DEF PoolCells
  <1>8. PoolCells'
    <2>1. \A u \in Thread : Brings(pTh'[u]) => pTh'[u].cell \in Cell
      BY <1>3, <1>4, <1>5 DEF PoolCells
    <2>2. \A u \in Thread :
             pTh'[u].pc \in {"readnext", "pop", "shrink"}
                => pTh'[u].top[1] \in Cell
      BY <1>4, <1>5 DEF PoolCells
    <2>3. \A u \in Thread : \A a \in spare' : ~Owns(pTh'[u], a)
      BY <1>1, <1>3, <1>5, <1>6, <1>7
    <2>4. \A u, w \in Thread : \A a \in Cell :
             Owns(pTh'[u], a) /\ Owns(pTh'[w], a) => u = w
      BY <1>5, <1>6, <1>7 DEF PoolCells
    <2> QED
      BY <2>1, <2>2, <2>3, <2>4 DEF PoolCells
  <1>9. PoolNumbers'
    <2>1. /\ top[2] <= pushes' /\ \A a \in Cell : pNext[a][2] <= pushes'
          /\ \A u \in Thread : pTh[u].top[2] <= pushes'
                /\ pTh[u].next[2] <= pushes'
      <3>1. /\ top[2] \in Nat /\ \A a \in Cell : pNext[a][2] \in Nat
            /\ \A u \in Thread : pTh[u].top[2] \in Nat
                  /\ pTh[u].next[2] \in Nat
        BY DEF PoolTypes, PoolThread, Entry
      <3> QED
        BY <1>2, <3>1 DEF PoolNumbers
    <2>2. r.top[2] <= pushes' /\ r.next[2] <= pushes'
      BY <1>2, <1>4 DEF P!Nil
    <2> QED
      BY <1>5, <2>1, <2>2 DEF PoolNumbers
  <1>10. OnStack' = OnStack
    <2>1. ASSUME NEW a \in Cell
          PROVE  a \in OnStack' <=> a \in OnStack
      <3>1. CASE a = c
        BY <1>1, <1>5, <1>6, <3>1 DEF OnStack
      <3>2. CASE a # c
        <4>1. \A u \in Thread : Owns(pTh'[u], a) <=> Owns(pTh[u], a)
          BY <1>5, <1>6, <3>2
        <4> QED
          BY <1>1, <3>2, <4>1 DEF OnStack
      <3> QED
        BY <3>1, <3>2
    <2>2. OnStack \subseteq Cell /\ OnStack' \subseteq Cell
      BY DEF OnStack
    <2> QED
      BY <2>1, <2>2
  <1>11. PoolStack' /\ Standing' = Standing
    BY <1>10, PoolStackStays
  <1>12. PoolReads'
    <2>1. \A u \in Thread : Brings(pTh'[u]) => pTh'[u].next[1] = pTh'[u].cell
      BY <1>4, <1>5 DEF PoolReads
    <2>2. \A u \in Thread :
             pTh'[u].pc = "push" => pNext[pTh'[u].cell] = pTh'[u].top
      BY <1>4, <1>5 DEF PoolReads
    <2>3. \A u \in Thread :
             pTh'[u].pc = "pop" /\ pTh'[u].top \in Standing
                => pTh'[u].next = pNext[pTh'[u].top[1]]
      BY <1>4, <1>5 DEF PoolReads
    <2>4. ASSUME NEW u \in Thread, NEW w \in Thread,
                 pTh'[u].pc \in {"readnext", "pop"}, Brings(pTh'[w])
          PROVE  pTh'[u].top # pTh'[w].next
      <3>1. u # t /\ pTh'[u] = pTh[u]
        BY <1>4, <1>5, <2>4
      <3>2. CASE w = t
        <4>1. pTh'[w].next[2] = pushes + 1
          BY <1>2, <1>4, <1>5, <3>2
        <4>2. pTh[u].top[2] <= pushes /\ pTh[u].top[2] \in Nat
          BY DEF PoolNumbers, PoolTypes, PoolThread, Entry
        <4>3. pTh[u].top[2] # pTh'[w].next[2]
          BY <1>2, <4>1, <4>2
        <4> QED
          BY <3>1, <4>3
      <3>3. CASE w # t
        BY <1>5, <2>4, <3>1, <3>3 DEF PoolReads
      <3> QED
        BY <3>2, <3>3
    <2> QED
      BY <1>11, <2>1, <2>2, <2>3, <2>4 DEF PoolReads
  <1>13. list' \in [Cell -> 0 .. NODECOUNT]
    BY <1>1, PoolFacts DEF PoolTypes
  <1>14. \A a \in Cell \ spare' : list'[a] = NODECOUNT
    BY <1>1, <1>3 DEF PoolLists, PoolTypes
  <1>15. /\ Cardinality(Cell \ spare) \in Nat
         /\ Cardinality(Cell \ spare') = Cardinality(Cell \ spare) + 1
    <2>1. Cell \ spare' = (Cell \ spare) \cup {c} /\ c \notin Cell \ spare
      BY <1>1, <1>3
    <2>2. IsFiniteSet(Cell \ spare)
      BY PoolFacts, FS_Difference
    <2> QED
      BY <2>1, <2>2, FS_AddElement, FS_CardinalityType
  <1>16. r.pc = "readpush"
    BY <1>4
  <1> QED
    BY <1>2, <1>3, <1>5, <1>8, <1>9, <1>11, <1>12, <1>13, <1>14, <1>15, <1>16

(* The cell of a thread goes on top of the stack. *)
LEMMA PoolPush ==
    ASSUME PoolInv, NEW t \in Thread, pTh[t].pc = "push", top = pTh[t].top,
           top' = pTh[t].next, NEW r \in PoolThread, r.pc = "grow",
           r.top = pTh[t].top, r.next = pTh[t].next,
           pTh' = [pTh EXCEPT ![t] = r], UNCHANGED <<spare, pushes, pNext>>
    PROVE  PoolCells' /\ PoolNumbers' /\ PoolStack' /\ PoolReads'
  <1> USE DEF PoolInv
  <1>1. PICK c \in Cell : c = pTh[t].cell
    BY DEF PoolCells, Brings
  <1>2. /\ pTh'[t] = r /\ \A u \in Thread \ {t} : pTh'[u] = pTh[u]
    BY PoolMoves
  <1>3. /\ \A a \in Cell : (Owns(pTh[t], a) <=> a = c) /\ ~Owns(r, a)
        /\ Brings(pTh[t]) /\ ~Brings(r)
    BY <1>1 DEF Owns, Brings
  <1>4. /\ c \notin spare
        /\ \A u \in Thread \ {t} : ~Owns(pTh[u], c)
    BY <1>3 DEF PoolCells
  <1>5. /\ top'[1] = c /\ pNext[c] = top /\ c # Null
    <2>1. pTh[t].next[1] = c
      BY <1>1, <1>3 DEF PoolReads
    <2>2. pNext[c] = top
      BY <1>1 DEF PoolReads
    <2> QED
      BY <1>1, <2>1, <2>2, PoolFacts
  <1>6. PoolCells'
    <2>1. \A u \in Thread : Brings(pTh'[u]) => pTh'[u].cell \in Cell
      BY <1>2, <1>3 DEF PoolCells
    <2>2. \A u \in Thread :
             pTh'[u].pc \in {"readnext", "pop", "shrink"}
                => pTh'[u].top[1] \in Cell
      BY <1>2 DEF PoolCells
    <2>3. \A u \in Thread : \A a \in spare : ~Owns(pTh'[u], a)
      BY <1>2, <1>3 DEF PoolCells, PoolTypes
    <2>4. \A u, w \in Thread : \A a \in Cell :
             Owns(pTh'[u], a) /\ Owns(pTh'[w], a) => u = w
      BY <1>2, <1>3 DEF PoolCells
    <2> QED
      BY <2>1, <2>2, <2>3, <2>4 DEF PoolCells
  <1>7. PoolNumbers'
    BY <1>2 DEF PoolNumbers
  <1>8. OnStack' = OnStack \cup {c} /\ c \notin OnStack
    <2>1. ASSUME NEW a \in Cell
          PROVE  a \in OnStack' <=> a \in OnStack \/ a = c
      <3>1. CASE a = c
        BY <1>2, <1>3, <1>4, <3>1 DEF OnStack
      <3>2. CASE a # c
        <4>1. \A u \in Thread : Owns(pTh'[u], a) <=> Owns(pTh[u], a)
          BY <1>2, <1>3, <3>2
        <4> QED
          BY <3>2, <4>1 DEF OnStack
      <3> QED
        BY <3>1, <3>2
    <2>2. OnStack \subseteq Cell /\ OnStack' \subseteq Cell
      BY DEF OnStack
    <2>3. c \notin OnStack
      BY <1>3 DEF OnStack
    <2> QED
      BY <2>1, <2>2, <2>3
  <1>9. PoolStack'
    <2>1. PICK n \in Nat : \E s \in [1 .. n -> OnStack] : Listed(n, s)
      BY DEF PoolStack
    <2>2. PICK s \in [1 .. n -> OnStack] : Listed(n, s)
      BY <2>1
    <2>3. PICK z \in [1 .. n + 1 -> OnStack'] :
               z[1] = c /\ \A i \in 1 .. n : z[i + 1] = s[i]
      <3>1. PICK z : z = [i \in 1 .. n + 1 |-> IF i = 1 THEN c ELSE s[i - 1]]
        OBVIOUS
      <3>2. ASSUME NEW i \in 1 .. n + 1
            PROVE  z[i] \in OnStack'
        <4>1. i # 1 => i - 1 \in 1 .. n
          OBVIOUS
        <4> QED
          BY <1>8, <3>1, <4>1
      <3>3. z[1] = c
        BY <3>1
      <3>4. ASSUME NEW i \in 1 .. n
            PROVE  z[i + 1] = s[i]
        <4>1. i + 1 \in 1 .. n + 1 /\ i + 1 # 1 /\ (i + 1) - 1 = i
          OBVIOUS
        <4> QED
          BY <3>1, <4>1
      <3> QED
        BY <3>1, <3>2, <3>3, <3>4
    <2>4. ASSUME NEW j \in 1 .. n + 1
          PROVE  j = 1 \/ (j - 1 \in 1 .. n /\ z[j] = s[j - 1])
      <3>1. j = 1 \/ (j - 1 \in 1 .. n /\ (j - 1) + 1 = j)
        OBVIOUS
      <3> QED
        BY <2>3, <3>1
    <2>5. \A i, j \in 1 .. n + 1 : z[i] = z[j] => i = j
      <3>1. \A i \in 1 .. n : s[i] # c
        BY <1>8
      <3>2. \A i, j \in 1 .. n : s[i] = s[j] => i = j
        BY <2>2 DEF Listed
      <3> TAKE i, j \in 1 .. n + 1
      <3> HAVE z[i] = z[j]
      <3>3. CASE i = 1
        BY <2>3, <2>4, <3>1, <3>3
      <3>4. CASE j = 1
        BY <2>3, <2>4, <3>1, <3>4
      <3>5. CASE i # 1 /\ j # 1
        <4>1. i - 1 = j - 1
          BY <2>4, <3>2, <3>5
        <4> QED
          BY <4>1
      <3> QED
        BY <3>3, <3>4, <3>5
    <2>6. \A a \in OnStack' : \E i \in 1 .. n + 1 : z[i] = a
      <3> TAKE a \in OnStack'
      <3>1. CASE a = c
        <4>1. 1 \in 1 .. n + 1
          OBVIOUS
        <4> QED
          BY <2>3, <3>1, <4>1
      <3>2. CASE a # c
        <4>1. PICK i \in 1 .. n : s[i] = a
          BY <1>8, <2>2, <3>2 DEF Listed
        <4>2. i + 1 \in 1 .. n + 1 /\ z[i + 1] = a
          BY <2>3, <4>1
        <4> QED
          BY <4>2
      <3> QED
        BY <3>1, <3>2
    <2>7. \A i \in 1 .. n + 1 : i # n + 1 => pNext[z[i]][1] = z[i + 1]
      <3> TAKE i \in 1 .. n + 1
      <3> HAVE i # n + 1
      <3>1. CASE i = 1
        <4>1. n # 0 /\ 1 \in 1 .. n
          BY <3>1
        <4>2. z[i + 1] = s[1] /\ top[1] = s[1]
          BY <2>2, <2>3, <3>1, <4>1 DEF Listed
        <4> QED
          BY <1>5, <2>3, <3>1, <4>2
      <3>2. CASE i # 1
        <4>1. PICK j \in 1 .. n : j = i - 1 /\ j # n /\ j + 1 = i
          BY <3>2
        <4>2. i \in 1 .. n
          OBVIOUS
        <4>3. z[i] = s[j] /\ z[i + 1] = s[i]
          BY <2>3, <4>1, <4>2
        <4>4. pNext[s[j]][1] = s[j + 1]
          BY <2>2, <4>1 DEF Listed
        <4> QED
          BY <4>1, <4>3, <4>4
      <3> QED
        BY <3>1, <3>2
    <2>8. pNext[z[n + 1]][1] = Null
      <3>1. CASE n = 0
        <4>1. z[n + 1] = c
          BY <2>3, <3>1
        <4> QED
          BY <1>5, <2>2, <3>1, <4>1 DEF Listed
      <3>2. CASE n # 0
        <4>1. n \in 1 .. n
          BY <3>2
        <4> QED
          BY <2>2, <2>3, <3>2, <4>1 DEF Listed
      <3> QED
        BY <3>1, <3>2
    <2>9. PICK m \in Nat : m = n + 1 /\ m # 0
      OBVIOUS
    <2>10. z \in [1 .. m -> OnStack'] /\ Listed(m, z)'
      BY <1>5, <2>3, <2>5, <2>6, <2>7, <2>8, <2>9 DEF Listed
    <2> QED
      BY <2>9, <2>10 DEF PoolStack
  <1>10. Standing' = Standing \cup {pTh[t].next}
    BY <1>5, <1>8 DEF Standing
  <1>11. PoolReads'
    <2>1. \A u \in Thread : Brings(pTh'[u]) => pTh'[u].next[1] = pTh'[u].cell
      BY <1>2, <1>3 DEF PoolReads
    <2>2. \A u \in Thread :
             pTh'[u].pc = "push" => pNext[pTh'[u].cell] = pTh'[u].top
      BY <1>2 DEF PoolReads
    <2>3. ASSUME NEW u \in Thread, pTh'[u].pc = "pop",
                 pTh'[u].top \in Standing'
          PROVE  pTh'[u].next = pNext[pTh'[u].top[1]]
      <3>1. u # t /\ pTh'[u] = pTh[u]
        BY <1>2, <2>3
      <3>2. pTh[u].top # pTh[t].next
        BY <1>3, <2>3, <3>1 DEF PoolReads
      <3> QED
        BY <1>10, <2>3, <3>1, <3>2 DEF PoolReads
    <2>4. ASSUME NEW u \in Thread, NEW w \in Thread,
                 pTh'[u].pc \in {"readnext", "pop"}, Brings(pTh'[w])
          PROVE  pTh'[u].top # pTh'[w].next
      BY <1>2, <1>3, <2>4 DEF PoolReads
    <2> QED
      BY <2>1, <2>2, <2>3, <2>4 DEF PoolReads
  <1> QED
    BY <1>6, <1>7, <1>9, <1>11

(* A thread takes the cell that is on top of the stack. *)
LEMMA PoolPop ==
    ASSUME PoolInv, NEW t \in Thread, pTh[t].pc = "pop", top = pTh[t].top,
           top' = pTh[t].next, NEW r \in PoolThread, r.pc = "shrink",
           r.top = pTh[t].top, r.next = pTh[t].next,
           pTh' = [pTh EXCEPT ![t] = r], UNCHANGED <<spare, pushes, pNext>>
    PROVE  PoolCells' /\ PoolNumbers' /\ PoolStack' /\ PoolReads'
  <1> USE DEF PoolInv
  <1>1. PICK c \in Cell : c = top[1]
    BY DEF PoolCells
  <1>2. /\ pTh'[t] = r /\ \A u \in Thread \ {t} : pTh'[u] = pTh[u]
    BY PoolMoves
  <1>3. /\ \A a \in Cell : (Owns(r, a) <=> a = c) /\ ~Owns(pTh[t], a)
        /\ ~Brings(pTh[t]) /\ ~Brings(r)
    BY <1>1 DEF Owns, Brings
  <1>4. PICK n \in Nat : \E s \in [1 .. n -> OnStack] : Listed(n, s)
    BY DEF PoolStack
  <1>5. PICK s \in [1 .. n -> OnStack] : Listed(n, s)
    BY <1>4
  <1>6. n # 0 /\ c = s[1] /\ 1 \in 1 .. n
    <2>1. n # 0 /\ c = s[1]
      BY <1>1, <1>5, PoolFacts DEF Listed
    <2> QED
      BY <2>1
  <1>7. c \in OnStack
    BY <1>6
  <1>8. c \notin spare /\ \A u \in Thread : ~Owns(pTh[u], c)
    BY <1>7 DEF OnStack
  <1>9. top' = pNext[c]
    BY <1>1, StandingOn DEF PoolReads
  <1>10. PoolCells'
    <2>1. \A u \in Thread : Brings(pTh'[u]) => pTh'[u].cell \in Cell
      BY <1>2, <1>3 DEF PoolCells
    <2>2. \A u \in Thread :
             pTh'[u].pc \in {"readnext", "pop", "shrink"}
                => pTh'[u].top[1] \in Cell
      BY <1>1, <1>2 DEF PoolCells
    <2>3. \A u \in Thread : \A a \in spare : ~Owns(pTh'[u], a)
      BY <1>2, <1>3, <1>8 DEF PoolCells, PoolTypes
    <2>4. \A u, w \in Thread : \A a \in Cell :
             Owns(pTh'[u], a) /\ Owns(pTh'[w], a) => u = w
      BY <1>2, <1>3, <1>8 DEF PoolCells
    <2> QED
      BY <2>1, <2>2, <2>3, <2>4 DEF PoolCells
  <1>11. PoolNumbers'
    BY <1>2 DEF PoolNumbers
  <1>12. OnStack' = OnStack \ {c}
    <2>1. ASSUME NEW a \in Cell
          PROVE  a \in OnStack' <=> a \in OnStack /\ a # c
      <3>1. CASE a = c
        BY <1>2, <1>3, <3>1 DEF OnStack
      <3>2. CASE a # c
        <4>1. \A u \in Thread : Owns(pTh'[u], a) <=> Owns(pTh[u], a)
          BY <1>2, <1>3, <3>2
        <4> QED
          BY <3>2, <4>1 DEF OnStack
      <3> QED
        BY <3>1, <3>2
    <2>2. OnStack \subseteq Cell /\ OnStack' \subseteq Cell
      BY DEF OnStack
    <2> QED
      BY <2>1, <2>2
  <1>13. PoolStack'
    <2>1. PICK m \in Nat : m = n - 1 /\ n = m + 1
      BY <1>6
    <2>2. /\ \A i, j \in 1 .. n : s[i] = s[j] => i = j
          /\ \A a \in OnStack : \E i \in 1 .. n : s[i] = a
          /\ \A i \in 1 .. n : i # n => pNext[s[i]][1] = s[i + 1]
          /\ pNext[s[n]][1] = Null
      BY <1>5, <1>6 DEF Listed
    <2>3. \A i \in 1 .. m : i + 1 \in 1 .. n /\ i + 1 # 1
      BY <2>1
    <2>4. PICK z : z = [i \in 1 .. m |-> s[i + 1]]
      OBVIOUS
    <2>5. \A i \in 1 .. m : z[i] = s[i + 1] /\ z[i] \in OnStack'
      <3> TAKE i \in 1 .. m
      <3>1. s[i + 1] # s[1] /\ s[i + 1] \in OnStack
        BY <1>6, <2>2, <2>3
      <3> QED
        BY <1>6, <1>12, <2>4, <3>1
    <2>6. \A i, j \in 1 .. m : z[i] = z[j] => i = j
      <3> TAKE i, j \in 1 .. m
      <3> HAVE z[i] = z[j]
      <3>1. PICK k \in 1 .. n, l \in 1 .. n : k = i + 1 /\ l = j + 1
        BY <2>3
      <3>2. k = l
        BY <2>2, <2>5, <3>1
      <3> QED
        BY <3>1, <3>2
    <2>7. \A a \in OnStack' : \E i \in 1 .. m : z[i] = a
      <3> TAKE a \in OnStack'
      <3>1. PICK i \in 1 .. n : s[i] = a
        BY <1>12, <2>2
      <3>2. i # 1
        BY <1>6, <1>12, <3>1
      <3>3. PICK j \in 1 .. m : j + 1 = i
        <4>1. i - 1 \in 1 .. m /\ (i - 1) + 1 = i
          BY <2>1, <3>2
        <4> QED
          BY <4>1
      <3> QED
        BY <2>5, <3>1, <3>3
    <2>8. \A i \in 1 .. m : i # m => pNext[z[i]][1] = z[i + 1]
      <3> TAKE i \in 1 .. m
      <3> HAVE i # m
      <3>1. i + 1 \in 1 .. m /\ i + 1 \in 1 .. n /\ i + 1 # n
        BY <2>1
      <3>2. z[i] = s[i + 1] /\ z[i + 1] = s[(i + 1) + 1]
        BY <2>5, <3>1
      <3>3. pNext[s[i + 1]][1] = s[(i + 1) + 1]
        BY <2>2, <3>1
      <3> QED
        BY <3>2, <3>3
    <2>9. m # 0 => pNext[z[m]][1] = Null /\ top'[1] = z[1]
      <3> HAVE m # 0
      <3>1. m \in 1 .. m /\ 1 \in 1 .. m /\ 1 \in 1 .. n /\ 1 # n /\ 1 + 1 = 2
        BY <2>1
      <3>2. z[m] = s[n] /\ z[1] = s[1 + 1]
        BY <2>1, <2>5, <3>1
      <3>3. pNext[s[1]][1] = s[1 + 1]
        BY <2>2, <3>1
      <3> QED
        BY <1>6, <1>9, <2>2, <3>2, <3>3
    <2>10. m = 0 => top'[1] = Null
      BY <1>6, <1>9, <2>1, <2>2
    <2>11. Listed(m, z)'
      BY <2>6, <2>7, <2>8, <2>9, <2>10 DEF Listed
    <2>12. z \in [1 .. m -> OnStack']
      BY <2>4, <2>5
    <2> QED
      BY <2>11, <2>12 DEF PoolStack
  <1>14. Standing' \subseteq Standing
    BY <1>7, <1>9, <1>12 DEF Standing
  <1>15. PoolReads'
    <2>1. \A u \in Thread : Brings(pTh'[u]) => pTh'[u].next[1] = pTh'[u].cell
      BY <1>2, <1>3 DEF PoolReads
    <2>2. \A u \in Thread :
             pTh'[u].pc = "push" => pNext[pTh'[u].cell] = pTh'[u].top
      BY <1>2 DEF PoolReads
    <2>3. \A u \in Thread :
             pTh'[u].pc = "pop" /\ pTh'[u].top \in Standing'
                => pTh'[u].next = pNext[pTh'[u].top[1]]
      BY <1>2, <1>14 DEF PoolReads
    <2>4. \A u, w \in Thread :
             pTh'[u].pc \in {"readnext", "pop"} /\ Brings(pTh'[w])
                => pTh'[u].top # pTh'[w].next
      BY <1>2, <1>3 DEF PoolReads
    <2> QED
      BY <2>1, <2>2, <2>3, <2>4 DEF PoolReads
  <1> QED
    BY <1>10, <1>11, <1>13, <1>15

(* The cell of a thread that has taken its list is spare again. *)
LEMMA PoolSpare ==
    ASSUME PoolInv, NEW t \in Thread, pTh[t].pc = "shrink",
           NEW c, c = pTh[t].top[1], spare' = spare \cup {c},
           pTh' = [pTh EXCEPT ![t] = P!Idle], UNCHANGED <<top, pushes, pNext>>
    PROVE  /\ PoolCells' /\ PoolNumbers' /\ PoolStack' /\ PoolReads'
           /\ spare' \in SUBSET Cell /\ c \in Cell /\ c \notin spare
           /\ Cardinality(Cell \ spare) \in Nat
           /\ Cardinality(Cell \ spare)' = Cardinality(Cell \ spare) - 1
  <1> USE DEF PoolInv
  <1>1. c \in Cell /\ spare \in SUBSET Cell /\ spare' \in SUBSET Cell
    BY DEF PoolCells, PoolTypes
  <1>2. PICK r \in PoolThread :
           r = P!Idle /\ r.pc = "idle" /\ r.top = P!Nil /\ r.next = P!Nil
    BY IdleThread
  <1>3. /\ pTh'[t] = r /\ \A u \in Thread \ {t} : pTh'[u] = pTh[u]
    BY <1>2, PoolMoves
  <1>4. /\ \A a \in Cell : (Owns(pTh[t], a) <=> a = c) /\ ~Owns(r, a)
        /\ ~Brings(r)
    BY <1>2 DEF Owns, Brings
  <1>5. c \notin spare /\ \A u \in Thread \ {t} : ~Owns(pTh[u], c)
    BY <1>1, <1>4 DEF PoolCells
  <1>6. PoolCells'
    <2>1. \A u \in Thread : Brings(pTh'[u]) => pTh'[u].cell \in Cell
      BY <1>3, <1>4 DEF PoolCells
    <2>2. \A u \in Thread :
             pTh'[u].pc \in {"readnext", "pop", "shrink"}
                => pTh'[u].top[1] \in Cell
      BY <1>2, <1>3 DEF PoolCells
    <2>3. \A u \in Thread : \A a \in spare' : ~Owns(pTh'[u], a)
      BY <1>1, <1>3, <1>4, <1>5 DEF PoolCells
    <2>4. \A u, w \in Thread : \A a \in Cell :
             Owns(pTh'[u], a) /\ Owns(pTh'[w], a) => u = w
      BY <1>3, <1>4 DEF PoolCells
    <2> QED
      BY <2>1, <2>2, <2>3, <2>4 DEF PoolCells
  <1>7. PoolNumbers'
    <2>1. r.top[2] <= pushes /\ r.next[2] <= pushes
      BY <1>2 DEF P!Nil, PoolTypes
    <2> QED
      BY <1>3, <2>1 DEF PoolNumbers
  <1>8. OnStack' = OnStack
    <2>1. ASSUME NEW a \in Cell
          PROVE  a \in OnStack' <=> a \in OnStack
      <3>1. CASE a = c
        BY <1>4, <3>1 DEF OnStack
      <3>2. CASE a # c
        <4>1. \A u \in Thread : Owns(pTh'[u], a) <=> Owns(pTh[u], a)
          BY <1>3, <1>4, <3>2
        <4> QED
          BY <3>2, <4>1 DEF OnStack
      <3> QED
        BY <3>1, <3>2
    <2>2. OnStack \subseteq Cell /\ OnStack' \subseteq Cell
      BY DEF OnStack
    <2> QED
      BY <2>1, <2>2
  <1>9. PoolStack' /\ Standing' = Standing
    BY <1>8, PoolStackStays
  <1>10. PoolReads'
    <2>1. \A u \in Thread : Brings(pTh'[u]) => pTh'[u].next[1] = pTh'[u].cell
      BY <1>3, <1>4 DEF PoolReads
    <2>2. \A u \in Thread :
             pTh'[u].pc = "push" => pNext[pTh'[u].cell] = pTh'[u].top
      BY <1>2, <1>3 DEF PoolReads
    <2>3. \A u \in Thread :
             pTh'[u].pc = "pop" /\ pTh'[u].top \in Standing
                => pTh'[u].next = pNext[pTh'[u].top[1]]
      BY <1>2, <1>3 DEF PoolReads
    <2>4. \A u, w \in Thread :
             pTh'[u].pc \in {"readnext", "pop"} /\ Brings(pTh'[w])
                => pTh'[u].top # pTh'[w].next
      BY <1>2, <1>3, <1>4 DEF PoolReads
    <2> QED
      BY <1>9, <2>1, <2>2, <2>3, <2>4 DEF PoolReads
  <1>11. /\ Cardinality(Cell \ spare) \in Nat
         /\ Cardinality(Cell \ spare') = Cardinality(Cell \ spare) - 1
    <2>1. PICK S, rest : S = Cell \ spare /\ rest = Cell \ spare'
      OBVIOUS
    <2>2. rest = S \ {c} /\ c \in S
      BY <1>1, <1>5, <2>1
    <2>3. IsFiniteSet(S)
      BY <2>1, PoolFacts, FS_Difference
    <2>4. Cardinality(S) \in Nat /\ Cardinality(rest) = Cardinality(S) - 1
      BY <2>2, <2>3, FS_RemoveElement, FS_CardinalityType
    <2> QED
      BY <2>1, <2>4
  <1> QED
    BY <1>1, <1>5, <1>6, <1>7, <1>9, <1>10, <1>11

(* A thread goes on, by one or two fields of its own. *)
Goes(t, p, a, b) ==
    /\ p \in PoolPlace /\ a \in Entry /\ b \in Entry
    /\ \/ pTh' = [pTh EXCEPT ![t].pc = p] /\ a = pTh[t].top /\ b = pTh[t].next
       \/ pTh' = [pTh EXCEPT ![t].top = a, ![t].pc = p] /\ b = pTh[t].next
       \/ pTh' = [pTh EXCEPT ![t].next = b, ![t].pc = p] /\ a = pTh[t].top

LEMMA PoolGoto ==
    ASSUME PoolTypes, NEW t \in Thread, NEW p, NEW a, NEW b, Goes(t, p, a, b)
    PROVE  \E r \in PoolThread :
              /\ pTh' = [pTh EXCEPT ![t] = r] /\ r.pc = p
              /\ r.cell = pTh[t].cell /\ r.top = a /\ r.next = b
  <1> USE DEF Goes
  <1>1. pTh \in [Thread -> PoolThread]
    BY DEF PoolTypes
  <1>2. pTh' \in [Thread -> PoolThread]
    BY <1>1 DEF PoolThread
  <1>3. /\ \A u \in Thread \ {t} : pTh'[u] = pTh[u]
        /\ pTh'[t].pc = p /\ pTh'[t].cell = pTh[t].cell
        /\ pTh'[t].top = a /\ pTh'[t].next = b
    BY <1>1 DEF PoolThread
  <1>4. PICK r \in PoolThread : r = pTh'[t]
    BY <1>2
  <1>5. pTh' = [pTh EXCEPT ![t] = r]
    BY <1>1, <1>2, <1>3, <1>4
  <1> QED
    BY <1>3, <1>4, <1>5

(* Alloc takes one object of the list, Delete puts one back.                *)
LEMMA TakeOne ==
    ASSUME NEW l \in PoolLocal, l.msize # 0, l.top # 0
    PROVE  /\ P!Take(l) \in PoolLocal /\ P!Take(l).msize = l.msize - 1
           /\ P!Take(l).top = l.top - 1 /\ P!Take(l).freeTop = l.freeTop
  <1>1. PICK m \in 0 .. NODECOUNT : m = l.msize - 1
    BY PoolFacts DEF PoolLocal
  <1>2. PICK n \in 0 .. NODECOUNT : n = l.top - 1
    BY PoolFacts DEF PoolLocal
  <1>3. P!Take(l) = [l EXCEPT !.msize = m, !.top = n]
    BY <1>1, <1>2 DEF P!Take
  <1>4. PICK k : k = [l EXCEPT !.msize = m, !.top = n]
    OBVIOUS
  <1>5. k \in PoolLocal
    BY <1>4 DEF PoolLocal
  <1>6. k.msize = m /\ k.top = n /\ k.freeTop = l.freeTop
    BY <1>4 DEF PoolLocal
  <1> QED
    BY <1>1, <1>2, <1>3, <1>4, <1>5, <1>6

LEMMA KeepOne ==
    ASSUME PoolTypes, PoolLists, NEW t \in Thread, ~P!Full(t)
    PROVE  \E l \in PoolLocal :
              /\ P!Keep(t) = [local EXCEPT ![t] = l]
              /\ l.msize = local[t].msize + 1 /\ l.top = local[t].top + 1
              /\ l.freeTop = local[t].freeTop
  <1>1. local \in [Thread -> PoolLocal] /\ local[t].msize = local[t].top
        /\ local[t].msize < NODECOUNT
    BY PoolFacts DEF PoolTypes, PoolLists, P!Full, PoolLocal
  <1>2. PICK f : f = P!Keep(t)
    OBVIOUS
  <1>3. f \in [Thread -> PoolLocal]
    BY <1>1, <1>2, PoolFacts DEF P!Keep, PoolLocal
  <1>4. /\ \A u \in Thread \ {t} : f[u] = local[u]
        /\ f[t].msize = local[t].msize + 1 /\ f[t].top = local[t].top + 1
        /\ f[t].freeTop = local[t].freeTop
    BY <1>1, <1>2 DEF P!Keep, PoolLocal
  <1>5. PICK l \in PoolLocal : l = f[t]
    BY <1>3
  <1>6. f = [local EXCEPT ![t] = l]
    BY <1>1, <1>3, <1>4, <1>5
  <1> QED
    BY <1>2, <1>4, <1>5, <1>6

(* The arithmetic of PoolSum.                                               *)
LEMMA Balance ==
    \A a, b, h, g, i, j, x, y, p, q, e \in Int :
        a = h + i + x /\ b = a + (g - h) + q - p + e
          /\ j = i - p + q /\ y = x + e
            => b = g + j + y /\ (g >= 0 /\ j >= 0 /\ y >= 0 => b \in Nat)
  OBVIOUS

LEMMA Products ==
    \A n, k \in Nat : /\ n * k \in Nat /\ n * (k + 1) = n * k + n
                      /\ n * (k - 1) = n * k - n
  OBVIOUS

(* Only where a thread is changes, and the links of the stack. *)
LEMMA PoolMoved ==
    ASSUME PoolInv, NEW t \in Thread, NEW r \in PoolThread,
           pTh' = [pTh EXCEPT ![t] = r],
           UNCHANGED <<made, held, local, list, spare, pushes>>,
           top' \in Entry, pNext' \in [Cell -> Entry], msize' \in Int,
           Looking(r) => \/ Looking(pTh[t])
                         \/ local[t].top = 0 /\ local[t].freeTop = 0
    PROVE  PoolTypes' /\ PoolLists' /\ PoolSum'
  <1>1. /\ pTh' \in [Thread -> PoolThread]
        /\ pTh'[t] = r /\ \A u \in Thread \ {t} : pTh'[u] = pTh[u]
    BY PoolMoves DEF PoolInv
  <1>2. PoolTypes'
    BY <1>1 DEF PoolInv, PoolTypes
  <1>3. PoolLists'
    BY <1>1 DEF PoolInv, PoolLists
  <1>4. PoolSum'
    BY DEF PoolInv, PoolSum, InPools
  <1> QED
    BY <1>2, <1>3, <1>4

(* Nothing moves on the stack or on its way. *)
LEMMA PoolWaits ==
    ASSUME PoolInv, UNCHANGED <<pTh, top, spare, pushes, pNext>>
    PROVE  PoolCells' /\ PoolNumbers' /\ PoolStack' /\ PoolReads'
  <1>1. OnStack' = OnStack
    BY DEF OnStack
  <1>2. PoolStack' /\ Standing' = Standing
    BY <1>1, PoolStackStays DEF PoolInv
  <1>3. PoolCells' /\ PoolNumbers'
    BY DEF PoolInv, PoolCells, PoolNumbers
  <1>4. PoolReads'
    BY <1>2 DEF PoolInv, PoolReads
  <1> QED
    BY <1>2, <1>3, <1>4

(* Objects move between the lists of a thread, d cells and what is held.   *)
Shares(t, l, d, e) ==
    /\ local' = [local EXCEPT ![t] = l] /\ l.msize = l.top
    /\ pTh' \in [Thread -> PoolThread] /\ ~Looking(pTh'[t])
    /\ \A u \in Thread \ {t} : pTh'[u] = pTh[u]
    /\ UNCHANGED <<top, pNext>> /\ list' \in [Cell -> 0 .. NODECOUNT]
    /\ spare' \in SUBSET Cell /\ \A c \in Cell \ spare' : list'[c] = NODECOUNT
    /\ msize' \in Int /\ pushes' \in 0 .. MaxPushes
    /\ held' \in Nat /\ made' <= MaxMade /\ made' \in Int
    /\ Cardinality(Cell \ spare)' = Cardinality(Cell \ spare) + d
    /\ \/ d = 0 /\ e = 0
       \/ d = 1 /\ e = NODECOUNT
       \/ d = -1 /\ e = 0 - NODECOUNT
    /\ made' = made + (held' - held) + (l.top + l.freeTop)
                  - (local[t].top + local[t].freeTop) + e

(* So the objects still add up.                                             *)
LEMMA PoolShares ==
    ASSUME PoolInv, NEW t \in Thread, NEW l \in PoolLocal,
           NEW d \in Int, NEW e \in Int, Shares(t, l, d, e)
    PROVE  PoolTypes' /\ PoolLists' /\ PoolSum'
  <1> USE DEF Shares
  <1>1. /\ local' \in [Thread -> PoolLocal]
        /\ local'[t] = l /\ \A u \in Thread \ {t} : local'[u] = local[u]
        /\ InPools(local) \in Nat
        /\ local[t].top \in Nat /\ local[t].freeTop \in Nat
        /\ InPools(local)' = InPools(local)
                               - (local[t].top + local[t].freeTop)
                               + (l.top + l.freeTop)
    BY PoolsMove DEF PoolInv
  <1>2. PICK c \in Nat, k \in Nat :
               c = Cardinality(Cell \ spare) /\ k = Cardinality(Cell \ spare)'
    <2>1. IsFiniteSet(Cell \ spare) /\ IsFiniteSet(Cell \ spare')
      BY PoolFacts, FS_Difference
    <2> QED
      BY <2>1, FS_CardinalityType
  <1>3. k = c + d
    BY <1>2
  <1>4. PICK n \in Nat : n = NODECOUNT
    BY PoolFacts
  <1>5. n * k = n * c + e /\ n * c \in Int /\ n * k \in Nat
    <2>1. \/ d = 0 /\ e = 0
          \/ d = 1 /\ e = n
          \/ d = -1 /\ e = 0 - n
      BY <1>4
    <2>2. CASE d = 0
      BY <1>3, <2>1, <2>2, Products
    <2>3. CASE d = 1
      BY <1>3, <2>1, <2>3, Products
    <2>4. CASE d = -1
      <3>1. k = c - 1 /\ e = 0 - n
        BY <1>3, <2>1, <2>4
      <3>2. n * (c - 1) = n * c - n /\ n * c \in Nat /\ n * k \in Nat
        BY Products
      <3> QED
        BY <3>1, <3>2
    <2> QED
      BY <2>1, <2>2, <2>3, <2>4
  <1>6. PICK i \in Nat, j \in Int :
               /\ i = InPools(local) /\ j = InPools(local)'
               /\ j = i - (local[t].top + local[t].freeTop)
                        + (l.top + l.freeTop)
    <2>1. l.top \in Nat /\ l.freeTop \in Nat
      BY PoolFacts DEF PoolLocal
    <2> QED
      BY <1>1, <2>1
  <1>7. l.top \in Nat /\ l.freeTop \in Nat
    BY PoolFacts DEF PoolLocal
  <1>8. made = held + i + n * c /\ made \in Nat /\ held \in Nat
    BY <1>2, <1>4, <1>6, PoolFacts DEF PoolInv, PoolSum, PoolTypes
  <1>9. made' = held' + j + n * k /\ (j \in Nat => made' \in Nat)
    <2>1. PICK x \in Int, y \in Nat : x = n * c /\ y = n * k /\ y = x + e
      BY <1>5
    <2>2. PICK p \in Nat, q \in Nat : /\ p = local[t].top + local[t].freeTop
                                     /\ q = l.top + l.freeTop
      BY <1>1, <1>7
    <2>3. PICK a \in Int, b \in Int, h \in Int, g \in Nat :
               a = made /\ b = made' /\ h = held /\ g = held'
      BY <1>8
    <2>4. a = h + i + x /\ j = i - p + q
      BY <1>6, <1>8, <2>1, <2>2, <2>3
    <2>5. b = a + (g - h) + q - p + e
      BY <2>2, <2>3
    <2>6. b = g + j + y /\ (g >= 0 /\ j >= 0 /\ y >= 0 => b \in Nat)
      BY <2>1, <2>4, <2>5, Balance
    <2>7. j \in Nat => b \in Nat
      BY <2>6
    <2> QED
      BY <2>1, <2>3, <2>6, <2>7
  <1>10. PoolSum'
    BY <1>2, <1>4, <1>6, <1>9 DEF PoolSum
  <1>11. made' \in 0 .. MaxMade
    <2>1. j \in Nat
      <3>1. PICK m : m = local'
        OBVIOUS
      <3>2. \A u \in Thread : m[u].top \in Nat /\ m[u].freeTop \in Nat
        BY <1>1, <3>1, PoolFacts DEF PoolLocal
      <3>3. InPools(m) \in Nat
        BY <3>2, PoolsNat
      <3>4. InPools(local)' = InPools(m)
        BY <3>1 DEF InPools
      <3> QED
        BY <1>6, <3>3, <3>4
    <2> QED
      BY <1>9, <2>1, PoolFacts
  <1>12. PoolTypes'
    BY <1>1, <1>11 DEF PoolInv, PoolTypes
  <1>13. PoolLists'
    BY <1>1 DEF PoolInv, PoolLists
  <1> QED
    BY <1>10, <1>12, <1>13

(* At first there is nothing in the pool.                                   *)
LEMMA PoolInit ==
    ASSUME P!Init
    PROVE  PoolInv
  <1> USE DEF P!Init
  <1>1. P!Nil \in Entry /\ P!Nil[1] = Null /\ P!Nil[2] = 0
    BY PoolFacts DEF Entry, P!Nil
  <1>2. PoolTypes
    <2>1. pTh \in [Thread -> PoolThread] /\ pNext \in [Cell -> Entry]
      BY <1>1, IdleThread
    <2>2. P!Empty \in PoolLocal
      BY PoolFacts DEF P!Empty, PoolLocal
    <2>3. local \in [Thread -> PoolLocal] /\ list \in [Cell -> 0 .. NODECOUNT]
      BY <2>2, PoolFacts
    <2> QED
      BY <1>1, <2>1, <2>3, PoolFacts DEF PoolTypes
  <1>3. \A t \in Thread : /\ pTh[t].pc = "idle" /\ pTh[t].top = P!Nil
                          /\ pTh[t].next = P!Nil
                          /\ local[t].msize = 0 /\ local[t].top = 0
                          /\ local[t].freeTop = 0
    BY IdleThread DEF P!Empty
  <1>4. PoolLists
    BY <1>3 DEF PoolLists, Looking
  <1>5. PoolCells /\ PoolNumbers
    BY <1>1, <1>3 DEF PoolCells, PoolNumbers, Owns, Brings
  <1>6. PoolStack
    <2>1. OnStack = {}
      BY DEF OnStack
    <2>2. PICK s \in [1 .. 0 -> OnStack] : TRUE
      <3>1. [i \in 1 .. 0 |-> Null] \in [1 .. 0 -> OnStack]
        OBVIOUS
      <3> QED
        BY <3>1
    <2>3. Listed(0, s)
      BY <1>1, <2>1 DEF Listed
    <2> QED
      BY <2>3 DEF PoolStack
  <1>7. PoolReads
    BY <1>3 DEF PoolReads, Brings
  <1>8. PoolSum
    <2>1. PICK f : Sums(f, Thread, PoolOf(local)) /\ InPools(local) = f[Thread]
      BY <1>3, InPoolsSum
    <2>2. \A t \in Thread : PoolOf(local)[t] = 0
      BY <1>3 DEF PoolOf
    <2>3. InPools(local) = 0
      BY <2>1, <2>2, PoolFacts, SumsZero
    <2>4. Cell \ spare = {} /\ Cardinality({}) = 0
      BY FS_EmptySet
    <2>5. Cardinality(Cell \ spare) = 0
      BY <2>4
    <2> QED
      BY <2>3, <2>5, PoolFacts DEF PoolSum
  <1> QED
    BY <1>2, <1>4, <1>5, <1>6, <1>7, <1>8 DEF PoolInv

(* What the state of one thread is made of.                                 *)
LEMMA PoolLocals ==
    ASSUME PoolInv, NEW t \in Thread
    PROVE  /\ local[t] \in PoolLocal /\ local[t].msize = local[t].top
           /\ local[t].top \in 0 .. NODECOUNT
           /\ local[t].freeTop \in {0, NODECOUNT}
           /\ held \in Nat /\ made \in 0 .. MaxMade
           /\ pTh[t].top \in Entry /\ pTh[t].next \in Entry
           /\ top \in Entry /\ pNext \in [Cell -> Entry]
           /\ msize \in Int
  BY DEF PoolInv, PoolTypes, PoolLists, PoolLocal, PoolThread

(* The operations of the pool and the steps of an exchange, one by one.     *)
LEMMA PoolDelete ==
    ASSUME PoolInv, NEW t \in Thread, P!Delete(t)
    PROVE  PoolInv'
  <1>1. /\ pTh[t].pc = "idle" /\ held - 1 \in Nat /\ held' = held - 1
        /\ UNCHANGED <<made, top, pNext, msize>>
    BY PoolLocals DEF P!Delete, P!At
  <1>2. CASE ~P!Full(t)
    <2>1. PICK l \in PoolLocal :
             /\ P!Keep(t) = [local EXCEPT ![t] = l]
             /\ l.msize = local[t].msize + 1 /\ l.top = local[t].top + 1
             /\ l.freeTop = local[t].freeTop
      BY <1>2, KeepOne DEF PoolInv
    <2>2. /\ local' = [local EXCEPT ![t] = l]
          /\ UNCHANGED <<list, pTh, spare, pushes>>
      BY <1>2, <2>1 DEF P!Delete
    <2>3. PoolCells' /\ PoolNumbers' /\ PoolStack' /\ PoolReads'
      BY <1>1, <2>2, PoolWaits
    <2>4. PoolTypes' /\ PoolLists' /\ PoolSum'
      <3>1. /\ list' \in [Cell -> 0 .. NODECOUNT] /\ spare' \in SUBSET Cell
            /\ \A c \in Cell \ spare' : list'[c] = NODECOUNT
            /\ pTh' \in [Thread -> PoolThread] /\ pushes' \in 0 .. MaxPushes
        BY <2>2 DEF PoolInv, PoolTypes, PoolLists
      <3>2. ~Looking(pTh'[t])
        BY <1>1, <2>2 DEF Looking
      <3>3. /\ Cardinality(Cell \ spare)' = Cardinality(Cell \ spare) + 0
            /\ l.msize = l.top
            /\ made' = made + (held' - held) + (l.top + l.freeTop)
                            - (local[t].top + local[t].freeTop) + 0
        <4>1. Cardinality(Cell \ spare) \in Nat
          BY PoolFacts, FS_Difference, FS_CardinalityType
        <4>2. /\ local[t].top \in Nat /\ local[t].freeTop \in Nat
              /\ made \in Nat /\ held \in Nat
          BY PoolLocals, PoolFacts
        <4> QED
          BY <1>1, <2>1, <2>2, <4>1, <4>2, PoolLocals
      <3>4. /\ made' <= MaxMade /\ made' \in Int /\ held' \in Nat
            /\ msize' \in Int
        BY <1>1, PoolLocals, PoolFacts
      <3> QED
        <4>1. Shares(t, l, 0, 0)
          BY <1>1, <2>1, <2>2, <3>1, <3>2, <3>3, <3>4 DEF Shares
        <4> QED
          BY <4>1, <2>3, PoolShares
    <2> QED
      BY <2>3, <2>4 DEF PoolInv
  <1>3. CASE P!Full(t)
    <2>1. local[t].top = NODECOUNT /\ local[t].msize = NODECOUNT
      BY <1>3, PoolLocals, PoolFacts DEF P!Full
    <2>2. PICK l : l = [msize |-> 1, top |-> 1, freeTop |-> local[t].top]
      OBVIOUS
    <2>3. l \in PoolLocal /\ l.msize = 1 /\ l.top = 1 /\ l.freeTop = NODECOUNT
      BY <2>1, <2>2, PoolFacts DEF PoolLocal
    <2>4. local' = [local EXCEPT ![t] = l]
      BY <1>3, <2>2 DEF P!Delete, P!SwapList
    <2>5. Cardinality(Cell \ spare) \in Nat
      BY PoolFacts, FS_Difference, FS_CardinalityType
    <2>6. made' <= MaxMade /\ made' \in Int /\ held' \in Nat /\ msize' \in Int
      BY <1>1, PoolLocals, PoolFacts
    <2>7. CASE local[t].freeTop = 0
      <3>1. UNCHANGED <<list, pTh, spare, pushes>>
        BY <1>3, <2>7 DEF P!Delete
      <3>2. PoolCells' /\ PoolNumbers' /\ PoolStack' /\ PoolReads'
        BY <1>1, <3>1, PoolWaits
      <3>3. /\ list' \in [Cell -> 0 .. NODECOUNT] /\ spare' \in SUBSET Cell
            /\ \A c \in Cell \ spare' : list'[c] = NODECOUNT
            /\ pTh' \in [Thread -> PoolThread] /\ pushes' \in 0 .. MaxPushes
        BY <3>1 DEF PoolInv, PoolTypes, PoolLists
      <3>4. ~Looking(pTh'[t])
        BY <1>1, <3>1 DEF Looking
      <3>5. Cardinality(Cell \ spare)' = Cardinality(Cell \ spare) + 0
        BY <2>5, <3>1
      <3>6. made' = made + (held' - held) + (l.top + l.freeTop)
                         - (local[t].top + local[t].freeTop) + 0
        <4>1. made \in Nat /\ held \in Nat /\ NODECOUNT \in Nat
          BY PoolLocals, PoolFacts
        <4> QED
          BY <1>1, <2>1, <2>3, <2>7, <4>1
      <3>7. PoolTypes' /\ PoolLists' /\ PoolSum'
        <4>1. Shares(t, l, 0, 0)
          BY <1>1, <2>3, <2>4, <2>6, <3>1, <3>3, <3>4, <3>5, <3>6 DEF Shares
        <4> QED
          BY <4>1, <2>3, PoolShares
      <3> QED
        BY <3>2, <3>7 DEF PoolInv
    <2>8. CASE local[t].freeTop # 0
      <3>1. local[t].freeTop = NODECOUNT
        BY <2>8, PoolLocals
      <3>2. P!StartPush(t)
        BY <1>3, <2>8 DEF P!Delete
      <3>3. /\ PoolCells' /\ PoolNumbers' /\ PoolStack' /\ PoolReads'
            /\ pTh' \in [Thread -> PoolThread]
            /\ list' \in [Cell -> 0 .. NODECOUNT]
            /\ pTh'[t].pc = "readpush"
            /\ \A u \in Thread \ {t} : pTh'[u] = pTh[u]
            /\ \A c \in Cell \ spare' : list'[c] = NODECOUNT
            /\ spare' \in SUBSET Cell /\ pushes' \in 0 .. MaxPushes
            /\ Cardinality(Cell \ spare)' = Cardinality(Cell \ spare) + 1
        BY <1>1, <3>1, <3>2, PoolStart
      <3>4. ~Looking(pTh'[t])
        BY <3>3 DEF Looking
      <3>5. made' = made + (held' - held) + (l.top + l.freeTop)
                         - (local[t].top + local[t].freeTop) + NODECOUNT
        <4>1. made \in Nat /\ held \in Nat /\ NODECOUNT \in Nat
          BY PoolLocals, PoolFacts
        <4> QED
          BY <1>1, <2>1, <2>3, <3>1, <4>1
      <3>6. PoolTypes' /\ PoolLists' /\ PoolSum'
        <4>1. NODECOUNT \in Int
          BY PoolFacts
        <4> QED
          <5>1. Shares(t, l, 1, NODECOUNT)
            BY <1>1, <2>3, <2>4, <2>6, <3>3, <3>4, <3>5, <4>1 DEF Shares
          <5> QED
            BY <5>1, <4>1, <2>3, PoolShares
      <3> QED
        BY <3>3, <3>6 DEF PoolInv
    <2> QED
      BY <2>7, <2>8
  <1> QED
    BY <1>2, <1>3

LEMMA PoolEndThread ==
    ASSUME PoolInv, NEW t \in Thread, P!EndThread(t)
    PROVE  PoolInv'
  <1>1. /\ pTh[t].pc = "idle" /\ made' = made - local[t].top
        /\ UNCHANGED <<held, top, pNext, msize>>
    BY DEF P!EndThread, P!At
  <1>2. PICK l : l = P!Empty
    OBVIOUS
  <1>3. l \in PoolLocal /\ l.msize = 0 /\ l.top = 0 /\ l.freeTop = 0
    BY <1>2, PoolFacts DEF P!Empty, PoolLocal
  <1>4. local' = [local EXCEPT ![t] = l]
    BY <1>2 DEF P!EndThread
  <1>5. Cardinality(Cell \ spare) \in Nat
    BY PoolFacts, FS_Difference, FS_CardinalityType
  <1>6. made' <= MaxMade /\ made' \in Int /\ held' \in Nat /\ msize' \in Int
    <2>1. /\ local[t].top \in Nat /\ made \in Nat /\ made <= MaxMade
          /\ MaxMade \in Nat
      BY PoolLocals, PoolFacts
    <2>2. made' \in Int /\ made' <= MaxMade
      BY <1>1, <2>1
    <2> QED
      BY <1>1, <2>2, PoolLocals
  <1>7. CASE local[t].freeTop = 0
    <2>1. UNCHANGED <<list, pTh, spare, pushes>>
      BY <1>7 DEF P!EndThread
    <2>2. PoolCells' /\ PoolNumbers' /\ PoolStack' /\ PoolReads'
      BY <1>1, <2>1, PoolWaits
    <2>3. /\ list' \in [Cell -> 0 .. NODECOUNT] /\ spare' \in SUBSET Cell
          /\ \A c \in Cell \ spare' : list'[c] = NODECOUNT
          /\ pTh' \in [Thread -> PoolThread] /\ pushes' \in 0 .. MaxPushes
      BY <2>1 DEF PoolInv, PoolTypes, PoolLists
    <2>4. ~Looking(pTh'[t])
      BY <1>1, <2>1 DEF Looking
    <2>5. Cardinality(Cell \ spare)' = Cardinality(Cell \ spare) + 0
      BY <1>5, <2>1
    <2>6. made' = made + (held' - held) + (l.top + l.freeTop)
                       - (local[t].top + local[t].freeTop) + 0
      <3>1. /\ made \in Nat /\ held \in Nat /\ held' = held
            /\ local[t].top \in Nat
        BY <1>1, PoolLocals, PoolFacts
      <3> QED
        BY <1>1, <1>3, <1>7, <3>1
    <2>7. PoolTypes' /\ PoolLists' /\ PoolSum'
      <3>1. Shares(t, l, 0, 0)
        BY <1>1, <1>3, <1>4, <1>6, <2>1, <2>3, <2>4, <2>5, <2>6 DEF Shares
      <3> QED
        BY <3>1, <1>3, PoolShares
    <2> QED
      BY <2>2, <2>7 DEF PoolInv
  <1>8. CASE local[t].freeTop # 0
    <2>1. local[t].freeTop = NODECOUNT
      BY <1>8, PoolLocals
    <2>2. P!StartPush(t)
      BY <1>8 DEF P!EndThread
    <2>3. /\ PoolCells' /\ PoolNumbers' /\ PoolStack' /\ PoolReads'
          /\ pTh' \in [Thread -> PoolThread]
          /\ list' \in [Cell -> 0 .. NODECOUNT]
          /\ pTh'[t].pc = "readpush"
          /\ \A u \in Thread \ {t} : pTh'[u] = pTh[u]
          /\ \A c \in Cell \ spare' : list'[c] = NODECOUNT
          /\ spare' \in SUBSET Cell /\ pushes' \in 0 .. MaxPushes
          /\ Cardinality(Cell \ spare)' = Cardinality(Cell \ spare) + 1
      BY <1>1, <2>1, <2>2, PoolStart
    <2>4. ~Looking(pTh'[t])
      BY <2>3 DEF Looking
    <2>5. made' = made + (held' - held) + (l.top + l.freeTop)
                       - (local[t].top + local[t].freeTop) + NODECOUNT
      <3>1. /\ made \in Nat /\ held \in Nat /\ held' = held
            /\ local[t].top \in Nat /\ NODECOUNT \in Nat
        BY <1>1, PoolLocals, PoolFacts
      <3> QED
        BY <1>1, <1>3, <2>1, <3>1
    <2>6. NODECOUNT \in Int
      BY PoolFacts
    <2>7. PoolTypes' /\ PoolLists' /\ PoolSum'
      <3>1. Shares(t, l, 1, NODECOUNT)
        BY <1>1, <1>3, <1>4, <1>6, <2>3, <2>4, <2>5, <2>6 DEF Shares
      <3> QED
        BY <3>1, <2>6, <1>3, PoolShares
    <2> QED
      BY <2>3, <2>7 DEF PoolInv
  <1> QED
    BY <1>7, <1>8

LEMMA PoolAlloc ==
    ASSUME PoolInv, NEW t \in Thread, P!Alloc(t)
    PROVE  PoolInv'
  <1>1. /\ pTh[t].pc = "idle"
        /\ UNCHANGED <<made, top, list, pNext, msize, spare, pushes>>
    BY DEF P!Alloc, P!At
  <1>2. CASE local[t].msize = 0 /\ local[t].freeTop = 0
    <2>1. /\ pTh' = [pTh EXCEPT ![t].pc = "readsize"]
          /\ UNCHANGED <<held, local>>
      BY <1>2 DEF P!Alloc, P!Goto
    <2>2. "readsize" \in PoolPlace
      BY DEF PoolPlace
    <2>3. PICK r \in PoolThread :
             /\ pTh' = [pTh EXCEPT ![t] = r] /\ r.pc = "readsize"
             /\ r.cell = pTh[t].cell /\ r.top = pTh[t].top
             /\ r.next = pTh[t].next
      <3>1. Goes(t, "readsize", pTh[t].top, pTh[t].next)
        BY <2>1, <2>2, PoolLocals DEF Goes
      <3> QED
        BY <3>1, PoolGoto DEF PoolInv
    <2>4. PoolTypes' /\ PoolLists' /\ PoolSum'
      <3>1. local[t].top = 0 /\ local[t].freeTop = 0
        BY <1>2, PoolLocals
      <3>2. top' \in Entry /\ pNext' \in [Cell -> Entry] /\ msize' \in Int
        BY <1>1, PoolLocals
      <3> QED
        BY <1>1, <2>1, <2>3, <3>1, <3>2, PoolMoved
    <2>5. PoolCells' /\ PoolNumbers' /\ PoolStack' /\ PoolReads'
      <3>1. /\ \A c \in Cell : Owns(r, c) <=> Owns(pTh[t], c)
            /\ ~Brings(r) /\ ~Brings(pTh[t])
        BY <1>1, <2>3 DEF Owns, Brings
      <3>2. r.top[2] <= pushes /\ r.next[2] <= pushes
        BY <2>3 DEF PoolInv, PoolNumbers
      <3>3. /\ pNext' \in [Cell -> Entry]
            /\ \A c \in Cell : pNext'[c][2] <= pushes
        BY <1>1, PoolLocals DEF PoolInv, PoolNumbers
      <3> QED
        BY <1>1, <2>3, <3>1, <3>2, <3>3, PoolQuiet
    <2> QED
      BY <2>4, <2>5 DEF PoolInv
  <1>3. CASE ~(local[t].msize = 0 /\ local[t].freeTop = 0)
    <2>1. PICK k : k = IF local[t].msize # 0 THEN local[t]
                       ELSE [msize |-> NODECOUNT, top |-> local[t].freeTop,
                             freeTop |-> 0]
      OBVIOUS
    <2>2. /\ k \in PoolLocal /\ k.msize # 0 /\ k.top # 0 /\ k.msize = k.top
          /\ k.top + k.freeTop = local[t].top + local[t].freeTop
      <3>1. CASE local[t].msize # 0
        BY <2>1, <3>1, PoolLocals
      <3>2. CASE local[t].msize = 0
        <4>1. PICK x \in {0, NODECOUNT} : x = local[t].freeTop /\ x = NODECOUNT
          BY <1>3, <3>2, PoolLocals
        <4>2. k = [msize |-> NODECOUNT, top |-> NODECOUNT, freeTop |-> 0]
          BY <2>1, <3>2, <4>1
        <4>3. k \in PoolLocal
          BY <4>2, PoolFacts DEF PoolLocal
        <4>4. k.msize = NODECOUNT /\ k.top = NODECOUNT /\ k.freeTop = 0
          BY <4>2
        <4>5. local[t].top = 0
          BY <3>2, PoolLocals
        <4> QED
          BY <4>1, <4>3, <4>4, <4>5, PoolFacts
      <3> QED
        BY <3>1, <3>2
    <2>3. PICK l \in PoolLocal :
             /\ l = P!Take(k) /\ l.msize = k.msize - 1 /\ l.top = k.top - 1
             /\ l.freeTop = k.freeTop
      BY <2>2, TakeOne
    <2>4. local' = [local EXCEPT ![t] = l] /\ held' = held + 1 /\ UNCHANGED pTh
      <3>1. local' = [local EXCEPT ![t] = P!Take(k)]
        BY <1>3, <2>1 DEF P!Alloc
      <3> QED
        BY <1>3, <2>3, <3>1 DEF P!Alloc
    <2>5. PoolCells' /\ PoolNumbers' /\ PoolStack' /\ PoolReads'
      BY <1>1, <2>4, PoolWaits
    <2>6. Shares(t, l, 0, 0)
      <3>1. /\ list' \in [Cell -> 0 .. NODECOUNT] /\ spare' \in SUBSET Cell
            /\ \A c \in Cell \ spare' : list'[c] = NODECOUNT
            /\ pTh' \in [Thread -> PoolThread] /\ pushes' \in 0 .. MaxPushes
        BY <1>1, <2>4 DEF PoolInv, PoolTypes, PoolLists
      <3>2. ~Looking(pTh'[t])
        BY <1>1, <2>4 DEF Looking
      <3>3. Cardinality(Cell \ spare)' = Cardinality(Cell \ spare) + 0
        <4>1. Cardinality(Cell \ spare) \in Nat
          BY PoolFacts, FS_Difference, FS_CardinalityType
        <4> QED
          BY <1>1, <4>1
      <3>4. made' = made + (held' - held) + (l.top + l.freeTop)
                         - (local[t].top + local[t].freeTop) + 0
        <4>1. PICK x \in Int, y \in Int : x = k.top /\ y = k.freeTop
          BY <2>2, PoolFacts DEF PoolLocal
        <4>2. PICK a \in Int, h \in Int : a = made /\ h = held
          BY PoolLocals
        <4>3. l.top = x - 1 /\ l.freeTop = y
              /\ local[t].top + local[t].freeTop = x + y
          BY <2>2, <2>3, <4>1
        <4>4. a = a + ((h + 1) - h) + ((x - 1) + y) - (x + y) + 0
          OBVIOUS
        <4> QED
          BY <1>1, <2>4, <4>2, <4>3, <4>4
      <3>5. /\ made' <= MaxMade /\ made' \in Int /\ held' \in Nat
            /\ msize' \in Int
        BY <1>1, <2>4, PoolLocals, PoolFacts
      <3>6. l.msize = l.top
        BY <2>2, <2>3
      <3> QED
        BY <1>1, <2>4, <3>1, <3>2, <3>3, <3>4, <3>5, <3>6 DEF Shares
    <2>7. PoolTypes' /\ PoolLists' /\ PoolSum'
      BY <2>6, PoolShares
    <2> QED
      BY <2>5, <2>7 DEF PoolInv
  <1> QED
    BY <1>2, <1>3

(* The steps of a push that bring nothing to the stack. *)
LEMMA PoolReadForPush ==
    ASSUME PoolInv, NEW t \in Thread, P!ReadForPush(t)
    PROVE  PoolInv'
  <1> USE DEF PoolInv
  <1>1. /\ pTh[t].pc = "readpush"
        /\ UNCHANGED <<made, held, local, top, list, msize, spare, pushes>>
    BY DEF P!ReadForPush, P!At
  <1>2. PICK c \in Cell : c = pTh[t].cell
    BY <1>1 DEF PoolCells, Brings
  <1>3. pNext' = [pNext EXCEPT ![c] = top]
    BY <1>2 DEF P!ReadForPush
  <1>4. pTh' = [pTh EXCEPT ![t].top = top, ![t].pc = "push"]
    BY DEF P!ReadForPush
  <1>5. "push" \in PoolPlace
    BY DEF PoolPlace
  <1>6. PICK r \in PoolThread :
           /\ pTh' = [pTh EXCEPT ![t] = r] /\ r.pc = "push"
           /\ r.cell = c /\ r.top = top /\ r.next = pTh[t].next
    <2>1. Goes(t, "push", top, pTh[t].next)
      BY <1>2, <1>4, <1>5, PoolLocals DEF Goes
    <2> QED
      BY <1>2, <2>1, PoolGoto
  <1>7. /\ pNext' \in [Cell -> Entry] /\ pNext'[c] = top
        /\ \A a \in Cell \ {c} : pNext'[a] = pNext[a]
    BY <1>3, PoolLocals
  <1>8. PoolTypes' /\ PoolLists' /\ PoolSum'
    <2>1. ~Looking(r)
      BY <1>6 DEF Looking
    <2> QED
      BY <1>1, <1>6, <1>7, <2>1, PoolLocals, PoolMoved
  <1>9. PoolCells' /\ PoolNumbers' /\ PoolStack' /\ PoolReads'
    <2>1. /\ \A a \in Cell : Owns(r, a) <=> Owns(pTh[t], a)
          /\ Brings(r) /\ Brings(pTh[t]) /\ Owns(pTh[t], c)
      BY <1>1, <1>2, <1>6 DEF Owns, Brings
    <2>2. r.top[2] <= pushes /\ r.next[2] <= pushes
      BY <1>6 DEF PoolNumbers
    <2>3. \A a \in Cell : pNext'[a][2] <= pushes
      BY <1>7 DEF PoolNumbers
    <2>4. \A a \in OnStack : pNext'[a] = pNext[a]
      BY <1>7, <2>1 DEF OnStack
    <2>5. \A u \in Thread \ {t} :
             pTh[u].pc = "push" => pNext'[pTh[u].cell] = pNext[pTh[u].cell]
      <3> TAKE u \in Thread \ {t}
      <3> HAVE pTh[u].pc = "push"
      <3>1. PICK a \in Cell : a = pTh[u].cell /\ Owns(pTh[u], a)
        BY DEF PoolCells, Brings, Owns
      <3>2. a # c
        BY <2>1, <3>1 DEF PoolCells
      <3> QED
        BY <1>7, <3>1, <3>2
    <2> QED
      BY <1>1, <1>2, <1>6, <1>7, <2>1, <2>2, <2>3, <2>4, <2>5, PoolQuiet
  <1> QED
    BY <1>8, <1>9

LEMMA PoolPushes ==
    ASSUME PoolInv, NEW t \in Thread, P!Push(t)
    PROVE  PoolInv'
  <1> USE DEF PoolInv
  <1>1. /\ pTh[t].pc = "push"
        /\ UNCHANGED <<made, held, local, pNext, list, msize, spare, pushes>>
    BY DEF P!Push, P!At
  <1>2. pNext' \in [Cell -> Entry] /\ msize' \in Int
    BY <1>1, PoolLocals
  <1>3. CASE top = pTh[t].top
    <2>1. top' = pTh[t].next /\ pTh' = [pTh EXCEPT ![t].pc = "grow"]
      BY <1>3 DEF P!Push, P!SameTop, P!Goto
    <2>2. "grow" \in PoolPlace
      BY DEF PoolPlace
    <2>3. PICK r \in PoolThread :
             /\ pTh' = [pTh EXCEPT ![t] = r] /\ r.pc = "grow"
             /\ r.cell = pTh[t].cell /\ r.top = pTh[t].top
             /\ r.next = pTh[t].next
      <3>1. Goes(t, "grow", pTh[t].top, pTh[t].next)
        BY <2>1, <2>2, PoolLocals DEF Goes
      <3> QED
        BY <3>1, PoolGoto
    <2>4. ~Looking(r) /\ top' \in Entry
      BY <2>1, <2>3, PoolLocals DEF Looking
    <2>5. PoolTypes' /\ PoolLists' /\ PoolSum'
      BY <1>1, <1>2, <2>3, <2>4, PoolMoved
    <2>6. PoolCells' /\ PoolNumbers' /\ PoolStack' /\ PoolReads'
      BY <1>1, <1>3, <2>1, <2>3, PoolPush
    <2> QED
      BY <2>5, <2>6
  <1>4. CASE top # pTh[t].top
    <2>1. UNCHANGED top /\ pTh' = [pTh EXCEPT ![t].pc = "readpush"]
      BY <1>4 DEF P!Push, P!SameTop, P!Goto
    <2>2. "readpush" \in PoolPlace
      BY DEF PoolPlace
    <2>3. PICK r \in PoolThread :
             /\ pTh' = [pTh EXCEPT ![t] = r] /\ r.pc = "readpush"
             /\ r.cell = pTh[t].cell /\ r.top = pTh[t].top
             /\ r.next = pTh[t].next
      <3>1. Goes(t, "readpush", pTh[t].top, pTh[t].next)
        BY <2>1, <2>2, PoolLocals DEF Goes
      <3> QED
        BY <3>1, PoolGoto
    <2>4. ~Looking(r) /\ top' \in Entry
      BY <2>1, <2>3, PoolLocals DEF Looking
    <2>5. PoolTypes' /\ PoolLists' /\ PoolSum'
      BY <1>1, <1>2, <2>3, <2>4, PoolMoved
    <2>6. PoolCells' /\ PoolNumbers' /\ PoolStack' /\ PoolReads'
      <3>1. /\ \A c \in Cell : Owns(r, c) <=> Owns(pTh[t], c)
            /\ Brings(r) /\ Brings(pTh[t]) /\ r.cell \in Cell
        BY <1>1, <2>3 DEF Owns, Brings, PoolCells
      <3>2. r.top[2] <= pushes /\ r.next[2] <= pushes
        BY <2>3 DEF PoolNumbers
      <3>3. \A c \in Cell : pNext'[c][2] <= pushes
        BY <1>1 DEF PoolNumbers
      <3> QED
        BY <1>1, <1>2, <2>1, <2>3, <3>1, <3>2, <3>3, PoolQuiet
    <2> QED
      BY <2>5, <2>6
  <1> QED
    BY <1>3, <1>4

LEMMA PoolGrow ==
    ASSUME PoolInv, NEW t \in Thread, P!Grow(t)
    PROVE  PoolInv'
  <1> USE DEF PoolInv
  <1>1. /\ pTh[t].pc = "grow" /\ msize' = msize + 1
        /\ pTh' = [pTh EXCEPT ![t] = P!Idle]
        /\ UNCHANGED <<made, held, local, top, list, pNext, spare, pushes>>
    BY DEF P!Grow, P!At
  <1>2. PICK r \in PoolThread : /\ r = P!Idle /\ r.pc = "idle"
                                /\ r.top = P!Nil /\ r.next = P!Nil
    BY IdleThread
  <1>3. pTh' = [pTh EXCEPT ![t] = r]
    BY <1>1, <1>2
  <1>4. /\ ~Looking(r) /\ top' \in Entry /\ pNext' \in [Cell -> Entry]
        /\ msize' \in Int
    BY <1>1, <1>2, PoolLocals DEF Looking
  <1>5. PoolTypes' /\ PoolLists' /\ PoolSum'
    BY <1>1, <1>3, <1>4, PoolMoved
  <1>6. PoolCells' /\ PoolNumbers' /\ PoolStack' /\ PoolReads'
    <2>1. /\ \A c \in Cell : Owns(r, c) <=> Owns(pTh[t], c)
          /\ ~Brings(r) /\ ~Brings(pTh[t])
      BY <1>1, <1>2 DEF Owns, Brings
    <2>2. r.top[2] <= pushes /\ r.next[2] <= pushes
      BY <1>2 DEF P!Nil, PoolTypes
    <2>3. \A c \in Cell : pNext'[c][2] <= pushes
      BY <1>1 DEF PoolNumbers
    <2> QED
      BY <1>1, <1>2, <1>3, <1>4, <2>1, <2>2, <2>3, PoolQuiet
  <1> QED
    BY <1>5, <1>6

LEMMA PoolReadSize ==
    ASSUME PoolInv, NEW t \in Thread, P!ReadSize(t)
    PROVE  PoolInv'
  <1> USE DEF PoolInv
  <1>1. /\ pTh[t].pc = "readsize"
        /\ UNCHANGED <<made, held, local, top, list, pNext, msize, spare,
                       pushes>>
    BY DEF P!ReadSize, P!At
  <1>2. PICK p \in {"new", "readtop"} : pTh' = [pTh EXCEPT ![t].pc = p]
    BY DEF P!ReadSize, P!Goto
  <1>3. p \in PoolPlace
    BY DEF PoolPlace
  <1>4. PICK r \in PoolThread :
           /\ pTh' = [pTh EXCEPT ![t] = r] /\ r.pc = p
           /\ r.cell = pTh[t].cell /\ r.top = pTh[t].top
           /\ r.next = pTh[t].next
    <2>1. Goes(t, p, pTh[t].top, pTh[t].next)
      BY <1>2, <1>3, PoolLocals DEF Goes
    <2> QED
      BY <2>1, PoolGoto
  <1>5. Looking(pTh[t])
    BY <1>1 DEF Looking
  <1>6. top' \in Entry /\ pNext' \in [Cell -> Entry] /\ msize' \in Int
    BY <1>1, PoolLocals
  <1>7. PoolTypes' /\ PoolLists' /\ PoolSum'
    BY <1>1, <1>4, <1>5, <1>6, PoolMoved
  <1>8. PoolCells' /\ PoolNumbers' /\ PoolStack' /\ PoolReads'
    <2>1. /\ \A c \in Cell : Owns(r, c) <=> Owns(pTh[t], c)
          /\ ~Brings(r) /\ ~Brings(pTh[t])
      BY <1>1, <1>4 DEF Owns, Brings
    <2>2. r.top[2] <= pushes /\ r.next[2] <= pushes
      BY <1>4 DEF PoolNumbers
    <2>3. \A c \in Cell : pNext'[c][2] <= pushes
      BY <1>1 DEF PoolNumbers
    <2> QED
      BY <1>1, <1>4, <1>6, <2>1, <2>2, <2>3, PoolQuiet
  <1> QED
    BY <1>7, <1>8

LEMMA PoolReadTop ==
    ASSUME PoolInv, NEW t \in Thread, P!ReadTop(t)
    PROVE  PoolInv'
  <1> USE DEF PoolInv
  <1>1. /\ pTh[t].pc = "readtop"
        /\ UNCHANGED <<made, held, local, top, list, pNext, msize, spare,
                       pushes>>
    BY DEF P!ReadTop, P!At
  <1>2. PICK p \in {"new", "readnext"} :
             /\ pTh' = [pTh EXCEPT ![t].top = top, ![t].pc = p]
             /\ p = "readnext" => top # P!Nil
    BY DEF P!ReadTop
  <1>3. p \in PoolPlace
    BY DEF PoolPlace
  <1>4. PICK r \in PoolThread :
           /\ pTh' = [pTh EXCEPT ![t] = r] /\ r.pc = p
           /\ r.cell = pTh[t].cell /\ r.top = top /\ r.next = pTh[t].next
    <2>1. Goes(t, p, top, pTh[t].next)
      BY <1>2, <1>3, PoolLocals DEF Goes
    <2> QED
      BY <2>1, PoolGoto
  <1>5. Looking(pTh[t])
    BY <1>1 DEF Looking
  <1>6. top' \in Entry /\ pNext' \in [Cell -> Entry] /\ msize' \in Int
    BY <1>1, PoolLocals
  <1>7. PoolTypes' /\ PoolLists' /\ PoolSum'
    BY <1>1, <1>4, <1>5, <1>6, PoolMoved
  <1>8. PoolCells' /\ PoolNumbers' /\ PoolStack' /\ PoolReads'
    <2>1. /\ \A c \in Cell : Owns(r, c) <=> Owns(pTh[t], c)
          /\ ~Brings(r) /\ ~Brings(pTh[t])
      BY <1>1, <1>4 DEF Owns, Brings
    <2>2. r.top[2] <= pushes /\ r.next[2] <= pushes
      BY <1>4 DEF PoolNumbers
    <2>3. \A c \in Cell : pNext'[c][2] <= pushes
      BY <1>1 DEF PoolNumbers
    <2>4. r.pc \in {"readnext", "pop", "shrink"} => r.top[1] \in Cell
      <3>1. top # P!Nil => top[1] \in Cell
        BY PoolLocals DEF Entry
      <3> QED
        BY <1>2, <1>4, <3>1
    <2>5. \A u \in Thread : Brings(pTh[u]) => top # pTh[u].next
      <3> TAKE u \in Thread
      <3> HAVE Brings(pTh[u])
      <3>1. /\ pTh[u].cell \in Cell /\ Owns(pTh[u], pTh[u].cell)
            /\ pTh[u].next[1] = pTh[u].cell
        BY DEF PoolCells, PoolReads, Owns
      <3>2. pTh[u].next[1] \notin OnStack \cup {Null}
        BY <3>1, PoolFacts DEF OnStack
      <3>3. top[1] \in OnStack \cup {Null}
        BY StandingOn
      <3> QED
        BY <3>2, <3>3
    <2> QED
      BY <1>1, <1>4, <1>6, <2>1, <2>2, <2>3, <2>4, <2>5, PoolQuiet
  <1> QED
    BY <1>7, <1>8

LEMMA PoolReadNext ==
    ASSUME PoolInv, NEW t \in Thread, P!ReadNext(t)
    PROVE  PoolInv'
  <1> USE DEF PoolInv
  <1>1. /\ pTh[t].pc = "readnext"
        /\ UNCHANGED <<made, held, local, top, list, pNext, msize, spare,
                       pushes>>
    BY DEF P!ReadNext, P!At
  <1>2. PICK e \in Entry : e = pNext[pTh[t].top[1]] /\ e[2] <= pushes
    BY <1>1, PoolLocals DEF PoolCells, PoolNumbers
  <1>3. pTh' = [pTh EXCEPT ![t].next = e, ![t].pc = "pop"]
    BY <1>2 DEF P!ReadNext
  <1>4. "pop" \in PoolPlace
    BY DEF PoolPlace
  <1>5. PICK r \in PoolThread :
           /\ pTh' = [pTh EXCEPT ![t] = r] /\ r.pc = "pop"
           /\ r.cell = pTh[t].cell /\ r.top = pTh[t].top /\ r.next = e
    <2>1. Goes(t, "pop", pTh[t].top, e)
      BY <1>3, <1>4, PoolLocals DEF Goes
    <2> QED
      BY <2>1, PoolGoto
  <1>6. Looking(pTh[t])
    BY <1>1 DEF Looking
  <1>7. top' \in Entry /\ pNext' \in [Cell -> Entry] /\ msize' \in Int
    BY <1>1, PoolLocals
  <1>8. PoolTypes' /\ PoolLists' /\ PoolSum'
    BY <1>1, <1>5, <1>6, <1>7, PoolMoved
  <1>9. PoolCells' /\ PoolNumbers' /\ PoolStack' /\ PoolReads'
    <2>1. /\ \A c \in Cell : Owns(r, c) <=> Owns(pTh[t], c)
          /\ ~Brings(r) /\ ~Brings(pTh[t])
      BY <1>1, <1>5 DEF Owns, Brings
    <2>2. r.top[2] <= pushes /\ r.next[2] <= pushes
      BY <1>2, <1>5 DEF PoolNumbers
    <2>3. \A c \in Cell : pNext'[c][2] <= pushes
      BY <1>1 DEF PoolNumbers
    <2>4. r.top[1] \in Cell
      BY <1>1, <1>5 DEF PoolCells
    <2>5. r.next = pNext[r.top[1]]
      BY <1>2, <1>5
    <2>6. \A u \in Thread : Brings(pTh[u]) => r.top # pTh[u].next
      BY <1>1, <1>5 DEF PoolReads
    <2> QED
      BY <1>1, <1>5, <1>7, <2>1, <2>2, <2>3, <2>4, <2>5, <2>6, PoolQuiet
  <1> QED
    BY <1>8, <1>9

LEMMA PoolPops ==
    ASSUME PoolInv, NEW t \in Thread, P!Pop(t)
    PROVE  PoolInv'
  <1> USE DEF PoolInv
  <1>1. /\ pTh[t].pc = "pop"
        /\ UNCHANGED <<made, held, local, pNext, list, msize, spare, pushes>>
    BY DEF P!Pop, P!At
  <1>2. pNext' \in [Cell -> Entry] /\ msize' \in Int
    BY <1>1, PoolLocals
  <1>3. Looking(pTh[t])
    BY <1>1 DEF Looking
  <1>4. CASE top = pTh[t].top
    <2>1. top' = pTh[t].next /\ pTh' = [pTh EXCEPT ![t].pc = "shrink"]
      BY <1>4 DEF P!Pop, P!SameTop, P!Goto
    <2>2. "shrink" \in PoolPlace
      BY DEF PoolPlace
    <2>3. PICK r \in PoolThread :
             /\ pTh' = [pTh EXCEPT ![t] = r] /\ r.pc = "shrink"
             /\ r.cell = pTh[t].cell /\ r.top = pTh[t].top
             /\ r.next = pTh[t].next
      <3>1. Goes(t, "shrink", pTh[t].top, pTh[t].next)
        BY <2>1, <2>2, PoolLocals DEF Goes
      <3> QED
        BY <3>1, PoolGoto
    <2>4. top' \in Entry
      BY <2>1, PoolLocals
    <2>5. PoolTypes' /\ PoolLists' /\ PoolSum'
      BY <1>1, <1>2, <1>3, <2>3, <2>4, PoolMoved
    <2>6. PoolCells' /\ PoolNumbers' /\ PoolStack' /\ PoolReads'
      BY <1>1, <1>4, <2>1, <2>3, PoolPop
    <2> QED
      BY <2>5, <2>6
  <1>5. CASE top # pTh[t].top
    <2>1. UNCHANGED top /\ pTh' = [pTh EXCEPT ![t].pc = "readtop"]
      BY <1>5 DEF P!Pop, P!SameTop, P!Goto
    <2>2. "readtop" \in PoolPlace
      BY DEF PoolPlace
    <2>3. PICK r \in PoolThread :
             /\ pTh' = [pTh EXCEPT ![t] = r] /\ r.pc = "readtop"
             /\ r.cell = pTh[t].cell /\ r.top = pTh[t].top
             /\ r.next = pTh[t].next
      <3>1. Goes(t, "readtop", pTh[t].top, pTh[t].next)
        BY <2>1, <2>2, PoolLocals DEF Goes
      <3> QED
        BY <3>1, PoolGoto
    <2>4. top' \in Entry
      BY <2>1, PoolLocals
    <2>5. PoolTypes' /\ PoolLists' /\ PoolSum'
      BY <1>1, <1>2, <1>3, <2>3, <2>4, PoolMoved
    <2>6. PoolCells' /\ PoolNumbers' /\ PoolStack' /\ PoolReads'
      <3>1. /\ \A c \in Cell : Owns(r, c) <=> Owns(pTh[t], c)
            /\ ~Brings(r) /\ ~Brings(pTh[t])
        BY <1>1, <2>3 DEF Owns, Brings
      <3>2. r.top[2] <= pushes /\ r.next[2] <= pushes
        BY <2>3 DEF PoolNumbers
      <3>3. \A c \in Cell : pNext'[c][2] <= pushes
        BY <1>1 DEF PoolNumbers
      <3> QED
        BY <1>1, <1>2, <2>1, <2>3, <3>1, <3>2, <3>3, PoolQuiet
    <2> QED
      BY <2>5, <2>6
  <1> QED
    BY <1>4, <1>5

LEMMA PoolShrink ==
    ASSUME PoolInv, NEW t \in Thread, P!Shrink(t)
    PROVE  PoolInv'
  <1>1. /\ pTh[t].pc = "shrink" /\ msize' = msize - 1 /\ held' = held + 1
        /\ pTh' = [pTh EXCEPT ![t] = P!Idle]
        /\ UNCHANGED <<made, top, list, pNext, pushes>>
    BY DEF P!Shrink, P!At
  <1>2. PICK c : c = pTh[t].top[1] /\ spare' = spare \cup {c}
    BY DEF P!Shrink
  <1>3. /\ PoolCells' /\ PoolNumbers' /\ PoolStack' /\ PoolReads'
        /\ spare' \in SUBSET Cell /\ c \in Cell /\ c \notin spare
        /\ Cardinality(Cell \ spare) \in Nat
        /\ Cardinality(Cell \ spare)' = Cardinality(Cell \ spare) - 1
    BY <1>1, <1>2, PoolSpare
  <1>4. PICK r \in PoolThread : r = P!Idle /\ r.pc = "idle"
    BY IdleThread
  <1>5. /\ pTh' \in [Thread -> PoolThread] /\ pTh'[t] = r
        /\ \A u \in Thread \ {t} : pTh'[u] = pTh[u]
    BY <1>1, <1>4, PoolMoves DEF PoolInv
  <1>6. list[c] = NODECOUNT
    BY <1>3 DEF PoolInv, PoolLists
  <1>7. PICK k : k = [msize |-> NODECOUNT, top |-> list[c], freeTop |-> 0]
    OBVIOUS
  <1>8. /\ k \in PoolLocal /\ k.msize = NODECOUNT /\ k.top = NODECOUNT
        /\ k.freeTop = 0 /\ k.msize # 0 /\ k.top # 0
    BY <1>6, <1>7, PoolFacts DEF PoolLocal
  <1>9. PICK l \in PoolLocal :
           /\ l = P!Take(k) /\ l.msize = k.msize - 1 /\ l.top = k.top - 1
           /\ l.freeTop = k.freeTop
    BY <1>8, TakeOne
  <1>10. local' = [local EXCEPT ![t] = l]
    <2>1. local' = [local EXCEPT ![t] = P!Take(k)]
      BY <1>2, <1>7 DEF P!Shrink
    <2> QED
      BY <1>9, <2>1
  <1>11. local[t].top = 0 /\ local[t].freeTop = 0
    BY <1>1 DEF PoolInv, PoolLists, Looking
  <1>12. Shares(t, l, -1, 0 - NODECOUNT)
    <2>1. /\ list' \in [Cell -> 0 .. NODECOUNT]
          /\ \A a \in Cell \ spare' : list'[a] = NODECOUNT
          /\ pushes' \in 0 .. MaxPushes
      BY <1>1, <1>2 DEF PoolInv, PoolTypes, PoolLists
    <2>2. ~Looking(pTh'[t])
      BY <1>4, <1>5 DEF Looking
    <2>3. Cardinality(Cell \ spare)' = Cardinality(Cell \ spare) + (-1)
      BY <1>3
    <2>4. made' = made + (held' - held) + (l.top + l.freeTop)
                       - (local[t].top + local[t].freeTop) + (0 - NODECOUNT)
      <3>1. PICK a \in Int, h \in Int, n \in Int :
                 a = made /\ h = held /\ n = NODECOUNT
        BY PoolLocals, PoolFacts
      <3>2. l.top = n - 1 /\ l.freeTop = 0
        BY <1>8, <1>9, <3>1
      <3>3. a = a + ((h + 1) - h) + ((n - 1) + 0) - (0 + 0) + (0 - n)
        OBVIOUS
      <3> QED
        BY <1>1, <1>11, <3>1, <3>2, <3>3
    <2>5. made' <= MaxMade /\ made' \in Int /\ held' \in Nat /\ msize' \in Int
      BY <1>1, PoolLocals, PoolFacts
    <2>6. l.msize = l.top
      BY <1>8, <1>9
    <2> QED
      BY <1>1, <1>3, <1>5, <1>10, <2>1, <2>2, <2>3, <2>4, <2>5, <2>6 DEF Shares
  <1>13. PoolTypes' /\ PoolLists' /\ PoolSum'
    <2>1. -1 \in Int /\ 0 - NODECOUNT \in Int
      BY PoolFacts
    <2> QED
      BY <1>12, <2>1, PoolShares
  <1> QED
    BY <1>3, <1>13 DEF PoolInv

LEMMA PoolNew ==
    ASSUME PoolInv, NEW t \in Thread, P!New(t)
    PROVE  PoolInv'
  <1>1. /\ pTh[t].pc = "new" /\ made < MaxMade /\ made' = made + 1
        /\ held' = held + 1 /\ pTh' = [pTh EXCEPT ![t] = P!Idle]
        /\ UNCHANGED <<local, top, list, pNext, msize, spare, pushes>>
    BY DEF P!New, P!At
  <1>2. PICK r \in PoolThread : /\ r = P!Idle /\ r.pc = "idle"
                                /\ r.top = P!Nil /\ r.next = P!Nil
    BY IdleThread
  <1>3. /\ pTh' = [pTh EXCEPT ![t] = r] /\ pTh' \in [Thread -> PoolThread]
        /\ pTh'[t] = r /\ \A u \in Thread \ {t} : pTh'[u] = pTh[u]
    BY <1>1, <1>2, PoolMoves DEF PoolInv
  <1>4. PICK l \in PoolLocal : l = local[t] /\ l.msize = l.top
    BY PoolLocals
  <1>5. Shares(t, l, 0, 0)
    <2>1. /\ list' \in [Cell -> 0 .. NODECOUNT] /\ spare' \in SUBSET Cell
          /\ \A c \in Cell \ spare' : list'[c] = NODECOUNT
          /\ pushes' \in 0 .. MaxPushes
      BY <1>1 DEF PoolInv, PoolTypes, PoolLists
    <2>2. ~Looking(pTh'[t])
      BY <1>2, <1>3 DEF Looking
    <2>3. local' = [local EXCEPT ![t] = l]
      BY <1>1, <1>4 DEF PoolInv, PoolTypes
    <2>4. Cardinality(Cell \ spare)' = Cardinality(Cell \ spare) + 0
      <3>1. Cardinality(Cell \ spare) \in Nat
        BY PoolFacts, FS_Difference, FS_CardinalityType
      <3> QED
        BY <1>1, <3>1
    <2>5. made' = made + (held' - held) + (l.top + l.freeTop)
                       - (local[t].top + local[t].freeTop) + 0
      <3>1. /\ made \in Int /\ held \in Int
            /\ local[t].top \in Int /\ local[t].freeTop \in Int
        BY PoolLocals, PoolFacts
      <3> QED
        BY <1>1, <1>4, <3>1
    <2>6. made' <= MaxMade /\ made' \in Int /\ held' \in Nat /\ msize' \in Int
      BY <1>1, PoolLocals, PoolFacts
    <2> QED
      BY <1>1, <1>3, <1>4, <2>1, <2>2, <2>3, <2>4, <2>5, <2>6 DEF Shares
  <1>6. PoolTypes' /\ PoolLists' /\ PoolSum'
    BY <1>5, PoolShares
  <1>7. PoolCells' /\ PoolNumbers' /\ PoolStack' /\ PoolReads'
    <2>1. /\ \A c \in Cell : Owns(r, c) <=> Owns(pTh[t], c)
          /\ ~Brings(r) /\ ~Brings(pTh[t])
      BY <1>1, <1>2 DEF Owns, Brings
    <2>2. r.top[2] <= pushes /\ r.next[2] <= pushes
      BY <1>2 DEF P!Nil, PoolInv, PoolTypes
    <2>3. pNext' \in [Cell -> Entry] /\ \A c \in Cell : pNext'[c][2] <= pushes
      BY <1>1, PoolLocals DEF PoolInv, PoolNumbers
    <2> QED
      BY <1>1, <1>2, <1>3, <2>1, <2>2, <2>3, PoolQuiet
  <1> QED
    BY <1>6, <1>7 DEF PoolInv

(* Every step of the pool keeps the invariant.                              *)
LEMMA PoolSteps ==
    ASSUME PoolInv, [P!Next]_pVars
    PROVE  PoolInv'
  <1>1. CASE P!Next
    <2>1. PICK t \in Thread :
             P!Alloc(t) \/ P!Delete(t) \/ P!EndThread(t) \/ P!Step(t)
      BY <1>1 DEF P!Next
    <2>2. CASE P!Step(t)
      BY <2>2, PoolReadForPush, PoolPushes, PoolGrow, PoolReadSize,
         PoolReadTop,
         PoolReadNext, PoolPops, PoolShrink, PoolNew DEF P!Step
    <2> QED
      BY <2>1, <2>2, PoolAlloc, PoolDelete, PoolEndThread
  <1>2. CASE UNCHANGED pVars
    <2> USE <1>2 DEF pVars
    <2>1. PoolCells' /\ PoolNumbers' /\ PoolStack' /\ PoolReads'
      BY PoolWaits
    <2>2. PoolTypes' /\ PoolLists'
      BY DEF PoolInv, PoolTypes, PoolLists
    <2>3. PoolSum'
      BY DEF PoolInv, PoolSum, InPools
    <2> QED
      BY <2>1, <2>2, <2>3 DEF PoolInv
  <1> QED
    BY <1>1, <1>2

(* What follows _top and _next is the list of the stack. *)
LEMMA PoolStacked ==
    ASSUME PoolInv
    PROVE  P!Stacked = OnStack
  <1> DEFINE N == P!Cardinality(Cell)
             D(f) == f = [k \in 0 .. N |->
                            IF k = 0 THEN top[1]
                            ELSE IF f[k - 1] = Null THEN Null
                                 ELSE pNext[f[k - 1]][1]]
             at == CHOOSE f : D(f)
             V == Cell \cup {Null}
  <1>1. P!Stacked = {at[k] : k \in DOMAIN at} \ {Null}
    BY DEF P!Stacked
  <1>2. PICK n \in Nat : \E s \in [1 .. n -> OnStack] : Listed(n, s)
    BY DEF PoolInv, PoolStack
  <1>3. PICK s \in [1 .. n -> OnStack] : Listed(n, s)
    BY <1>2
  <1>4. /\ \A i, j \in 1 .. n : s[i] = s[j] => i = j
        /\ \A c \in OnStack : \E i \in 1 .. n : s[i] = c
        /\ n = 0 => top[1] = Null
        /\ n # 0 => top[1] = s[1]
        /\ \A i \in 1 .. n : i # n => pNext[s[i]][1] = s[i + 1]
        /\ n # 0 => pNext[s[n]][1] = Null
        /\ \A i \in 1 .. n : s[i] \in OnStack
    BY <1>3 DEF Listed
  <1>5. OnStack \subseteq Cell /\ Null \notin OnStack
    BY PoolFacts DEF OnStack
  <1>6. N \in Nat /\ n <= N
    <2>1. N = Cardinality(Cell)
      BY DEF P!Cardinality, Cardinality
    <2>2. Cardinality(1 .. n) = n
      <3>1. IF 1 > n THEN Cardinality(1 .. n) = 0
            ELSE Cardinality(1 .. n) = n - 1 + 1
        BY FS_Interval
      <3> QED
        BY <3>1
    <2>3. s \in Injection(1 .. n, Cell)
      BY <1>4, <1>5 DEF Injection, IsInjective
    <2>4. Cardinality(1 .. n) <= Cardinality(Cell)
      BY <2>3, PoolFacts, FS_Injection
    <2> QED
      BY <2>1, <2>2, <2>4, PoolFacts, FS_CardinalityType
  <1>7. top[1] \in V /\ \A x \in Cell : pNext[x][1] \in V
    BY DEF PoolInv, PoolTypes, Entry
  <1> HIDE DEF N
  <1>8. \E f : D(f)
    <2> DEFINE G == [i \in 1 .. N |->
                       [x \in V |-> IF x = Null THEN Null ELSE pNext[x][1]]]
    <2>1. \A i \in 1 .. N : \A x \in V :
             G[i][x] = IF x = Null THEN Null ELSE pNext[x][1]
      OBVIOUS
    <2> HIDE DEF G
    <2>2. StepsIn(G, N, V)
      BY <1>7, <2>1 DEF StepsIn
    <2>3. PICK f : RunOf(f, G, N, top[1], V)
      <3> HIDE DEF V
      <3> QED
        BY <1>6, <1>7, <2>2, Recursion
    <2>4. /\ f = [i \in 0 .. N |-> f[i]] /\ f[0] = top[1]
          /\ \A i \in 0 .. N : f[i] \in V
          /\ \A i \in 1 .. N : f[i] = G[i][f[i - 1]]
      BY <2>3 DEF RunOf
    <2>5. ASSUME NEW k \in 0 .. N
          PROVE  f[k] = IF k = 0 THEN top[1]
                        ELSE IF f[k - 1] = Null THEN Null
                             ELSE pNext[f[k - 1]][1]
      <3>1. CASE k = 0
        BY <2>4, <3>1
      <3>2. CASE k # 0
        <4>1. k \in 1 .. N /\ k - 1 \in 0 .. N
          BY <1>6, <3>2
        <4>2. f[k] = G[k][f[k - 1]] /\ f[k - 1] \in V
          BY <2>4, <4>1
        <4> QED
          BY <2>1, <3>2, <4>1, <4>2
      <3> QED
        BY <3>1, <3>2
    <2>6. D(f)
      BY <2>4, <2>5, Zenon
    <2> HIDE DEF D
    <2> QED
      BY <2>6
  <1>9. D(at)
    <2> HIDE DEF D
    <2> QED
      BY <1>8
  <1> HIDE DEF at
  <1>10. /\ DOMAIN at = 0 .. N
         /\ \A k \in 0 .. N : at[k] = IF k = 0 THEN top[1]
                                      ELSE IF at[k - 1] = Null THEN Null
                                           ELSE pNext[at[k - 1]][1]
    BY <1>9
  <1> HIDE DEF D
  <1>11. ASSUME NEW k \in 0 .. N
         PROVE  /\ k < n => at[k] = s[k + 1]
                /\ k >= n => at[k] = Null
    <2> DEFINE Z == {i \in 0 .. N : /\ i < n => at[i] = s[i + 1]
                                    /\ i >= n => at[i] = Null}
    <2>1. 0 \in Z
      <3>1. 0 \in 0 .. N
        BY <1>6
      <3>2. at[0] = top[1]
        BY <1>10, <3>1
      <3>3. 0 < n => at[0] = s[0 + 1]
        BY <1>4, <3>2
      <3>4. 0 >= n => at[0] = Null
        BY <1>4, <3>2
      <3> QED
        BY <3>1, <3>3, <3>4
    <2>2. ASSUME NEW i \in 0 .. k, i < k, i \in Z
          PROVE  i + 1 \in Z
      <3>1. PICK j \in 0 .. N : j = i + 1 /\ j # 0 /\ j - 1 = i
        BY <1>6, <2>2
      <3>2. at[j] = IF at[i] = Null THEN Null ELSE pNext[at[i]][1]
        BY <1>10, <3>1
      <3>3. CASE i >= n
        BY <2>2, <3>1, <3>2, <3>3
      <3>4. CASE i < n
        <4>1. j \in 1 .. n
          BY <3>1, <3>4
        <4>2. at[i] = s[j] /\ s[j] # Null
          BY <1>4, <1>5, <2>2, <3>1, <3>4, <4>1
        <4>3. at[j] = pNext[s[j]][1]
          BY <3>2, <4>2
        <4>4. CASE j = n
          <5>1. at[j] = Null
            BY <1>4, <4>1, <4>3, <4>4
          <5> QED
            BY <3>1, <4>4, <5>1
        <4>5. CASE j # n
          <5>1. at[j] = s[j + 1]
            BY <1>4, <4>1, <4>3, <4>5
          <5>2. j < n
            BY <4>1, <4>5
          <5> QED
            BY <3>1, <5>1, <5>2
        <4> QED
          BY <4>4, <4>5
      <3> QED
        BY <3>3, <3>4
    <2>3. k \in Z
      <3>1. k \in Nat
        OBVIOUS
      <3> HIDE DEF Z
      <3> QED
        BY <2>1, <2>2, <3>1, Induction
    <2> QED
      BY <2>3
  <1>12. ASSUME NEW c
         PROVE  c \in P!Stacked <=> c \in OnStack
    <2>1. ASSUME c \in P!Stacked
          PROVE  c \in OnStack
      <3>1. PICK k \in 0 .. N : c = at[k] /\ c # Null
        BY <1>1, <1>10, <2>1
      <3>2. k < n
        BY <1>2, <1>11, <3>1
      <3>3. k + 1 \in 1 .. n
        BY <3>2
      <3> QED
        BY <1>4, <1>11, <3>1, <3>2, <3>3
    <2>2. ASSUME c \in OnStack
          PROVE  c \in P!Stacked
      <3>1. PICK i \in 1 .. n : s[i] = c
        BY <1>4, <2>2
      <3>2. PICK k \in 0 .. N : k + 1 = i /\ k < n
        <4>1. i - 1 \in 0 .. N /\ (i - 1) + 1 = i /\ i - 1 < n
          BY <1>6
        <4> QED
          BY <4>1
      <3>3. at[k] = c
        BY <1>11, <3>1, <3>2
      <3> QED
        BY <1>1, <1>5, <1>10, <2>2, <3>3
    <2> QED
      BY <2>1, <2>2
  <1> QED
    BY <1>12

(* The cells in use are on the stack or a thread's own. *)
LEMMA PoolCellsInUse ==
    ASSUME PoolInv
    PROVE  /\ Cardinality(Cell \ spare) \in Nat
           /\ Cardinality(OnStack) + Cardinality(P!Pushed)
                 + Cardinality(P!Popped)
                = Cardinality(Cell \ spare)
           /\ P!Pushed \subseteq Cell \ spare
  <1>1. PICK A : A = P!Pushed
    OBVIOUS
  <1>2. PICK X : X = P!Popped
    OBVIOUS
  <1> DEFINE B == {pTh[t].top[1] : t \in {u \in Thread : pTh[u].pc = "shrink"}}
  <1>3. \A c : c \in A <=> \E t \in Thread : Brings(pTh[t]) /\ c = pTh[t].cell
    BY <1>1 DEF P!Pushed, Brings
  <1>4. \A c : c \in B <=> \E t \in Thread : pTh[t].pc = "shrink"
                                             /\ c = pTh[t].top[1]
    OBVIOUS
  <1>5. X = {<<t, pTh[t].top[1]>> :
               t \in {u \in Thread : pTh[u].pc = "shrink"}}
    BY <1>2 DEF P!Popped, P!At
  <1>6. /\ \A t \in Thread : \A c \in spare : ~Owns(pTh[t], c)
        /\ \A t, u \in Thread : \A c \in Cell :
             Owns(pTh[t], c) /\ Owns(pTh[u], c) => t = u
        /\ A \subseteq Cell /\ B \subseteq Cell
    BY <1>3, <1>4 DEF PoolInv, PoolCells
  <1> HIDE DEF B
  <1>7. A \cap B = {} /\ A \cap spare = {} /\ B \cap spare = {}
    <2>1. ASSUME NEW c \in A, c \in B
          PROVE  FALSE
      <3>1. PICK t \in Thread : Brings(pTh[t]) /\ c = pTh[t].cell
        BY <1>3
      <3>2. PICK u \in Thread : pTh[u].pc = "shrink" /\ c = pTh[u].top[1]
        BY <1>4, <2>1
      <3>3. t = u
        BY <1>6, <3>1, <3>2 DEF Owns
      <3> QED
        BY <3>1, <3>2, <3>3 DEF Brings
    <2>2. A \cap spare = {}
      BY <1>3, <1>6 DEF Owns
    <2>3. B \cap spare = {}
      BY <1>4, <1>6 DEF Owns
    <2> QED
      BY <2>1, <2>2, <2>3
  <1>8. /\ Cell \ spare = OnStack \cup (A \cup B)
        /\ OnStack \cap (A \cup B) = {}
    <2>1. ASSUME NEW c \in Cell \ spare
          PROVE  c \in OnStack <=> c \notin A \cup B
      BY <1>3, <1>4 DEF OnStack, Owns
    <2>2. OnStack \subseteq Cell \ spare
      BY DEF OnStack
    <2> QED
      BY <1>6, <1>7, <2>1, <2>2
  <1>9. IsFiniteSet(Cell \ spare) /\ IsFiniteSet(OnStack)
        /\ IsFiniteSet(A) /\ IsFiniteSet(B)
    <2>1. IsFiniteSet(Cell \ spare)
      BY PoolFacts, FS_Difference
    <2>2. OnStack \subseteq Cell
      BY DEF OnStack
    <2> QED
      BY <1>6, <2>1, <2>2, PoolFacts, FS_Subset
  <1>10. Cardinality(B) = Cardinality(X)
    <2> DEFINE f == [x \in X |-> x[2]]
    <2>1. \A x \in X : \E t \in Thread :
             x = <<t, pTh[t].top[1]>> /\ pTh[t].pc = "shrink"
      BY <1>5
    <2>2. \A x \in X : f[x] \in B
      BY <1>4, <2>1
    <2>3. ASSUME NEW x \in X, NEW y \in X, f[x] = f[y]
          PROVE  x = y
      <3>1. PICK t \in Thread : /\ x = <<t, pTh[t].top[1]>>
                                /\ pTh[t].pc = "shrink"
        BY <2>1
      <3>2. PICK u \in Thread : /\ y = <<u, pTh[u].top[1]>>
                                /\ pTh[u].pc = "shrink"
        BY <2>1
      <3>3. pTh[t].top[1] = pTh[u].top[1] /\ pTh[t].top[1] \in Cell
        BY <2>3, <3>1, <3>2 DEF PoolInv, PoolCells
      <3>4. t = u
        BY <1>6, <3>1, <3>2, <3>3 DEF Owns
      <3> QED
        BY <3>1, <3>2, <3>4
    <2>4. ASSUME NEW c \in B
          PROVE  \E x \in X : f[x] = c
      <3>1. PICK t \in Thread : pTh[t].pc = "shrink" /\ c = pTh[t].top[1]
        BY <1>4
      <3>2. PICK x \in X : x = <<t, pTh[t].top[1]>>
        BY <1>5, <3>1
      <3> QED
        BY <3>1, <3>2
    <2>5. f \in [X -> B]
      BY <2>2
    <2> HIDE DEF f
    <2>6. f \in Injection(X, B) /\ f \in Surjection(X, B)
      BY <2>3, <2>4, <2>5 DEF Injection, IsInjective, Surjection
    <2> QED
      BY <1>9, <2>6, FS_Injection
  <1>11. PICK a \in Nat, b \in Nat, o \in Nat :
            /\ a = Cardinality(A) /\ b = Cardinality(B)
            /\ o = Cardinality(OnStack)
    BY <1>9, FS_CardinalityType
  <1>12. Cardinality(A \cup B) = a + b /\ IsFiniteSet(A \cup B)
    <2>1. /\ IsFiniteSet(A \cup B)
          /\ Cardinality(A \cup B) = Cardinality(A) + Cardinality(B)
                                       - Cardinality(A \cap B)
      BY <1>9, FS_Union
    <2>2. Cardinality(A \cap B) = 0
      BY <1>7, FS_EmptySet
    <2> QED
      BY <1>11, <2>1, <2>2
  <1>13. Cardinality(Cell \ spare) = o + (a + b)
    <2>1. PICK C : C = A \cup B
      OBVIOUS
    <2>2. Cardinality(OnStack \cup C) = Cardinality(OnStack) + Cardinality(C)
                                          - Cardinality(OnStack \cap C)
      BY <1>9, <1>12, <2>1, FS_Union
    <2>3. Cardinality(OnStack \cap C) = 0
      BY <1>8, <2>1, FS_EmptySet
    <2>4. Cardinality(C) = a + b
      BY <1>12, <2>1
    <2>5. Cardinality(OnStack \cup C) = o + (a + b)
      BY <1>11, <2>2, <2>3, <2>4
    <2> QED
      BY <1>8, <2>1, <2>5
  <1>14. Cardinality(OnStack) + Cardinality(A) + Cardinality(X)
           = Cardinality(Cell \ spare)
    BY <1>10, <1>11, <1>13
  <1>15. Cardinality(Cell \ spare) \in Nat /\ A \subseteq Cell \ spare
    BY <1>6, <1>7, <1>9, FS_CardinalityType
  <1> QED
    BY <1>1, <1>2, <1>14, <1>15

(* An object is handed out, in one thread's lists or in one list of the     *)
(* stack.                                                                   *)
LEMMA PoolThen ==
    ASSUME PoolInv
    PROVE  P!TypeOK /\ P!OwnedOnce
  <1>1. P!OwnedOnce
    <2>1. P!Cardinality(P!Stacked) = Cardinality(OnStack)
      BY PoolStacked DEF P!Cardinality, Cardinality
    <2>2. P!Cardinality(P!Pushed) = Cardinality(P!Pushed)
      BY DEF P!Cardinality, Cardinality
    <2>3. P!Cardinality(P!Popped) = Cardinality(P!Popped)
      BY DEF P!Cardinality, Cardinality
    <2>4. PICK k : k = P!Cardinality(P!Stacked) + P!Cardinality(P!Pushed)
                         + P!Cardinality(P!Popped)
      OBVIOUS
    <2>5. k = Cardinality(Cell \ spare)
      BY <2>1, <2>2, <2>3, <2>4, PoolCellsInUse
    <2>6. made = held + InPools(local) + NODECOUNT * k
      BY <2>5 DEF PoolInv, PoolSum
    <2>7. P!Stacked \cap spare = {}
      BY PoolStacked DEF OnStack
    <2>8. \A c \in P!Stacked \cup P!Pushed : list[c] = NODECOUNT
      BY PoolStacked, PoolCellsInUse DEF PoolInv, PoolLists, OnStack
    <2>9. \A t \in Thread : local[t].msize = local[t].top
      BY DEF PoolInv, PoolLists
    <2> QED
      BY <2>4, <2>6, <2>7, <2>8, <2>9 DEF P!OwnedOnce, InPools
  <1>2. held \in 0 .. MaxMade
    <2>1. \A t \in Thread : local[t].top \in Nat /\ local[t].freeTop \in Nat
      BY PoolLocals, PoolFacts
    <2>2. PICK i \in Nat : i = InPools(local)
      BY <2>1, PoolsNat
    <2>3. PICK x \in Nat : x = NODECOUNT * Cardinality(Cell \ spare)
      BY PoolCellsInUse, PoolFacts, Products
    <2>4. made = held + i + x /\ held \in Nat /\ made \in 0 .. MaxMade
      BY <2>2, <2>3 DEF PoolInv, PoolSum, PoolTypes
    <2> QED
      BY <2>4, PoolFacts
  <1>3. \A t \in Thread :
           local[t] \in [msize : 0 .. NODECOUNT, top : 0 .. NODECOUNT,
                         freeTop : 0 .. NODECOUNT]
    BY PoolFacts DEF PoolInv, PoolTypes, PoolLocal
  <1>4. P!TypeOK
    BY <1>2, <1>3 DEF PoolInv, PoolTypes, P!TypeOK, Entry
  <1> QED
    BY <1>1, <1>4

-----------------------------------------------------------------------------
(* The values of exclusive or for numbers up to n. *)
Xors(n) ==
    {f \in [(0 .. n) \X (0 .. n) -> Nat] :
        \A a, b \in 0 .. n :
            f[<<a, b>>] = IF a = 0 /\ b = 0 THEN 0
                          ELSE ((a + b) % 2) + 2 * f[<<a \div 2, b \div 2>>]}

LEMMA Halves ==
    ASSUME NEW a \in Nat
    PROVE  /\ a \div 2 \in Nat /\ a \div 2 <= a /\ (a # 0 => a \div 2 < a)
           /\ a % 2 \in {0, 1} /\ a = 2 * (a \div 2) + (a % 2)
  OBVIOUS

(* Of the pairs in a set, one has the smallest sum. *)
LEMMA LeastPair ==
    ASSUME NEW Z \in SUBSET (Nat \X Nat), Z # {}
    PROVE  \E c, d \in Nat :
              /\ <<c, d>> \in Z
              /\ \A u, w \in Nat : u + w < c + d => <<u, w>> \notin Z
  <1> DEFINE S == {p[1] + p[2] : p \in Z}
  <1>1. S \in SUBSET Nat /\ S # {}
    OBVIOUS
  <1>2. PICK s \in S : \A r \in S : s <= r
    <2> HIDE DEF S
    <2> QED
      BY <1>1, Least
  <1>3. PICK p \in Z : s = p[1] + p[2]
    OBVIOUS
  <1>4. PICK c \in Nat, d \in Nat : p = <<c, d>>
    OBVIOUS
  <1>5. ASSUME NEW u \in Nat, NEW w \in Nat, u + w < c + d, <<u, w>> \in Z
        PROVE  FALSE
    <2>1. u + w \in S
      <3>1. <<u, w>>[1] = u /\ <<u, w>>[2] = w
        OBVIOUS
      <3> QED
        BY <1>5, <3>1
    <2>2. s = c + d
      BY <1>3, <1>4
    <2> HIDE DEF S
    <2> QED
      BY <1>2, <1>5, <2>1, <2>2
  <1> QED
    BY <1>4, <1>5

(* There is one for each n, and they agree where two are defined.           *)
LEMMA XorsExist ==
    ASSUME NEW n \in Nat
    PROVE  Xors(n) # {}
  <1> DEFINE Z == {m \in 0 .. n : Xors(m) # {}}
  <1>1. 0 \in Z
    <2> DEFINE f == [x \in (0 .. 0) \X (0 .. 0) |-> 0]
    <2>1. f \in [(0 .. 0) \X (0 .. 0) -> Nat]
      OBVIOUS
    <2>2. \A a, b \in 0 .. 0 : a = 0 /\ b = 0 /\ f[<<a, b>>] = 0
      OBVIOUS
    <2>3. f \in Xors(0)
      <3> HIDE DEF f
      <3> QED
        BY <2>1, <2>2 DEF Xors
    <2> QED
      BY <2>3
  <1>2. ASSUME NEW m \in 0 .. n, m < n, m \in Z
        PROVE  m + 1 \in Z
    <2>1. PICK f \in Xors(m) : TRUE
      BY <1>2
    <2>2. /\ f \in [(0 .. m) \X (0 .. m) -> Nat]
          /\ \A a, b \in 0 .. m :
               f[<<a, b>>] = IF a = 0 /\ b = 0 THEN 0
                             ELSE ((a + b) % 2) + 2 * f[<<a \div 2, b \div 2>>]
      BY <2>1 DEF Xors
    <2> DEFINE v(a, b) == IF a = 0 /\ b = 0 THEN 0
                          ELSE ((a + b) % 2) + 2 * f[<<a \div 2, b \div 2>>]
               g == [x \in (0 .. m + 1) \X (0 .. m + 1) |-> v(x[1], x[2])]
    <2>3. ASSUME NEW a \in 0 .. m + 1, NEW b \in 0 .. m + 1, ~(a = 0 /\ b = 0)
          PROVE  a \div 2 \in 0 .. m /\ b \div 2 \in 0 .. m
      BY <2>3, Halves
    <2>4. ASSUME NEW a \in 0 .. m + 1, NEW b \in 0 .. m + 1
          PROVE  g[<<a, b>>] = v(a, b) /\ v(a, b) \in Nat
      <3>1. g[<<a, b>>] = v(a, b)
        OBVIOUS
      <3>2. CASE a = 0 /\ b = 0
        BY <3>1, <3>2
      <3>3. CASE ~(a = 0 /\ b = 0)
        <4>1. f[<<a \div 2, b \div 2>>] \in Nat
          BY <2>2, <2>3, <3>3
        <4>2. (a + b) % 2 \in Nat
          BY Halves
        <4>3. v(a, b) \in Nat
          BY <3>3, <4>1, <4>2
        <4> QED
          BY <3>1, <4>3
      <3> QED
        BY <3>2, <3>3
    <2>5. g \in [(0 .. m + 1) \X (0 .. m + 1) -> Nat]
      BY <2>4
    <2>6. ASSUME NEW a \in 0 .. m, NEW b \in 0 .. m
          PROVE  g[<<a, b>>] = f[<<a, b>>]
      BY <2>2, <2>4
    <2>7. ASSUME NEW a \in 0 .. m + 1, NEW b \in 0 .. m + 1
          PROVE  g[<<a, b>>] =
                   IF a = 0 /\ b = 0 THEN 0
                   ELSE ((a + b) % 2) + 2 * g[<<a \div 2, b \div 2>>]
      <3> HIDE DEF g
      <3> QED
        BY <2>3, <2>4, <2>6, <2>7
    <2>8. g \in Xors(m + 1)
      <3> HIDE DEF g
      <3> QED
        BY <2>5, <2>7 DEF Xors
    <2>9. m + 1 \in 0 .. n
      BY <1>2
    <2> HIDE DEF g
    <2> QED
      BY <2>8, <2>9
  <1>3. n \in Z
    <2> HIDE DEF Z
    <2> QED
      BY <1>1, <1>2, Induction
  <1> QED
    BY <1>3

LEMMA XorsAgree ==
    ASSUME NEW n \in Nat, NEW m \in Nat, NEW f \in Xors(n), NEW g \in Xors(m),
           NEW a \in Nat, NEW b \in Nat, a <= n, b <= n, a <= m, b <= m
    PROVE  f[<<a, b>>] = g[<<a, b>>]
  <1> DEFINE W(x, y) == /\ x <= n /\ y <= n /\ x <= m /\ y <= m
                        /\ f[<<x, y>>] # g[<<x, y>>]
             Z == {p \in Nat \X Nat : W(p[1], p[2])}
  <1> SUFFICES ASSUME f[<<a, b>>] # g[<<a, b>>] PROVE FALSE
    OBVIOUS
  <1>1. <<a, b>> \in Z
    OBVIOUS
  <1>2. PICK x \in Nat, y \in Nat :
             /\ <<x, y>> \in Z
             /\ \A u, w \in Nat : u + w < x + y => <<u, w>> \notin Z
    <2>1. Z \in SUBSET (Nat \X Nat) /\ Z # {}
      BY <1>1
    <2> HIDE DEF Z
    <2> QED
      BY <2>1, LeastPair
  <1>3. W(x, y)
    BY <1>2
  <1>4. /\ f[<<x, y>>] = IF x = 0 /\ y = 0 THEN 0
                         ELSE ((x + y) % 2) + 2 * f[<<x \div 2, y \div 2>>]
        /\ g[<<x, y>>] = IF x = 0 /\ y = 0 THEN 0
                         ELSE ((x + y) % 2) + 2 * g[<<x \div 2, y \div 2>>]
    <2>1. x \in 0 .. n /\ y \in 0 .. n /\ x \in 0 .. m /\ y \in 0 .. m
      BY <1>3
    <2> QED
      BY <2>1 DEF Xors
  <1>5. PICK u \in Nat, w \in Nat : u = x \div 2 /\ w = y \div 2
    BY Halves
  <1>6. ~(x = 0 /\ y = 0) /\ f[<<u, w>>] # g[<<u, w>>]
    BY <1>3, <1>4, <1>5
  <1>7. u <= x /\ w <= y /\ u + w < x + y
    BY <1>5, <1>6, Halves
  <1>8. W(u, w)
    BY <1>3, <1>6, <1>7
  <1>9. <<u, w>> \in Z
    BY <1>8
  <1> QED
    BY <1>2, <1>7, <1>9

(* So exclusive or is what its definition says. *)
LEMMA XorDef ==
    ASSUME NEW a \in Nat, NEW b \in Nat
    PROVE  /\ K!Xor[<<a, b>>] \in Nat
           /\ K!Xor[<<a, b>>] =
                IF a = 0 /\ b = 0 THEN 0
                ELSE ((a + b) % 2) + 2 * K!Xor[<<a \div 2, b \div 2>>]
  <1> DEFINE Fun(n) == CHOOSE f : f \in Xors(n)
             X == [p \in Nat \X Nat |-> Fun(p[1] + p[2])[p]]
             D(f) == f = [p \in Nat \X Nat |->
                           IF p = <<0, 0>> THEN 0
                           ELSE ((p[1] + p[2]) % 2)
                                + 2 * f[<<p[1] \div 2, p[2] \div 2>>]]
  <1>1. ASSUME NEW n \in Nat PROVE Fun(n) \in Xors(n)
    BY XorsExist
  <1> HIDE DEF Fun
  <1>2. ASSUME NEW c \in Nat, NEW d \in Nat
        PROVE  /\ X[<<c, d>>] \in Nat
               /\ X[<<c, d>>] = IF c = 0 /\ d = 0 THEN 0
                               ELSE ((c + d) % 2)
                                    + 2 * X[<<c \div 2, d \div 2>>]
    <2>1. X[<<c, d>>] = Fun(c + d)[<<c, d>>]
      OBVIOUS
    <2>2. c \in 0 .. c + d /\ d \in 0 .. c + d /\ c + d \in Nat
      OBVIOUS
    <2>3. Fun(c + d) \in Xors(c + d)
      BY <1>1, <2>2
    <2>4. /\ Fun(c + d)[<<c, d>>] \in Nat
          /\ Fun(c + d)[<<c, d>>] =
               IF c = 0 /\ d = 0 THEN 0
               ELSE ((c + d) % 2) + 2 * Fun(c + d)[<<c \div 2, d \div 2>>]
      BY <2>2, <2>3 DEF Xors
    <2>5. PICK u \in Nat, w \in Nat : /\ u = c \div 2 /\ w = d \div 2
                                      /\ u <= c /\ w <= d
      BY Halves
    <2>6. X[<<u, w>>] = Fun(u + w)[<<u, w>>]
      OBVIOUS
    <2>7. u + w \in Nat /\ Fun(u + w) \in Xors(u + w)
      BY <1>1
    <2>8. /\ u <= u + w /\ w <= u + w /\ u <= c + d /\ w <= c + d
      BY <2>5
    <2>9. Fun(u + w)[<<u, w>>] = Fun(c + d)[<<u, w>>]
      BY <2>2, <2>3, <2>7, <2>8, XorsAgree
    <2> HIDE DEF X
    <2> QED
      BY <2>1, <2>4, <2>5, <2>6, <2>9
  <1>3. D(X)
    <2>1. X = [p \in Nat \X Nat |-> X[p]]
      OBVIOUS
    <2>2. ASSUME NEW p \in Nat \X Nat
          PROVE  X[p] = IF p = <<0, 0>> THEN 0
                        ELSE ((p[1] + p[2]) % 2)
                             + 2 * X[<<p[1] \div 2, p[2] \div 2>>]
      <3>1. PICK c \in Nat, d \in Nat : p = <<c, d>>
        OBVIOUS
      <3>2. p[1] = c /\ p[2] = d /\ (p = <<0, 0>> <=> c = 0 /\ d = 0)
        BY <3>1
      <3> HIDE DEF X
      <3> QED
        BY <1>2, <3>1, <3>2
    <2> HIDE DEF X
    <2> QED
      BY <2>1, <2>2
  <1>4. D(K!Xor)
    <2>1. K!Xor = CHOOSE f : D(f)
      BY DEF K!Xor
    <2>2. \E f : D(f)
      BY <1>3
    <2> HIDE DEF D
    <2> QED
      BY <2>1, <2>2
  <1>5. \A p \in Nat \X Nat :
           K!Xor[p] = IF p = <<0, 0>> THEN 0
                      ELSE ((p[1] + p[2]) % 2)
                           + 2 * K!Xor[<<p[1] \div 2, p[2] \div 2>>]
    BY <1>4
  <1>6. \A c, d \in Nat :
           K!Xor[<<c, d>>] = IF c = 0 /\ d = 0 THEN 0
                             ELSE ((c + d) % 2)
                                  + 2 * K!Xor[<<c \div 2, d \div 2>>]
    BY <1>5
  <1>7. K!Xor[<<a, b>>] \in Nat
    <2> DEFINE Z == {p \in Nat \X Nat : K!Xor[p] \notin Nat}
    <2> SUFFICES ASSUME K!Xor[<<a, b>>] \notin Nat PROVE FALSE
      OBVIOUS
    <2>1. <<a, b>> \in Z
      OBVIOUS
    <2>2. PICK c \in Nat, d \in Nat :
               /\ <<c, d>> \in Z
               /\ \A u, w \in Nat : u + w < c + d => <<u, w>> \notin Z
      <3>1. Z \in SUBSET (Nat \X Nat) /\ Z # {}
        BY <2>1
      <3> HIDE DEF Z
      <3> QED
        BY <3>1, LeastPair
    <2>3. K!Xor[<<c, d>>] \notin Nat
      BY <2>2
    <2>4. PICK u \in Nat, w \in Nat : u = c \div 2 /\ w = d \div 2
      BY Halves
    <2>5. ~(c = 0 /\ d = 0)
      BY <1>6, <2>3
    <2>6. K!Xor[<<u, w>>] \in Nat
      <3>1. u + w < c + d
        BY <2>4, <2>5, Halves
      <3>2. <<u, w>> \notin Z
        BY <2>2, <3>1
      <3> QED
        BY <3>2
    <2>7. (c + d) % 2 \in Nat
      BY Halves
    <2>8. K!Xor[<<c, d>>] = ((c + d) % 2) + 2 * K!Xor[<<u, w>>]
      BY <1>6, <2>4, <2>5
    <2> QED
      BY <2>3, <2>6, <2>7, <2>8
  <1> QED
    BY <1>6, <1>7

(* Twice the same, and it is gone. *)
LEMMA XorTwice ==
    ASSUME NEW a \in Nat, NEW b \in Nat
    PROVE  K!Xor[<<K!Xor[<<a, b>>], b>>] = a
  <1> DEFINE Twice(c, d) == K!Xor[<<K!Xor[<<c, d>>], d>>]
             Z == {p \in Nat \X Nat : Twice(p[1], p[2]) # p[1]}
  <1> SUFFICES ASSUME Twice(a, b) # a PROVE FALSE
    OBVIOUS
  <1>1. <<a, b>> \in Z
    OBVIOUS
  <1>2. PICK c \in Nat, d \in Nat :
             /\ <<c, d>> \in Z
             /\ \A u, w \in Nat : u + w < c + d => <<u, w>> \notin Z
    <2>1. Z \in SUBSET (Nat \X Nat) /\ Z # {}
      BY <1>1
    <2> HIDE DEF Z
    <2> QED
      BY <2>1, LeastPair
  <1>3. Twice(c, d) # c
    BY <1>2
  <1>4. PICK u \in Nat, w \in Nat : u = c \div 2 /\ w = d \div 2
    BY Halves
  <1>5. PICK y \in Nat : y = K!Xor[<<u, w>>]
    BY XorDef
  <1>6. ~(c = 0 /\ d = 0)
    <2>1. K!Xor[<<0, 0>>] = 0
      BY XorDef
    <2> QED
      BY <1>3, <2>1
  <1>7. K!Xor[<<y, w>>] = u
    <2>1. u + w < c + d
      BY <1>4, <1>6, Halves
    <2>2. <<u, w>> \notin Z
      BY <1>2, <2>1
    <2>3. Twice(u, w) = u
      BY <2>2
    <2> QED
      BY <1>5, <2>3
  <1>8. PICK e \in {0, 1} : e = (c + d) % 2
    BY Halves
  <1>9. PICK x \in Nat : x = K!Xor[<<c, d>>] /\ x = e + 2 * y
    <2>1. K!Xor[<<c, d>>] = e + 2 * y
      BY <1>4, <1>5, <1>6, <1>8, XorDef
    <2> QED
      BY <2>1
  <1>10. x \div 2 = y
    BY <1>9
  <1>11. c = ((x + d) % 2) + 2 * u
    BY <1>4, <1>8, <1>9
  <1>12. K!Xor[<<x, d>>] = IF x = 0 /\ d = 0 THEN 0
                           ELSE ((x + d) % 2) + 2 * u
    <2>1. K!Xor[<<x, d>>] =
            IF x = 0 /\ d = 0 THEN 0
            ELSE ((x + d) % 2) + 2 * K!Xor[<<x \div 2, d \div 2>>]
      BY XorDef
    <2> QED
      BY <1>4, <1>7, <1>10, <2>1
  <1>13. CASE x = 0 /\ d = 0
    <2>1. y = 0 /\ w = 0
      BY <1>4, <1>9, <1>13
    <2>2. u = 0
      <3>1. K!Xor[<<0, 0>>] = 0
        BY XorDef
      <3> QED
        BY <1>7, <2>1, <3>1
    <2>3. c = 0
      BY <1>11, <1>13, <2>2
    <2> QED
      BY <1>6, <1>13, <2>3
  <1>14. CASE ~(x = 0 /\ d = 0)
    BY <1>3, <1>9, <1>11, <1>12, <1>14
  <1> QED
    BY <1>13, <1>14

(* A function stays where each step keeps it. *)
LEMMA Stays ==
    ASSUME NEW n \in Nat, NEW V, NEW h, h[0] \in V,
           \A i \in 1 .. n : h[i - 1] \in V => h[i] \in V
    PROVE  \A i \in 0 .. n : h[i] \in V
  <1> TAKE k \in 0 .. n
  <1> DEFINE Z == {i \in 0 .. n : h[i] \in V}
  <1>1. 0 \in Z
    OBVIOUS
  <1>2. ASSUME NEW i \in 0 .. k, i < k, i \in Z
        PROVE  i + 1 \in Z
    <2>1. i + 1 \in 1 .. n /\ (i + 1) - 1 = i
      BY <1>2
    <2> QED
      BY <1>2, <2>1
  <1>3. k \in Z
    <2> HIDE DEF Z
    <2> QED
      BY <1>1, <1>2, Induction
  <1> QED
    BY <1>3

(* What LibraryAssumption says of this part.                                *)
LEMMA RadixNat == Radix \in Nat \ {0} /\ STICKYKEY \in Nat
  BY LibraryAssumption

(* Sums and mixed bytes are numbers, and a byte mixed twice is itself.      *)
LEMMA SumNat ==
    ASSUME NEW n \in Nat, NEW p \in [1 .. n -> Nat]
    PROVE  K!Sum(p) \in Nat
  <1> DEFINE D(f) ==
        f = [i \in 0 .. n |-> IF i = 0 THEN 0 ELSE f[i - 1] + p[i]]
  <1>1. Len(p) = n
    OBVIOUS
  <1>2. \E f : D(f)
    <2> DEFINE G == [i \in 1 .. n |-> [x \in Nat |-> x + p[i]]]
    <2>1. StepsIn(G, n, Nat)
      BY DEF StepsIn
    <2> HIDE DEF G
    <2>2. PICK f : RunOf(f, G, n, 0, Nat)
      BY <2>1, Recursion
    <2>3. ASSUME NEW i \in 0 .. n
          PROVE  f[i] = IF i = 0 THEN 0 ELSE f[i - 1] + p[i]
      <3>1. CASE i = 0
        BY <2>2, <3>1 DEF RunOf
      <3>2. CASE i # 0
        <4>1. i \in 1 .. n /\ i - 1 \in 0 .. n /\ f[i - 1] \in Nat
          BY <2>2, <3>2 DEF RunOf
        <4>2. G[i][f[i - 1]] = f[i - 1] + p[i]
          BY <4>1 DEF G
        <4> QED
          BY <2>2, <3>2, <4>1, <4>2 DEF RunOf
      <3> QED
        BY <3>1, <3>2
    <2>4. D(f)
      BY <2>2, <2>3 DEF RunOf
    <2> HIDE DEF D
    <2> QED
      BY <2>4
  <1>3. PICK s : D(s) /\ K!Sum(p) = s[n] % Radix
    <2> DEFINE s == CHOOSE f : D(f)
    <2>1. K!Sum(p) = s[n] % Radix
      BY <1>1 DEF K!Sum
    <2> HIDE DEF D
    <2>2. D(s)
      BY <1>2
    <2> QED
      BY <2>1, <2>2
  <1>4. \A i \in 0 .. n : s[i] \in Nat
    <2>1. s[0] = 0 /\ \A i \in 1 .. n : s[i] = s[i - 1] + p[i]
      BY <1>3
    <2>2. \A i \in 1 .. n : s[i - 1] \in Nat => s[i] \in Nat
      BY <2>1
    <2>3. s[0] \in Nat
      BY <2>1
    <2> HIDE DEF D
    <2> QED
      BY <2>2, <2>3, Stays
  <1> QED
    BY <1>3, <1>4, RadixNat

LEMMA MixedNat ==
    ASSUME NEW a \in Nat, NEW m \in Nat
    PROVE  K!Mixed(a, m) \in Nat /\ K!Mixed(K!Mixed(a, m), m) = a
  <1>1. m % Radix \in Nat
    BY RadixNat
  <1> QED
    BY <1>1, XorDef, XorTwice DEF K!Mixed

(* One round: each byte mixed with a key, its place and the result before. *)
Round(f, n, s, key) ==
    f = [i \in 0 .. n |->
           IF i = 0 THEN 0 ELSE K!Mixed(s[i], key + i + f[i - 1])]

(* There is such a round, and each of its bytes gives back what it came     *)
(* from.                                                                    *)
LEMMA RoundExists ==
    ASSUME NEW n \in Nat, NEW s, \A i \in 1 .. n : s[i] \in Nat,
           NEW key \in Nat
    PROVE  \E f : Round(f, n, s, key)
  <1> DEFINE G == [i \in 1 .. n |->
                [x \in Nat |-> K!Mixed(s[i], key + i + x)]]
  <1>1. StepsIn(G, n, Nat)
    <2>1. ASSUME NEW i \in 1 .. n, NEW x \in Nat
          PROVE  K!Mixed(s[i], key + i + x) \in Nat
      <3>1. s[i] \in Nat /\ key + i + x \in Nat
        OBVIOUS
      <3> QED
        BY <3>1, MixedNat
    <2> QED
      BY <2>1 DEF StepsIn
  <1> HIDE DEF G
  <1>2. PICK f : RunOf(f, G, n, 0, Nat)
    BY <1>1, Recursion
  <1>3. ASSUME NEW i \in 0 .. n
        PROVE  f[i] = IF i = 0 THEN 0 ELSE K!Mixed(s[i], key + i + f[i - 1])
    <2>1. CASE i = 0
      BY <1>2, <2>1 DEF RunOf
    <2>2. CASE i # 0
      <3>1. i \in 1 .. n /\ i - 1 \in 0 .. n /\ f[i - 1] \in Nat
        BY <1>2, <2>2 DEF RunOf
      <3>2. G[i][f[i - 1]] = K!Mixed(s[i], key + i + f[i - 1])
        BY <3>1 DEF G
      <3> QED
        BY <1>2, <2>2, <3>1, <3>2 DEF RunOf
    <2> QED
      BY <2>1, <2>2
  <1>4. Round(f, n, s, key)
    BY <1>2, <1>3 DEF Round, RunOf
  <1> QED
    BY <1>4

LEMMA RoundRuns ==
    ASSUME NEW n \in Nat, NEW s, \A i \in 1 .. n : s[i] \in Nat,
           NEW key \in Nat,
           NEW f, Round(f, n, s, key)
    PROVE  /\ f[0] = 0 /\ \A i \in 0 .. n : f[i] \in Nat
           /\ \A i \in 1 .. n : s[i] = K!Mixed(f[i], key + i + f[i - 1])
  <1>1. /\ f[0] = 0
        /\ \A i \in 1 .. n : f[i] = K!Mixed(s[i], key + i + f[i - 1])
    BY DEF Round
  <1>2. \A i \in 1 .. n : f[i - 1] \in Nat => f[i] \in Nat
    <2> TAKE i \in 1 .. n
    <2> HAVE f[i - 1] \in Nat
    <2>1. s[i] \in Nat /\ key + i + f[i - 1] \in Nat
      OBVIOUS
    <2> QED
      BY <1>1, <2>1, MixedNat
  <1>3. \A i \in 0 .. n : f[i] \in Nat
    <2>1. f[0] \in Nat
      BY <1>1
    <2> QED
      BY <1>2, <2>1, Stays
  <1>4. ASSUME NEW i \in 1 .. n
        PROVE  s[i] = K!Mixed(f[i], key + i + f[i - 1])
    <2>1. i \in Nat /\ i - 1 \in 0 .. n
      OBVIOUS
    <2>2. f[i - 1] \in Nat
      BY <1>3, <2>1
    <2>3. s[i] \in Nat /\ key + i + f[i - 1] \in Nat
      BY <2>1, <2>2
    <2>4. PICK a \in Nat, m \in Nat :
               a = s[i] /\ m = key + i + f[i - 1]
      BY <2>3
    <2>5. f[i] = K!Mixed(a, m)
      BY <1>1, <2>4
    <2>6. K!Mixed(K!Mixed(a, m), m) = a
      BY MixedNat
    <2> QED
      BY <2>4, <2>5, <2>6
  <1> QED
    BY <1>1, <1>3, <1>4

(* Whoever has the header and the encoded bytes gets the payload back. *)
LEMMA DecodeInverts ==
    ASSUME NEW n \in Nat, NEW p \in [1 .. n -> Nat], NEW key \in Nat
    PROVE  /\ K!Decoded([len |-> n, key |-> key], K!Cipher(p, key)) = p
           /\ Len(K!Cipher(p, key)) = n + 1
  <1> DEFINE plain == <<K!Sum(p)>> \o p
             m == Len(plain)
  <1>1. /\ m = n + 1 /\ plain[1] = K!Sum(p) /\ m \in Nat
        /\ \A i \in 1 .. n : plain[i + 1] = p[i]
        /\ \A i \in 1 .. m : plain[i] \in Nat
    <2>1. K!Sum(p) \in Nat
      BY SumNat
    <2>2. p \in Seq(Nat) /\ Len(p) = n
      OBVIOUS
    <2>3. <<K!Sum(p)>> \in Seq(Nat) /\ Len(<<K!Sum(p)>>) = 1
      BY <2>1
    <2>4. m = n + 1 /\ plain \in Seq(Nat)
      BY <2>2, <2>3
    <2>5. plain[1] = K!Sum(p)
      BY <2>2, <2>3
    <2>6. \A i \in 1 .. n : plain[i + 1] = p[i]
      BY <2>2, <2>3
    <2>7. \A i \in 1 .. m : plain[i] \in Nat
      <3> HIDE DEF plain
      <3> QED
        BY <2>4
    <2> QED
      BY <2>4, <2>5, <2>6, <2>7
  <1> DEFINE O(f) == Round(f, m, plain, key)
             one == CHOOSE f : O(f)
             T(f) == Round(f, m, one, STICKYKEY)
             two == CHOOSE f : T(f)
             c == [i \in 1 .. m |-> two[i]]
  <1>2. K!Cipher(p, key) = c
    BY DEF K!Cipher, Round
  <1> HIDE DEF m, plain
  <1>3. /\ \A i \in 0 .. m : one[i] \in Nat
        /\ one[0] = 0
        /\ \A i \in 1 .. m : plain[i] = K!Mixed(one[i], key + i + one[i - 1])
    <2>1. O(one)
      <3>1. \E f : O(f)
        BY <1>1, RoundExists
      <3> HIDE DEF O
      <3> QED
        BY <3>1
    <2> HIDE DEF one
    <2>2. m \in Nat /\ \A i \in 1 .. m : plain[i] \in Nat
      BY <1>1
    <2> QED
      BY <2>1, <2>2, RoundRuns
  <1> HIDE DEF one
  <1>4. /\ two[0] = 0
        /\ \A i \in 1 .. m :
              one[i] = K!Mixed(two[i], STICKYKEY + i + two[i - 1])
    <2>1. \A i \in 1 .. m : one[i] \in Nat
      BY <1>1, <1>3
    <2>2. T(two)
      <3>1. \E f : T(f)
        BY <1>1, <2>1, RadixNat, RoundExists
      <3> HIDE DEF T
      <3> QED
        BY <3>1
    <2> HIDE DEF two
    <2> QED
      BY <1>1, <2>1, <2>2, RadixNat, RoundRuns
  <1> HIDE DEF two
  <1> DEFINE h == [len |-> n, key |-> key]
             done(i) == K!Mixed(c[i], STICKYKEY + i
                                     + (IF i = 1 THEN 0 ELSE c[i - 1]))
             clear(i) == K!Mixed(done(i), h.key + i
                                     + (IF i = 1 THEN 0 ELSE done(i - 1)))
             q == [i \in 1 .. h.len |-> clear(i + 1)]
  <1>5. K!Decoded(h, c) =
          IF Len(c) = h.len + 1 /\ K!Sum(q) = clear(1) THEN q ELSE K!Invalid
    BY DEF K!Decoded
  <1>6. ASSUME NEW i \in 1 .. m
        PROVE  done(i) = one[i]
    <2>1. c[i] = two[i]
      OBVIOUS
    <2>2. (IF i = 1 THEN 0 ELSE c[i - 1]) = two[i - 1]
      BY <1>1, <1>4
    <2> QED
      BY <1>4, <2>1, <2>2
  <1>7. ASSUME NEW i \in 1 .. m
        PROVE  clear(i) = plain[i]
    <2>1. done(i) = one[i] /\ (i # 1 => done(i - 1) = one[i - 1])
      <3> HIDE DEF done
      <3>1. i # 1 => i - 1 \in 1 .. m
        BY <1>1
      <3> QED
        BY <1>6, <3>1
    <2> HIDE DEF done
    <2>2. (IF i = 1 THEN 0 ELSE done(i - 1)) = one[i - 1]
      BY <1>3, <2>1
    <2> QED
      BY <1>3, <2>1, <2>2
  <1> HIDE DEF clear, done
  <1>8. q = p
    <2>1. ASSUME NEW i \in 1 .. n PROVE clear(i + 1) = p[i]
      <3>1. i + 1 \in 1 .. m
        BY <1>1
      <3> QED
        BY <1>1, <1>7, <3>1
    <2> QED
      BY <2>1
  <1>9. clear(1) = K!Sum(p)
    BY <1>1, <1>7
  <1>10. Len(c) = n + 1
    BY <1>1
  <1> HIDE DEF q, c
  <1> QED
    BY <1>2, <1>5, <1>8, <1>9, <1>10

-----------------------------------------------------------------------------
PacketTypes ==
    /\ usage \in Nat /\ encoded \in BOOLEAN /\ headed \in BOOLEAN
    /\ header \in [len : 0 .. MaxPayload, key : K!Byte]
    /\ payload \in K!Payload
    /\ todo \subseteq Receiver /\ sending \subseteq Receiver
    /\ queued \subseteq Receiver /\ lives \in 0 .. MaxLives

(* A session is to be sent to, or being sent to, or has the packet; whoever *)
(* has it counts, and its maker until every send is made.                   *)
PacketUse ==
    /\ \A r, s \in sending : r = s
    /\ todo \cap sending = {} /\ todo \cap queued = {}
    /\ sending \cap queued = {}
    /\ usage \in {Cardinality(queued) + Cardinality(sending),
                  Cardinality(queued) + Cardinality(sending) + 1}
    /\ todo \cup sending # {} =>
          usage = Cardinality(queued) + Cardinality(sending) + 1

(* What a packet in use holds. *)
PacketBody ==
    /\ usage > 0 => headed = encoded
    /\ usage > 0 /\ encoded => /\ header.len = Len(payload)
                               /\ body = K!Cipher(payload, header.key)
    /\ usage > 0 /\ ~encoded => body = payload
    /\ queued # {} => encoded

PacketInv == PacketTypes /\ PacketUse /\ PacketBody

(* The numbers of sessions that have the packet.                            *)
LEMMA PacketCounts ==
    ASSUME PacketTypes
    PROVE  /\ Cardinality(queued) \in Nat /\ Cardinality(sending) \in Nat
           /\ Cardinality(queued) = 0 <=> queued = {}
           /\ Cardinality(sending) = 0 <=> sending = {}
           /\ \A r \in Receiver :
                 /\ Cardinality({r}) = 1
                 /\ r \in queued =>
                       Cardinality(queued \ {r}) = Cardinality(queued) - 1
                 /\ r \notin queued =>
                       Cardinality(queued \cup {r}) = Cardinality(queued) + 1
  <1>1. IsFiniteSet(Receiver)
    BY LibraryAssumption
  <1>2. IsFiniteSet(queued) /\ IsFiniteSet(sending)
    BY <1>1, FS_Subset DEF PacketTypes
  <1>3. Cardinality(queued) \in Nat /\ Cardinality(sending) \in Nat
    BY <1>2, FS_CardinalityType
  <1>4. /\ Cardinality(queued) = 0 <=> queued = {}
        /\ Cardinality(sending) = 0 <=> sending = {}
    BY <1>2, FS_EmptySet
  <1>5. ASSUME NEW r \in Receiver
        PROVE  /\ Cardinality({r}) = 1
               /\ r \in queued =>
                     Cardinality(queued \ {r}) = Cardinality(queued) - 1
               /\ r \notin queued =>
                     Cardinality(queued \cup {r}) = Cardinality(queued) + 1
    <2>1. Cardinality({r}) = 1
      BY FS_Singleton
    <2>2. r \in queued => Cardinality(queued \ {r}) = Cardinality(queued) - 1
      BY <1>2, FS_RemoveElement
    <2>3. r \notin queued =>
            Cardinality(queued \cup {r}) = Cardinality(queued) + 1
      BY <1>2, FS_AddElement
    <2> QED
      BY <2>1, <2>2, <2>3
  <1> QED
    BY <1>3, <1>4, <1>5

(* A payload is so many bytes. *)
LEMMA Payloads ==
    ASSUME NEW p \in K!Payload
    PROVE  /\ Len(p) \in 0 .. MaxPayload /\ p \in [1 .. Len(p) -> Nat]
           /\ Radix \in Nat \ {0} /\ MaxPayload \in Nat
  <1>1. Radix \in Nat \ {0} /\ MaxPayload \in Nat
    BY LibraryAssumption
  <1>2. PICK n \in 0 .. MaxPayload : p \in [1 .. n -> K!Byte]
    BY DEF K!Payload
  <1>3. K!Byte \subseteq Nat
    BY <1>1 DEF K!Byte
  <1>4. p \in [1 .. n -> Nat]
    BY <1>2, <1>3
  <1>5. Len(p) = n
    BY <1>1, <1>4
  <1> QED
    BY <1>1, <1>4, <1>5

(* At first the packet is in the pool.                                      *)
LEMMA PacketInit ==
    ASSUME K!Init
    PROVE  PacketInv
  <1>1. PacketTypes
    <2>1. Radix \in Nat \ {0} /\ MaxPayload \in Nat /\ MaxLives \in Nat
      BY LibraryAssumption
    <2>2. /\ usage = 0 /\ encoded = FALSE /\ headed = FALSE
          /\ header = [len |-> 0, key |-> 0] /\ payload = <<>>
          /\ todo = {} /\ sending = {} /\ queued = {} /\ lives = 0
      BY DEF K!Init, K!NoHeader
    <2>3. 0 \in K!Byte /\ 0 \in 0 .. MaxPayload /\ 0 \in 0 .. MaxLives
      BY <2>1 DEF K!Byte
    <2>4. header \in [len : 0 .. MaxPayload, key : K!Byte]
      BY <2>2, <2>3
    <2>5. payload \in [1 .. 0 -> K!Byte]
      BY <2>2
    <2>6. payload \in K!Payload
      BY <2>3, <2>5 DEF K!Payload
    <2>7. encoded \in BOOLEAN /\ headed \in BOOLEAN
      BY <2>2
    <2> QED
      BY <2>2, <2>3, <2>4, <2>6, <2>7 DEF PacketTypes
  <1>2. PacketUse
    <2>1. Cardinality({}) = 0
      BY FS_EmptySet
    <2>2. usage = 0 /\ todo = {} /\ sending = {} /\ queued = {}
      BY DEF K!Init
    <2> QED
      BY <2>1, <2>2 DEF PacketUse
  <1>3. PacketBody
    BY DEF PacketBody, K!Init
  <1> QED
    BY <1>1, <1>2, <1>3 DEF PacketInv

(* The last one clears the packet, the others leave it as it is. *)
LEMMA PacketGivenUp ==
    ASSUME PacketInv, K!DecrementUseCount, usage > 0,
           UNCHANGED <<encoded, headed, payload, lives>>,
           todo' \subseteq Receiver, sending' \subseteq Receiver,
           queued' \subseteq queued
    PROVE  PacketTypes' /\ PacketBody' /\ usage' = usage - 1
  <1>1. usage' = usage - 1 /\ usage' \in Nat
    BY DEF K!DecrementUseCount, PacketInv, PacketTypes
  <1>2. \/ usage' = 0 /\ header' = [len |-> 0, key |-> 0]
        \/ usage' # 0 /\ header' = header /\ body' = body
    BY DEF K!DecrementUseCount, K!NoHeader
  <1>3. PacketTypes'
    <2>1. Radix \in Nat \ {0} /\ MaxPayload \in Nat
      BY LibraryAssumption
    <2>2. 0 \in K!Byte /\ 0 \in 0 .. MaxPayload
      BY <2>1 DEF K!Byte
    <2>3. header' \in [len : 0 .. MaxPayload, key : K!Byte]
      BY <1>2, <2>2 DEF PacketInv, PacketTypes
    <2>4. queued' \subseteq Receiver
      BY DEF PacketInv, PacketTypes
    <2> QED
      BY <1>1, <2>3, <2>4 DEF PacketInv, PacketTypes, K!Byte, K!Payload
  <1>4. PacketBody'
    <2>1. usage \in Nat
      BY DEF PacketInv, PacketTypes
    <2> QED
      BY <1>1, <1>2, <2>1 DEF PacketInv, PacketBody
  <1> QED
    BY <1>1, <1>3, <1>4

(* Every step of the packet keeps the invariant.                            *)
LEMMA PacketSteps ==
    ASSUME PacketInv, [K!Next]_kVars
    PROVE  PacketInv'
  <1> USE DEF PacketInv
  <1>1. PacketTypes /\ PacketUse /\ PacketBody
    OBVIOUS
  <1>2. usage \in Nat
    BY DEF PacketTypes
  <1>3. CASE UNCHANGED kVars
    BY <1>3 DEF kVars, PacketTypes, PacketUse, PacketBody, K!Byte, K!Payload
  <1>4. ASSUME NEW p \in K!Payload, K!Alloc(p)
        PROVE  PacketInv'
    <2>1. /\ usage = 0 /\ lives < MaxLives
          /\ usage' = 1 /\ encoded' = FALSE /\ headed' = FALSE
          /\ header' = [len |-> 0, key |-> 0] /\ body' = p /\ payload' = p
          /\ todo' = Receiver /\ lives' = lives + 1
          /\ sending' = sending /\ queued' = queued
      BY <1>4 DEF K!Alloc, K!NoHeader
    <2>2. queued = {} /\ sending = {}
      BY <1>1, <2>1, PacketCounts DEF PacketUse
    <2>3. PacketTypes'
      <3>1. Radix \in Nat \ {0} /\ MaxPayload \in Nat /\ MaxLives \in Nat
        BY LibraryAssumption
      <3>2. 0 \in K!Byte /\ 0 \in 0 .. MaxPayload
        BY <3>1 DEF K!Byte
      <3>3. header' \in [len : 0 .. MaxPayload, key : K!Byte]
        BY <2>1, <3>2
      <3>4. lives' \in 0 .. MaxLives
        BY <2>1, <3>1 DEF PacketTypes
      <3> QED
        BY <2>1, <2>2, <3>3, <3>4 DEF PacketTypes, K!Byte, K!Payload
    <2>4. PacketUse'
      <3>1. Cardinality({}) = 0
        BY FS_EmptySet
      <3> QED
        BY <2>1, <2>2, <3>1 DEF PacketUse
    <2>5. PacketBody'
      BY <2>1, <2>2 DEF PacketBody
    <2> QED
      BY <2>3, <2>4, <2>5
  <1>5. ASSUME NEW r \in Receiver, K!SendPacket(r)
        PROVE  PacketInv'
    <2>1. /\ r \in todo /\ sending = {} /\ usage' = usage + 1
          /\ todo' = todo \ {r} /\ sending' = {r}
          /\ UNCHANGED <<encoded, headed, header, body, payload, queued,
                         lives>>
      BY <1>5 DEF K!SendPacket
    <2>2. usage = Cardinality(queued) + 1 /\ Cardinality(queued) \in Nat
      BY <1>1, <2>1, PacketCounts DEF PacketUse
    <2>3. PacketTypes'
      BY <1>1, <2>1 DEF PacketTypes, K!Byte, K!Payload
    <2>4. PacketUse'
      <3>1. Cardinality({r}) = 1
        BY FS_Singleton
      <3> QED
        BY <1>1, <2>1, <2>2, <3>1 DEF PacketUse
    <2>5. PacketBody'
      BY <1>1, <1>2, <2>1, <2>2 DEF PacketBody
    <2> QED
      BY <2>3, <2>4, <2>5
  <1>6. ASSUME NEW r \in Receiver, K!SendCompletes(r)
        PROVE  PacketInv'
    <2>1. /\ r \in queued /\ queued' = queued \ {r} /\ K!DecrementUseCount
          /\ UNCHANGED <<encoded, headed, payload, todo, sending, lives>>
      BY <1>6 DEF K!SendCompletes
    <2>2. /\ Cardinality(queued \ {r}) = Cardinality(queued) - 1
          /\ Cardinality(queued) \in Nat /\ Cardinality(queued) # 0
          /\ Cardinality(sending) \in Nat
      BY <1>1, <2>1, PacketCounts
    <2>3. usage > 0
      BY <1>1, <1>2, <2>2 DEF PacketUse
    <2>4. todo' \subseteq Receiver /\ sending' \subseteq Receiver
      BY <1>1, <2>1 DEF PacketTypes
    <2>5. PacketTypes' /\ PacketBody' /\ usage' = usage - 1
      BY <1>1, <2>1, <2>3, <2>4, PacketGivenUp
    <2>6. PacketUse'
      BY <1>1, <1>2, <2>1, <2>2, <2>5 DEF PacketUse
    <2> QED
      BY <2>5, <2>6
  <1>7. ASSUME K!SessionGone
        PROVE  PacketInv'
    <2>1. /\ sending # {} /\ sending' = {} /\ K!DecrementUseCount
          /\ UNCHANGED <<encoded, headed, payload, todo, queued, lives>>
      BY <1>7 DEF K!SessionGone
    <2>2. PICK r \in Receiver : sending = {r}
      BY <1>1, <2>1 DEF PacketTypes, PacketUse
    <2>3. Cardinality(sending) = 1 /\ Cardinality(queued) \in Nat
      BY <1>1, <2>2, PacketCounts
    <2>4. usage = Cardinality(queued) + 2
      BY <1>1, <2>1, <2>3 DEF PacketUse
    <2>5. todo' \subseteq Receiver /\ queued' \subseteq queued
      BY <1>1, <2>1 DEF PacketTypes
    <2>6. PacketTypes' /\ PacketBody' /\ usage' = usage - 1
      BY <1>1, <2>1, <2>3, <2>4, <2>5, PacketGivenUp
    <2>7. PacketUse'
      <3>1. Cardinality({}) = 0
        BY FS_EmptySet
      <3> QED
        BY <1>1, <2>1, <2>3, <2>4, <2>6, <3>1 DEF PacketUse
    <2> QED
      BY <2>6, <2>7
  <1>8. ASSUME K!SenderDone
        PROVE  PacketInv'
    <2>1. /\ usage > 0 /\ todo = {} /\ sending = {}
          /\ usage > Cardinality(queued) /\ K!DecrementUseCount
          /\ UNCHANGED <<encoded, headed, payload, todo, sending, queued,
                         lives>>
      <3>1. K!Cardinality(queued) = Cardinality(queued)
        BY DEF K!Cardinality, Cardinality
      <3> QED
        BY <1>8, <3>1 DEF K!SenderDone
    <2>2. /\ Cardinality(queued) \in Nat /\ Cardinality(sending) = 0
      BY <1>1, <2>1, PacketCounts
    <2>3. PacketTypes' /\ PacketBody' /\ usage' = usage - 1
      BY <1>1, <2>1, PacketGivenUp DEF PacketTypes
    <2>4. PacketUse'
      BY <1>1, <1>2, <2>1, <2>2, <2>3 DEF PacketUse
    <2> QED
      BY <2>3, <2>4
  <1>9. ASSUME NEW key \in K!Byte, K!EncodeAndEnqueue(key)
        PROVE  PacketInv'
    <2>1. /\ sending # {} /\ sending' = {} /\ queued' = queued \cup sending
          /\ UNCHANGED <<usage, payload, todo, lives>>
      BY <1>9 DEF K!EncodeAndEnqueue
    <2>2. PICK r \in Receiver : sending = {r}
      BY <1>1, <2>1 DEF PacketTypes, PacketUse
    <2>3. /\ Cardinality(sending) = 1 /\ Cardinality(queued) \in Nat
          /\ Cardinality(queued \cup {r}) = Cardinality(queued) + 1
      BY <1>1, <2>2, PacketCounts DEF PacketUse
    <2>4. usage > 0
      BY <1>1, <1>2, <2>1, <2>3 DEF PacketUse
    <2>5. PacketUse'
      <3>1. Cardinality({}) = 0
        BY FS_EmptySet
      <3> QED
        BY <1>1, <2>1, <2>2, <2>3, <3>1 DEF PacketUse
    <2>6. CASE encoded /\ UNCHANGED <<encoded, headed, header, body>>
      <3>1. PacketTypes'
        BY <1>1, <2>1, <2>6 DEF PacketTypes, K!Byte, K!Payload
      <3>2. PacketBody'
        BY <1>1, <2>1, <2>6 DEF PacketBody
      <3> QED
        BY <2>5, <3>1, <3>2
    <2>7. CASE /\ ~encoded /\ encoded' = TRUE /\ headed' = TRUE
               /\ header' = IF headed THEN header
                            ELSE [len |-> Len(body), key |-> key]
               /\ body' = K!Cipher(body, key)
      <3>1. ~headed /\ body = payload
        BY <1>1, <2>4, <2>7 DEF PacketBody
      <3>2. header' = [len |-> Len(payload), key |-> key]
        BY <2>7, <3>1
      <3>3. Len(payload) \in 0 .. MaxPayload
        BY <1>1, Payloads DEF PacketTypes
      <3>4. header' \in [len : 0 .. MaxPayload, key : K!Byte]
        BY <3>2, <3>3
      <3>5. header'.len = Len(payload) /\ header'.key = key
        BY <3>2
      <3>6. encoded' \in BOOLEAN /\ headed' \in BOOLEAN
        BY <2>7
      <3>7. PacketTypes'
        BY <1>1, <2>1, <3>4, <3>6 DEF PacketTypes, K!Byte, K!Payload
      <3>8. PacketBody'
        BY <2>1, <2>7, <3>1, <3>5 DEF PacketBody
      <3> QED
        BY <2>5, <3>7, <3>8
    <2> QED
      BY <1>9, <2>6, <2>7 DEF K!EncodeAndEnqueue, K!ClientEncodePacket
  <1> QED
    BY <1>3, <1>4, <1>5, <1>6, <1>7, <1>8, <1>9 DEF K!Next

(* So the packet is in the pool or used, and decodes to what was put in.    *)
LEMMA PacketThen ==
    ASSUME PacketInv
    PROVE  K!TypeOK /\ K!UsedOrPooled /\ K!Delivered
  <1> USE DEF PacketInv
  <1>1. /\ Cardinality(queued) \in Nat /\ Cardinality(sending) \in Nat
        /\ \A S : K!Cardinality(S) = Cardinality(S)
    BY PacketCounts DEF K!Cardinality, Cardinality
  <1>2. Cardinality(queued) + Cardinality(sending) <= Cardinality(Receiver)
    <2>1. IsFiniteSet(Receiver)
      BY LibraryAssumption
    <2>2. /\ queued \cup sending \subseteq Receiver
          /\ queued \cap sending = {}
      BY DEF PacketTypes, PacketUse
    <2>3. IsFiniteSet(queued) /\ IsFiniteSet(sending)
      BY <2>1, FS_Subset DEF PacketTypes
    <2>4. /\ IsFiniteSet(queued \cup sending)
          /\ Cardinality(queued \cup sending) =
               Cardinality(queued) + Cardinality(sending)
                 - Cardinality(queued \cap sending)
      BY <2>3, FS_Union
    <2>5. Cardinality(queued \cap sending) = 0
      BY <2>2, FS_EmptySet
    <2>6. Cardinality(queued \cup sending) <= Cardinality(Receiver)
      BY <2>1, <2>2, FS_Subset
    <2> QED
      BY <1>1, <2>4, <2>5, <2>6
  <1>3. K!TypeOK
    <2>1. Cardinality(Receiver) \in Nat
      BY LibraryAssumption, FS_CardinalityType
    <2>2. usage \in 0 .. Cardinality(Receiver) + 2
      BY <1>1, <1>2, <2>1 DEF PacketTypes, PacketUse
    <2>3. header.len \in 0 .. MaxPayload /\ header.key \in K!Byte
      BY DEF PacketTypes
    <2>4. {encoded, headed} \subseteq BOOLEAN
      BY DEF PacketTypes
    <2>5. {todo, sending, queued} \subseteq SUBSET Receiver
      BY DEF PacketTypes
    <2>6. lives \in 0 .. MaxLives
      BY DEF PacketTypes
    <2> QED
      BY <1>1, <2>2, <2>3, <2>4, <2>5, <2>6 DEF K!TypeOK
  <1>4. K!UsedOrPooled
    BY <1>1 DEF K!UsedOrPooled, PacketUse
  <1>5. K!Delivered
    <2> SUFFICES ASSUME queued # {}
                 PROVE  K!Decoded(header, body) = payload
      BY DEF K!Delivered
    <2>1. usage > 0
      BY <1>1, PacketCounts DEF PacketUse, PacketTypes
    <2>2. /\ header.len = Len(payload)
          /\ body = K!Cipher(payload, header.key)
      BY <2>1 DEF PacketBody
    <2>3. PICK n, k : n = header.len /\ k = header.key
      OBVIOUS
    <2>4. header = [len |-> n, key |-> k] /\ k \in Nat
      <3>1. K!Byte \subseteq Nat
        BY RadixNat DEF K!Byte
      <3>2. header \in [len : 0 .. MaxPayload, key : K!Byte]
        BY DEF PacketTypes
      <3> QED
        BY <2>3, <3>1, <3>2
    <2>5. n \in Nat /\ payload \in [1 .. n -> Nat]
      BY <2>2, <2>3, Payloads DEF PacketTypes
    <2>6. K!Decoded([len |-> n, key |-> k], K!Cipher(payload, k)) = payload
      BY <2>4, <2>5, DecodeInverts
    <2> QED
      BY <2>2, <2>3, <2>4, <2>6
  <1> QED
    BY <1>3, <1>4, <1>5

-----------------------------------------------------------------------------
StreamByte == Nat \X Int
Message(k) == F!Bytes(k, 1 - F!Header, lens[k])
Upto(m) == F!FlattenSeq([k \in 1 .. m |-> Message(k)])

(* The sequences of s, one after the other, are what FlattenSeq makes of    *)
(* them.                                                                    *)
Rolled(f, s, n, V) ==
    /\ f[0] = <<>> /\ \A i \in 1 .. n : f[i] = f[i - 1] \o s[i]
    /\ \A i \in 0 .. n : f[i] \in Seq(V)
    /\ \A i \in 1 .. n : s[i] \in Seq(V)

(* A part of the sequences gives the part of the bytes.                     *)
LEMMA Flattened ==
    ASSUME NEW n \in Nat, NEW V, NEW s, NEW f, Rolled(f, s, n, V),
           NEW m \in 0 .. n, NEW q, q = [k \in 1 .. m |-> s[k]]
    PROVE  F!FlattenSeq(q) = f[m]
  <1> USE DEF Rolled
  <1> DEFINE D(h) == h = [i \in 1 .. m |->
                            IF i = 1 THEN q[i] ELSE h[i - 1] \o q[i]]
  <1>1. Len(q) = m
    OBVIOUS
  <1>2. CASE m = 0
    <2>1. q = <<>>
      BY <1>2
    <2>2. F!FlattenSeq(q) = q
      BY <1>1, <1>2 DEF F!FlattenSeq
    <2> QED
      BY <1>2, <2>1, <2>2
  <1>3. CASE m # 0
    <2> DEFINE h == CHOOSE g : D(g)
    <2>1. F!FlattenSeq(q) = h[m]
      BY <1>1, <1>3 DEF F!FlattenSeq
    <2>2. f[1] = s[1]
      <3>1. PICK x \in Seq(V) : x = s[1] /\ f[1] = <<>> \o x
        <4>1. 1 \in 1 .. n /\ 1 - 1 = 0
          BY <1>3
        <4>2. f[1] = f[1 - 1] \o s[1] /\ s[1] \in Seq(V)
          BY <4>1
        <4> QED
          BY <4>1, <4>2
      <3>2. <<>> \o x = x
        BY ConcatEmptySeq
      <3> QED
        BY <3>1, <3>2
    <2>3. \E g : D(g)
      <3> DEFINE g == [i \in 1 .. m |-> f[i]]
      <3>1. ASSUME NEW i \in 1 .. m
            PROVE  g[i] = IF i = 1 THEN q[i] ELSE g[i - 1] \o q[i]
        <4>1. q[i] = s[i] /\ g[i] = f[i] /\ i \in 1 .. n
          OBVIOUS
        <4>2. CASE i = 1
          BY <2>2, <4>1, <4>2
        <4>3. CASE i # 1
          <5>1. g[i - 1] = f[i - 1]
            BY <4>3
          <5> QED
            BY <4>1, <4>3, <5>1
        <4> QED
          BY <4>2, <4>3
      <3>2. g = [i \in 1 .. m |-> g[i]]
        OBVIOUS
      <3> HIDE DEF g
      <3>3. D(g)
        BY <3>1, <3>2
      <3> HIDE DEF D
      <3> QED
        BY <3>3
    <2> HIDE DEF D
    <2>4. D(h)
      BY <2>3
    <2> HIDE DEF h
    <2>5. ASSUME NEW i \in 1 .. m
          PROVE  h[i] = IF i = 1 THEN s[i] ELSE h[i - 1] \o s[i]
      <3>1. q[i] = s[i]
        OBVIOUS
      <3>2. h = [j \in 1 .. m |-> IF j = 1 THEN q[j] ELSE h[j - 1] \o q[j]]
        BY <2>4 DEF D
      <3> QED
        BY <3>1, <3>2
    <2> DEFINE Same == {i \in 0 .. m : i # 0 => h[i] = f[i]}
    <2>6. 0 \in Same
      OBVIOUS
    <2>7. ASSUME NEW i \in 0 .. m, i < m, i \in Same
          PROVE  i + 1 \in Same
      <3>1. i + 1 \in 1 .. m /\ i + 1 \in 1 .. n /\ (i + 1) - 1 = i
        BY <2>7
      <3>2. CASE i = 0
        BY <2>2, <2>5, <3>1, <3>2
      <3>3. CASE i # 0
        <4>1. PICK k \in 1 .. m : k = i + 1 /\ k - 1 = i /\ k # 1
          BY <3>1, <3>3
        <4>2. h[k] = h[i] \o s[k]
          BY <2>5, <4>1
        <4>3. f[k] = f[k - 1] \o s[k]
          <5>1. k \in 1 .. n
            OBVIOUS
          <5> QED
            BY <5>1
        <4>4. h[i] = f[i]
          BY <2>7, <3>3
        <4>5. h[k] = f[k] /\ k \in 0 .. m
          BY <4>1, <4>2, <4>3, <4>4
        <4> QED
          BY <4>1, <4>5
      <3> QED
        BY <3>2, <3>3
    <2>8. m \in Same
      <3> HIDE DEF Same
      <3> QED
        BY <2>6, <2>7, Induction
    <2> QED
      BY <1>3, <2>1, <2>8
  <1> QED
    BY <1>2, <1>3

FramePlaces == {"posted", "loop", "swap", "aborted", "lost", "noreceive"}

FrameTypes ==
    /\ lan \in BOOLEAN /\ lens \in [1 .. Messages -> 0 .. MaxLen]
    /\ got \in Nat /\ handed \in 0 .. Messages /\ fFront \in Nat
    /\ content \in Seq(StreamByte) /\ fPc \in FramePlaces

(* The buffer ends where its bytes do. *)
FrameRoom == fFront + Len(content) <= Capacity

FrameRest ==
    /\ got <= Len(F!Stream)
    /\ handed > 0 => last = F!Bytes(handed, 1, lens[handed])
    /\ fPc # "lost" =>
          /\ Len(Upto(handed)) <= got
          /\ content = SubSeq(F!Stream, Len(Upto(handed)) + 1, got)

FrameInv == FrameTypes /\ FrameRoom /\ FrameRest

(* What LibraryAssumption and the types say of this part.                   *)
LEMMA FrameNat ==
    ASSUME FrameTypes
    PROVE  /\ Capacity \in Nat /\ Messages \in Nat /\ MaxLen \in Nat
           /\ F!Header \in Nat \ {0}
           /\ \A k \in 1 .. Messages :
                 /\ lens[k] \in Nat
                 /\ Message(k) \in Seq(StreamByte)
                 /\ Len(Message(k)) = F!Header + lens[k]
                 /\ \A j \in 1 .. F!Header + lens[k] :
                       Message(k)[j] = <<k, j - F!Header>>
  <1>1. /\ Capacity \in Nat /\ Messages \in Nat /\ MaxLen \in Nat
        /\ WanHeader \in Nat \ {0} /\ LanHeader \in Nat \ {0}
    BY LibraryAssumption
  <1>2. F!Header \in Nat \ {0}
    BY <1>1 DEF F!Header, FrameTypes
  <1>3. ASSUME NEW k \in 1 .. Messages
        PROVE  /\ lens[k] \in Nat
               /\ Message(k) \in Seq(StreamByte)
               /\ Len(Message(k)) = F!Header + lens[k]
               /\ \A j \in 1 .. F!Header + lens[k] :
                     Message(k)[j] = <<k, j - F!Header>>
    <2>1. lens[k] \in Nat
      BY <1>1 DEF FrameTypes
    <2>2. PICK h \in Nat, l \in Nat : h = F!Header /\ l = lens[k]
      BY <1>2, <2>1
    <2>3. Message(k) = [j \in 1 .. l - (1 - h) + 1 |-> <<k, (1 - h) + j - 1>>]
      BY <2>2 DEF Message, F!Bytes
    <2>4. l - (1 - h) + 1 = h + l
      OBVIOUS
    <2>5. ASSUME NEW j \in 1 .. h + l
          PROVE  /\ Message(k)[j] = <<k, j - h>>
                 /\ Message(k)[j] \in StreamByte
      <3>1. (1 - h) + j - 1 = j - h /\ j - h \in Int /\ k \in Nat
        BY <1>1
      <3> QED
        BY <2>3, <2>4, <3>1 DEF StreamByte
    <2>6. /\ Message(k) \in [1 .. h + l -> StreamByte]
      BY <2>3, <2>4, <2>5
    <2>7. Message(k) \in Seq(StreamByte) /\ Len(Message(k)) = h + l
      BY <2>6
    <2> QED
      BY <2>1, <2>2, <2>5, <2>7
  <1> QED
    BY <1>1, <1>2, <1>3

(* Where in the stream each message starts and what is there. *)
Offsets(o) ==
    /\ \A m \in 0 .. Messages : /\ o[m] \in Nat /\ o[m] <= o[Messages]
                                /\ Len(Upto(m)) = o[m]
    /\ o[0] = 0
    /\ \A k \in 1 .. Messages : o[k] = o[k - 1] + F!Header + lens[k]
    /\ F!Stream \in Seq(StreamByte) /\ Len(F!Stream) = o[Messages]
    /\ \A k \in 1 .. Messages : \A j \in 1 .. F!Header + lens[k] :
          F!Stream[o[k - 1] + j] = <<k, j - F!Header>>

(* There are such places.                                                   *)
LEMMA StreamHas ==
    ASSUME FrameTypes
    PROVE  \E o : Offsets(o)
  <1>1. PICK n \in Nat : n = Messages
    BY FrameNat
  <1>2. PICK s : s = [k \in 1 .. n |-> Message(k)]
    OBVIOUS
  <1>3. PICK w \in Nat : w = F!Header
    BY FrameNat
  <1>4. \A k \in 1 .. n :
           /\ lens[k] \in Nat /\ s[k] = Message(k)
           /\ s[k] \in Seq(StreamByte) /\ Len(s[k]) = w + lens[k]
           /\ \A j \in 1 .. w + lens[k] : s[k][j] = <<k, j - w>>
    BY <1>1, <1>2, <1>3, FrameNat
  <1>5. PICK f : /\ f[0] = <<>> /\ \A i \in 1 .. n : f[i] = f[i - 1] \o s[i]
                 /\ \A i \in 0 .. n : f[i] \in Seq(StreamByte)
    <2> DEFINE V == Seq(StreamByte)
               G == [i \in 1 .. n |-> [x \in V |-> x \o s[i]]]
    <2>1. StepsIn(G, n, V)
      <3>1. ASSUME NEW i \in 1 .. n, NEW x \in V
            PROVE  G[i][x] \in V
        BY <1>4, ConcatProperties
      <3> HIDE DEF G, V
      <3> QED
        BY <3>1 DEF StepsIn
    <2>2. <<>> \in V
      BY EmptySeq
    <2>3. PICK f : RunOf(f, G, n, <<>>, V)
      <3> HIDE DEF G, V
      <3> QED
        BY <2>1, <2>2, Recursion
    <2>4. ASSUME NEW i \in 1 .. n
          PROVE  f[i] = f[i - 1] \o s[i]
      <3>1. i - 1 \in 0 .. n
        OBVIOUS
      <3>2. f[i - 1] \in V /\ f[i] = G[i][f[i - 1]]
        <4> HIDE DEF G, V
        <4> QED
          BY <2>3, <3>1 DEF RunOf
      <3> QED
        BY <3>2
    <2>5. f[0] = <<>> /\ \A i \in 0 .. n : f[i] \in V
      <3> HIDE DEF G, V
      <3> QED
        BY <2>3 DEF RunOf
    <2> HIDE DEF G
    <2> QED
      BY <2>4, <2>5
  <1>6. \A m \in 0 .. n : Upto(m) = f[m]
    <2> TAKE m \in 0 .. n
    <2>1. PICK q : q = [k \in 1 .. m |-> s[k]]
      OBVIOUS
    <2>2. F!FlattenSeq(q) = f[m]
      <3>1. Rolled(f, s, n, StreamByte)
        BY <1>4, <1>5 DEF Rolled
      <3> QED
        BY <2>1, <3>1, Flattened
    <2>3. q = [k \in 1 .. m |-> Message(k)]
      BY <1>4, <2>1
    <2> QED
      BY <2>2, <2>3 DEF Upto
  <1>7. F!Stream = f[n]
    BY <1>1, <1>6 DEF F!Stream, Upto, Message
  <1> DEFINE o == [m \in 0 .. n |-> Len(f[m])]
  <1>8. \A m \in 0 .. n : o[m] \in Nat /\ o[m] = Len(f[m])
    BY <1>5, LenProperties
  <1>9. o[0] = 0
    BY <1>5
  <1>10. \A k \in 1 .. n : o[k] = o[k - 1] + w + lens[k]
    <2> TAKE k \in 1 .. n
    <2>1. k - 1 \in 0 .. n /\ k \in 0 .. n
      OBVIOUS
    <2>2. Len(f[k]) = Len(f[k - 1]) + Len(s[k])
      <3>1. PICK x \in Seq(StreamByte), y \in Seq(StreamByte) :
                 x = f[k - 1] /\ y = s[k]
        BY <1>4, <1>5, <2>1
      <3>2. f[k] = x \o y
        BY <1>5, <3>1
      <3> QED
        BY <3>1, <3>2, ConcatProperties
    <2>3. o[k] = o[k - 1] + (w + lens[k])
      BY <1>4, <1>8, <2>1, <2>2
    <2>4. PICK a \in Nat, b \in Nat : a = o[k - 1] /\ b = lens[k]
      BY <1>4, <1>8, <2>1
    <2> HIDE DEF o
    <2> QED
      BY <2>3, <2>4
  <1> HIDE DEF o
  <1> DEFINE Good == {m \in 0 .. n :
                 /\ \A k \in 0 .. m : o[k] <= o[m]
                 /\ \A k \in 1 .. m : \A j \in 1 .. w + lens[k] :
                       f[m][o[k - 1] + j] = <<k, j - w>>}
  <1>11. 0 \in Good
    BY <1>8
  <1>12. ASSUME NEW m \in 0 .. n, m < n, m \in Good
         PROVE  m + 1 \in Good
    <2>1. /\ m + 1 \in 1 .. n /\ m + 1 \in 0 .. n /\ (m + 1) - 1 = m
      BY <1>12
    <2>2. PICK a \in Nat, b \in Nat :
               a = o[m] /\ b = lens[m + 1] /\ o[m + 1] = a + w + b
      BY <1>4, <1>8, <1>10, <2>1
    <2>3. \A k \in 0 .. m + 1 : o[k] <= o[m + 1]
      <3> TAKE k \in 0 .. m + 1
      <3>1. CASE k = m + 1
        BY <1>8, <2>1, <3>1
      <3>2. CASE k # m + 1
        <4>1. k \in 0 .. m /\ k \in 0 .. n
          BY <3>2
        <4>2. o[k] <= a /\ o[k] \in Nat
          BY <1>8, <1>12, <2>2, <4>1
        <4> QED
          BY <2>2, <4>2
      <3> QED
        BY <3>1, <3>2
    <2>4. /\ Len(f[m]) = a /\ Len(s[m + 1]) = w + b
          /\ \A i \in 1 .. a + (w + b) :
                f[m + 1][i] = IF i <= a THEN f[m][i] ELSE s[m + 1][i - a]
      <3>1. PICK x \in Seq(StreamByte), y \in Seq(StreamByte) :
                 x = f[m] /\ y = s[m + 1]
        BY <1>4, <1>5, <2>1
      <3>2. f[m + 1] = x \o y
        BY <1>5, <2>1, <3>1
      <3>3. Len(x) = a /\ Len(y) = w + b
        BY <1>4, <1>8, <2>1, <2>2, <3>1
      <3>4. \A i \in 1 .. Len(x) + Len(y) :
               (x \o y)[i] = IF i <= Len(x) THEN x[i] ELSE y[i - Len(x)]
        BY ConcatProperties
      <3> QED
        BY <3>1, <3>2, <3>3, <3>4
    <2>5. ASSUME NEW k \in 1 .. m + 1, NEW j \in 1 .. w + lens[k]
          PROVE  f[m + 1][o[k - 1] + j] = <<k, j - w>>
      <3>1. CASE k = m + 1
        <4>1. o[k - 1] + j = a + j /\ a + j \in 1 .. a + (w + b)
              /\ ~(a + j <= a) /\ (a + j) - a = j
          BY <2>1, <2>2, <3>1
        <4>2. f[m + 1][a + j] = s[m + 1][j]
          BY <2>4, <4>1
        <4> QED
          BY <1>4, <2>1, <2>2, <3>1, <4>1, <4>2
      <3>2. CASE k # m + 1
        <4>1. k \in 1 .. m /\ k \in 1 .. n /\ k - 1 \in 0 .. n
              /\ k \in 0 .. m
          BY <3>2
        <4>2. PICK c \in Nat, d \in Nat :
                   c = o[k - 1] /\ d = lens[k] /\ o[k] = c + w + d
          BY <1>4, <1>8, <1>10, <4>1
        <4>3. o[k] <= a
          BY <1>12, <2>2, <4>1
        <4>4. c + j \in 1 .. a + (w + b) /\ c + j <= a
          BY <4>2, <4>3
        <4>5. f[m + 1][c + j] = f[m][c + j]
          BY <2>4, <4>4
        <4>6. f[m][o[k - 1] + j] = <<k, j - w>>
          BY <1>12, <4>1
        <4> QED
          BY <4>2, <4>5, <4>6
      <3> QED
        BY <3>1, <3>2
    <2> QED
      BY <2>1, <2>3, <2>5
  <1>13. n \in Good
    <2> HIDE DEF Good
    <2> QED
      BY <1>11, <1>12, Induction
  <1>14. Offsets(o)
    <2>1. n \in 0 .. n
      OBVIOUS
    <2>2. \A m \in 0 .. n : o[m] \in Nat /\ o[m] <= o[n] /\ Len(Upto(m)) = o[m]
      BY <1>6, <1>8, <1>13
    <2>3. F!Stream \in Seq(StreamByte) /\ Len(F!Stream) = o[n]
      BY <1>5, <1>7, <1>8, <2>1
    <2>4. \A k \in 1 .. n : \A j \in 1 .. w + lens[k] :
             F!Stream[o[k - 1] + j] = <<k, j - w>>
      BY <1>7, <1>13
    <2> QED
      BY <1>1, <1>3, <1>9, <1>10, <2>2, <2>3, <2>4 DEF Offsets
  <1> QED
    BY <1>14

(* A piece of a sequence, two pieces put together, and a piece of a piece. *)
LEMMA Cut ==
    ASSUME NEW V, NEW s \in Seq(V), NEW a \in Nat, NEW b \in Nat,
           a <= b, b <= Len(s)
    PROVE  /\ SubSeq(s, a + 1, b) \in Seq(V)
           /\ Len(SubSeq(s, a + 1, b)) = b - a
           /\ \A i \in 1 .. b - a : SubSeq(s, a + 1, b)[i] = s[a + i]
  <1>1. \A i \in (a + 1) .. b : s[i] \in V
    BY ElementOfSeq, LenProperties
  <1>2. /\ SubSeq(s, a + 1, b) \in Seq(V)
        /\ Len(SubSeq(s, a + 1, b)) = IF a + 1 <= b THEN b - (a + 1) + 1 ELSE 0
        /\ \A i \in 1 .. b - (a + 1) + 1 :
              SubSeq(s, a + 1, b)[i] = s[(a + 1) + i - 1]
    BY <1>1, SubSeqProperties
  <1>3. \A i \in 1 .. b - a : (a + 1) + i - 1 = a + i
    OBVIOUS
  <1> QED
    BY <1>2, <1>3

LEMMA CutsJoin ==
    ASSUME NEW V, NEW s \in Seq(V), NEW a \in Nat, NEW b \in Nat,
           NEW d \in Nat,
           a <= b, b <= d, d <= Len(s)
    PROVE  SubSeq(s, a + 1, b) \o SubSeq(s, b + 1, d) = SubSeq(s, a + 1, d)
  <1>1. PICK x, y, z : /\ x = SubSeq(s, a + 1, b) /\ y = SubSeq(s, b + 1, d)
                       /\ z = SubSeq(s, a + 1, d)
    OBVIOUS
  <1>2. /\ x \in Seq(V) /\ Len(x) = b - a
        /\ \A i \in 1 .. b - a : x[i] = s[a + i]
    BY <1>1, Cut
  <1>3. /\ y \in Seq(V) /\ Len(y) = d - b
        /\ \A i \in 1 .. d - b : y[i] = s[b + i]
    BY <1>1, Cut
  <1>4. /\ z \in Seq(V) /\ Len(z) = d - a
        /\ \A i \in 1 .. d - a : z[i] = s[a + i]
    BY <1>1, Cut
  <1>5. /\ x \o y \in Seq(V) /\ Len(x \o y) = Len(x) + Len(y)
        /\ \A i \in 1 .. Len(x) + Len(y) :
              (x \o y)[i] = IF i <= Len(x) THEN x[i] ELSE y[i - Len(x)]
    BY <1>2, <1>3, ConcatProperties
  <1>6. ASSUME NEW i \in 1 .. Len(x \o y)
        PROVE  (x \o y)[i] = z[i]
    <2>1. i \in 1 .. d - a /\ i \in 1 .. Len(x) + Len(y)
      BY <1>2, <1>3, <1>5
    <2>2. CASE i <= b - a
      BY <1>2, <1>4, <1>5, <2>1, <2>2
    <2>3. CASE ~(i <= b - a)
      <3>1. i - (b - a) \in 1 .. d - b /\ b + (i - (b - a)) = a + i
        BY <2>1, <2>3
      <3> QED
        BY <1>2, <1>3, <1>4, <1>5, <2>1, <2>3, <3>1
    <2> QED
      BY <2>2, <2>3
  <1>7. x \o y = z
    <2>1. Len(x \o y) = Len(z)
      BY <1>2, <1>3, <1>4, <1>5
    <2>2. PICK w \in Seq(V) : w = x \o y
      BY <1>5
    <2> QED
      BY <1>4, <1>6, <2>1, <2>2, SeqEqual
  <1> QED
    BY <1>1, <1>7

LEMMA CutOfCut ==
    ASSUME NEW V, NEW s \in Seq(V), NEW a \in Nat, NEW b \in Nat,
           a <= b, b <= Len(s), NEW i \in Nat, NEW j \in Nat,
           i <= j, j <= b - a
    PROVE  SubSeq(SubSeq(s, a + 1, b), i + 1, j) = SubSeq(s, a + i + 1, a + j)
  <1>1. PICK x : x = SubSeq(s, a + 1, b)
    OBVIOUS
  <1>2. /\ x \in Seq(V) /\ Len(x) = b - a
        /\ \A k \in 1 .. b - a : x[k] = s[a + k]
    BY <1>1, Cut
  <1>3. PICK y : y = SubSeq(x, i + 1, j)
    OBVIOUS
  <1>4. /\ y \in Seq(V) /\ Len(y) = j - i
        /\ \A k \in 1 .. j - i : y[k] = x[i + k]
    <2>1. i <= j /\ j <= Len(x)
      BY <1>2
    <2>2. x \in Seq(V)
      BY <1>2
    <2>3. /\ SubSeq(x, i + 1, j) \in Seq(V)
          /\ Len(SubSeq(x, i + 1, j)) = j - i
          /\ \A k \in 1 .. j - i : SubSeq(x, i + 1, j)[k] = x[i + k]
      BY <2>1, <2>2, Cut
    <2> QED
      BY <1>3, <2>3
  <1>5. PICK z : z = SubSeq(s, a + i + 1, a + j)
    OBVIOUS
  <1>6. /\ z \in Seq(V) /\ Len(z) = j - i
        /\ \A k \in 1 .. j - i : z[k] = s[a + i + k]
    <2>1. PICK c \in Nat, d \in Nat : c = a + i /\ d = a + j
      OBVIOUS
    <2>2. c <= d /\ d <= Len(s) /\ d - c = j - i
      <3>1. Len(s) \in Nat
        BY LenProperties
      <3> QED
        BY <2>1, <3>1
    <2>3. /\ z \in Seq(V) /\ Len(z) = d - c
          /\ \A k \in 1 .. d - c : z[k] = s[c + k]
      BY <1>5, <2>1, <2>2, Cut
    <2> QED
      BY <2>1, <2>2, <2>3
  <1>7. ASSUME NEW k \in 1 .. j - i
        PROVE  y[k] = z[k]
    <2>1. i + k \in 1 .. b - a /\ a + (i + k) = a + i + k
      OBVIOUS
    <2> QED
      BY <1>2, <1>4, <1>6, <2>1
  <1>8. y = z
    BY <1>4, <1>6, <1>7, SeqEqual
  <1> QED
    BY <1>1, <1>3, <1>5, <1>8

(* At first nothing is received.                                            *)
LEMMA FrameInit ==
    ASSUME F!Init
    PROVE  FrameInv
  <1>1. /\ lan \in BOOLEAN /\ lens \in [1 .. Messages -> 0 .. MaxLen]
        /\ got = 0 /\ fFront = 0 /\ content = <<>> /\ handed = 0
        /\ fPc = "posted"
    BY DEF F!Init
  <1>2. FrameTypes
    <2>1. Messages \in Nat
      BY LibraryAssumption
    <2>2. content \in Seq(StreamByte)
      BY <1>1, EmptySeq
    <2> QED
      BY <1>1, <2>1, <2>2 DEF FrameTypes, FramePlaces
  <1>3. FrameRoom
    BY <1>1, <1>2, FrameNat DEF FrameRoom
  <1>4. FrameRest
    <2>1. PICK o : Offsets(o)
      BY <1>2, StreamHas
    <2>2. Len(Upto(handed)) = 0 /\ Len(F!Stream) \in Nat
      <3>1. 0 \in 0 .. Messages /\ Messages \in 0 .. Messages
        BY <1>2, FrameNat
      <3> QED
        BY <1>1, <2>1, <3>1 DEF Offsets
    <2>3. SubSeq(F!Stream, 0 + 1, 0) = <<>>
      BY SubSeqEmpty
    <2> QED
      BY <1>1, <2>2, <2>3 DEF FrameRest
  <1> QED
    BY <1>2, <1>3, <1>4 DEF FrameInv

(* The stream is the same, and so is where each message of it starts. *)
LEMMA FrameHolds ==
    ASSUME FrameTypes, UNCHANGED <<lan, lens>>, NEW o, Offsets(o),
           handed' \in 0 .. Messages, got' \in Nat, got' <= o[Messages],
           NEW h, h = handed',
           h > 0 => last' = F!Bytes(h, 1, lens[h]),
           fPc' # "lost" => /\ o[h] <= got'
                            /\ content' = SubSeq(F!Stream, o[h] + 1, got')
    PROVE  FrameRest'
  <1>1. Upto(handed)' = Upto(h)
    BY DEF Upto, Message, F!Header, F!Bytes
  <1>2. F!Stream' = F!Stream
    BY DEF F!Stream, F!Header, F!Bytes
  <1>3. Len(Upto(h)) = o[h] /\ Len(F!Stream) = o[Messages]
    BY DEF Offsets
  <1>4. F!Bytes(h, 1, lens[h]) = F!Bytes(handed, 1, lens[handed])'
    BY DEF F!Bytes
  <1> QED
    BY <1>1, <1>2, <1>3, <1>4 DEF FrameRest

(* Every step of receiving keeps the invariant.                             *)
LEMMA FrameSteps ==
    ASSUME FrameInv, [F!Next]_fVars
    PROVE  FrameInv'
  <1>1. FrameTypes /\ FrameRoom /\ FrameRest
    BY DEF FrameInv
  <1>2. PICK o : Offsets(o)
    BY <1>1, StreamHas
  <1>3. PICK S \in Seq(StreamByte), N \in Nat, g \in Nat :
             /\ S = F!Stream /\ Len(S) = N /\ N = o[Messages]
             /\ g = got /\ g <= N
    <2>1. Messages \in 0 .. Messages
      BY <1>1, FrameNat
    <2>2. /\ F!Stream \in Seq(StreamByte) /\ Len(F!Stream) = o[Messages]
          /\ o[Messages] \in Nat
      BY <1>2, <2>1 DEF Offsets
    <2>3. got \in Nat /\ got <= o[Messages]
      BY <1>1, <2>2 DEF FrameTypes, FrameRest
    <2> QED
      BY <2>2, <2>3
  <1>4. PICK w \in Nat, l \in Nat : w = F!Header /\ w # 0 /\ l = Len(content)
    <2>1. Len(content) \in Nat
      BY <1>1, LenProperties DEF FrameTypes
    <2>2. F!Header \in Nat /\ F!Header # 0
      BY <1>1, FrameNat
    <2> QED
      BY <2>1, <2>2
  <1>5. PICK h \in 0 .. Messages, a \in Nat :
             h = handed /\ a = o[h] /\ a <= N /\ Messages \in Nat
    <2>1. handed \in 0 .. Messages /\ Messages \in Nat
      BY <1>1, FrameNat DEF FrameTypes
    <2> QED
      BY <1>2, <1>3, <2>1 DEF Offsets
  <1>6. fPc # "lost" =>
           /\ a <= g /\ content = SubSeq(S, a + 1, g) /\ l = g - a
           /\ \A i \in 1 .. l : content[i] = S[a + i]
    <2>1. Len(Upto(handed)) = a
      BY <1>2, <1>3, <1>4, <1>5 DEF Offsets
    <2> SUFFICES ASSUME fPc # "lost"
                 PROVE  /\ a <= g /\ content = SubSeq(S, a + 1, g)
                        /\ l = g - a
                        /\ \A i \in 1 .. l : content[i] = S[a + i]
      OBVIOUS
    <2>2. a <= g /\ content = SubSeq(S, a + 1, g)
      BY <1>1, <1>3, <1>4, <1>5, <2>1 DEF FrameRest
    <2>3. /\ Len(SubSeq(S, a + 1, g)) = g - a
          /\ \A i \in 1 .. g - a : SubSeq(S, a + 1, g)[i] = S[a + i]
      <3>1. a <= g /\ g <= Len(S)
        BY <1>3, <2>2
      <3> QED
        BY <3>1, Cut
    <2> QED
      BY <1>3, <1>4, <1>5, <2>2, <2>3
  <1>7. fPc # "lost" => a <= g /\ l = g - a
    BY <1>6
  <1>8. /\ fFront \in Nat /\ fFront + l <= Capacity /\ Capacity \in Nat
        /\ F!rear = fFront + l
    BY <1>1, <1>4, FrameNat DEF FrameTypes, FrameRoom, F!rear
  <1>9. /\ fFront \in Nat /\ fFront + l <= Capacity /\ Capacity \in Nat
        /\ fPc \in FramePlaces /\ content \in Seq(StreamByte)
        /\ F!rear = fFront + l
        /\ h > 0 => last = F!Bytes(h, 1, lens[h])
    BY <1>1, <1>3, <1>4, <1>5, FrameNat DEF FrameTypes, FrameRoom, FrameRest,
       F!rear
  (* The buffer and the place change, and the rest stays. *)
  <1>10. ASSUME UNCHANGED <<lan, lens, got, handed, last>>,
                fFront' \in Nat, content' \in Seq(StreamByte),
                fPc' \in FramePlaces, fFront' + Len(content') <= Capacity,
                fPc' # "lost" => content' = content /\ fPc # "lost"
         PROVE  FrameInv'
    <2>1. FrameTypes' /\ FrameRoom'
      BY <1>1, <1>10 DEF FrameTypes, FrameRoom, FramePlaces
    <2>2. h = handed' /\ g = got'
      BY <1>3, <1>4, <1>5, <1>10
    <2>3. FrameRest'
      BY <1>1, <1>2, <1>3, <1>4, <1>5, <1>6, <1>9, <1>10, <2>2, FrameHolds
    <2> QED
      BY <2>1, <2>3 DEF FrameInv
  <1>11. CASE UNCHANGED fVars
    <2>1. UNCHANGED <<lan, lens, got, fFront, content, handed, last, fPc>>
      BY <1>11 DEF fVars
    <2> QED
      BY <1>3, <1>4, <1>5, <1>9, <1>10, <2>1
  <1>12. ASSUME NEW n \in 1 .. Capacity, F!MoveRear(n)
         PROVE  FrameInv'
    <2>1. fPc = "posted" /\ n \in Nat /\ n <= N - g
      BY <1>3, <1>8, <1>12 DEF F!MoveRear
    <2>2. /\ n <= Capacity - (fFront + l)
          /\ got' = g + n
          /\ content' = content \o SubSeq(S, g + 1, g + n)
          /\ fPc' = "loop"
          /\ UNCHANGED <<lan, lens, fFront, handed, last>>
      BY <1>3, <1>4, <1>5, <1>9, <1>12 DEF F!MoveRear, F!Room
    <2>3. content' = SubSeq(S, a + 1, g + n)
      <3>1. g + n \in Nat /\ g <= g + n /\ g + n <= N /\ a <= g
        BY <1>7, <1>3, <2>1
      <3>2. SubSeq(S, a + 1, g) \o SubSeq(S, g + 1, g + n)
              = SubSeq(S, a + 1, g + n)
        BY <1>3, <3>1, CutsJoin
      <3> QED
        BY <1>6, <2>1, <2>2, <3>2
    <2>4. /\ content' \in Seq(StreamByte) /\ Len(content') = l + n
          /\ a <= g + n
      <3>1. a <= g + n /\ g + n \in Nat /\ g + n <= Len(S)
        BY <1>7, <1>3, <2>1
      <3>2. /\ SubSeq(S, a + 1, g + n) \in Seq(StreamByte)
            /\ Len(SubSeq(S, a + 1, g + n)) = (g + n) - a
        BY <3>1, Cut
      <3>3. l = g - a
        BY <1>6, <2>1
      <3> QED
        BY <2>3, <3>1, <3>2, <3>3
    <2>5. FrameTypes' /\ FrameRoom'
      <3>1. got' \in Nat /\ fFront' + Len(content') <= Capacity
        BY <1>8, <1>3, <2>1, <2>4, <2>2
      <3> QED
        BY <1>1, <2>4, <2>2, <3>1 DEF FrameTypes, FrameRoom, FramePlaces
    <2>6. FrameRest'
      <3>1. h = handed' /\ h \in 0 .. Messages
        BY <1>5, <2>2
      <3>2. got' \in Nat /\ got' <= o[Messages]
        BY <1>3, <2>1, <2>2
      <3>3. o[h] <= got' /\ content' = SubSeq(F!Stream, o[h] + 1, got')
        BY <1>5, <1>3, <2>3, <2>4, <2>2
      <3>4. h > 0 => last' = F!Bytes(h, 1, lens[h])
        BY <1>9, <2>2
      <3>5. UNCHANGED <<lan, lens>>
        BY <2>2
      <3> QED
        BY <1>1, <1>2, <3>1, <3>2, <3>3, <3>4, <3>5, FrameHolds
    <2> QED
      BY <2>5, <2>6 DEF FrameInv
  <1>13. ASSUME F!DequePacket
         PROVE  FrameInv'
    <2>1. fPc = "loop" /\ F!Complete /\ UNCHANGED <<lan, lens, got>>
      BY <1>13 DEF F!DequePacket
    <2>2. w <= l /\ l = g - a /\ a <= g
      BY <1>3, <1>4, <1>5, <1>6, <2>1 DEF F!Complete
    (* The first byte tells which message it is: the next one. *)
    <2>3. h + 1 \in 1 .. Messages /\ content[1] = <<h + 1, 1 - w>>
      <3>1. h # Messages
        BY <1>3, <1>4, <1>5, <2>2
      <3>2. h + 1 \in 1 .. Messages /\ (h + 1) - 1 = h
        BY <1>3, <1>4, <1>5, <3>1
      <3>3. lens[h + 1] \in Nat
        BY <1>1, <3>2, FrameNat
      <3>4. 1 \in 1 .. w + lens[h + 1] /\ 1 \in 1 .. l
        BY <1>3, <1>4, <1>5, <2>2, <3>3
      <3>5. S[a + 1] = <<h + 1, 1 - w>>
        BY <1>2, <1>3, <1>4, <1>5, <3>2, <3>4 DEF Offsets
      <3>6. content[1] = S[a + 1]
        BY <1>6, <2>1, <3>4
      <3> QED
        BY <3>2, <3>5, <3>6
    <2>4. PICK k \in 1 .. Messages, b \in Nat, n \in Nat :
               /\ k = h + 1 /\ b = lens[k] /\ n = w + b
               /\ content[1][1] = k
      <3>1. content[1][1] = h + 1 /\ lens[h + 1] \in Nat
        BY <1>1, <2>3, FrameNat
      <3> QED
        BY <2>3, <3>1
    <2>5. n <= l /\ w < n + 1
      BY <1>3, <1>4, <1>5, <2>1, <2>4 DEF F!Complete
    <2>6. o[k] = a + n
      <3>1. k - 1 = h
        BY <1>3, <1>4, <1>5, <2>4
      <3>2. o[k] = o[k - 1] + F!Header + lens[k]
        BY <1>2 DEF Offsets
      <3> QED
        BY <1>3, <1>4, <1>5, <2>4, <3>1, <3>2
    <2>7. CASE fPc' = "aborted" /\ UNCHANGED <<fFront, content, handed, last>>
      BY <1>3, <1>4, <1>5, <1>9, <1>10, <2>1, <2>7 DEF FramePlaces
    <2>8. CASE /\ last' = SubSeq(content, w + 1, n)
               /\ content' = SubSeq(content, n + 1, l)
               /\ fFront' = fFront + n /\ handed' = h + 1
               /\ UNCHANGED fPc
      <3>1. content' = SubSeq(S, (a + n) + 1, g)
        <4>1. SubSeq(SubSeq(S, a + 1, g), n + 1, l)
                = SubSeq(S, a + n + 1, a + l)
          <5>1. a <= g /\ g <= Len(S) /\ n <= l /\ l <= g - a
            BY <1>3, <2>2, <2>5
          <5> QED
            BY <5>1, CutOfCut
        <4>2. a + l = g
          BY <1>3, <1>4, <1>5, <2>2
        <4> QED
          BY <1>6, <2>1, <2>8, <4>1, <4>2
      <3>2. content' \in Seq(StreamByte) /\ Len(content') = l - n
        <4>1. a + n \in Nat /\ a + n <= g /\ g <= Len(S)
          BY <1>3, <2>2, <2>5
        <4>2. /\ SubSeq(S, (a + n) + 1, g) \in Seq(StreamByte)
              /\ Len(SubSeq(S, (a + n) + 1, g)) = g - (a + n)
          BY <4>1, Cut
        <4> QED
          BY <2>2, <3>1, <4>2
      <3>3. last' = F!Bytes(k, 1, b)
        <4>1. last' = SubSeq(S, a + w + 1, a + n)
          <5>1. SubSeq(SubSeq(S, a + 1, g), w + 1, n)
                  = SubSeq(S, a + w + 1, a + n)
            <6>1. a <= g /\ g <= Len(S) /\ w <= n /\ n <= g - a
              BY <1>3, <2>2, <2>4, <2>5
            <6> QED
              BY <6>1, CutOfCut
          <5> QED
            BY <1>6, <2>1, <2>8, <5>1
        <4>2. PICK c \in Nat, d \in Nat : c = a + w /\ d = a + n
          OBVIOUS
        <4>3. c <= d /\ d <= Len(S) /\ d - c = b
          <5>1. n = w + b
            BY <2>4
          <5>2. a <= g /\ l = g - a /\ n <= l
            BY <2>2, <2>5
          <5> QED
            BY <1>3, <4>2, <5>1, <5>2
        <4>4. /\ last' \in Seq(StreamByte) /\ Len(last') = b
              /\ \A i \in 1 .. b : last'[i] = S[c + i]
          <5>1. c <= d /\ d <= Len(S)
            BY <4>3
          <5>2. /\ SubSeq(S, c + 1, d) \in Seq(StreamByte)
                /\ Len(SubSeq(S, c + 1, d)) = d - c
                /\ \A i \in 1 .. d - c : SubSeq(S, c + 1, d)[i] = S[c + i]
            BY <5>1, Cut
          <5>3. last' = SubSeq(S, c + 1, d)
            BY <4>1, <4>2
          <5> QED
            BY <4>3, <5>2, <5>3
        <4>5. ASSUME NEW i \in 1 .. b
              PROVE  last'[i] = <<k, i>>
          <5>1. w + i \in 1 .. w + b /\ k - 1 = h /\ (w + i) - w = i
                /\ a + (w + i) = c + i
            <6>1. k = h + 1 /\ c = a + w
              BY <2>4, <4>2
            <6> QED
              BY <6>1
          <5>2. S[o[k - 1] + (w + i)] = <<k, (w + i) - F!Header>>
            BY <1>2, <1>3, <1>4, <1>5, <2>4, <5>1 DEF Offsets
          <5> QED
            BY <1>3, <1>4, <1>5, <4>4, <5>1, <5>2
        <4>6. last' = [i \in 1 .. b |-> <<k, i>>]
          <5>1. last' \in [1 .. b -> StreamByte]
            BY <4>4, LenProperties
          <5> QED
            BY <4>5, <5>1
        <4>7. F!Bytes(k, 1, b) = [i \in 1 .. b |-> <<k, i>>]
          <5>1. F!Bytes(k, 1, b) =
                  [i \in 1 .. b - 1 + 1 |-> <<k, 1 + i - 1>>]
            BY DEF F!Bytes
          <5>2. b - 1 + 1 = b /\ \A i \in 1 .. b : 1 + i - 1 = i
            OBVIOUS
          <5> QED
            BY <5>1, <5>2
        <4> QED
          BY <4>6, <4>7
      <3>4. FrameTypes' /\ FrameRoom'
        <4>1. handed' \in 0 .. Messages /\ fFront' \in Nat
          <5>1. handed' = k /\ fFront' = fFront + n
            BY <2>4, <2>8
          <5>2. k \in 0 .. Messages
            BY <1>5
          <5> QED
            BY <1>8, <5>1, <5>2
        <4>2. fFront' + Len(content') <= Capacity
          BY <1>8, <2>5, <2>8, <3>2
        <4> QED
          BY <1>1, <2>1, <2>8, <3>2, <4>1, <4>2
          DEF FrameTypes, FrameRoom, FramePlaces
      <3>5. FrameRest'
        <4>1. k = handed' /\ got' = g /\ k \in 0 .. Messages
          BY <1>3, <1>4, <1>5, <2>1, <2>4, <2>8
        <4>2. o[k] <= got' /\ content' = SubSeq(S, o[k] + 1, got')
          BY <1>3, <1>4, <1>5, <2>2, <2>5, <2>6, <3>1, <4>1
        <4>3. last' = F!Bytes(k, 1, lens[k])
          BY <2>4, <3>3
        <4> QED
          BY <1>1, <1>2, <1>3, <1>4, <1>5, <2>1, <4>1, <4>2, <4>3, FrameHolds
      <3> QED
        BY <3>4, <3>5 DEF FrameInv
    <2> QED
      BY <1>3, <1>4, <1>5, <1>13, <2>4, <2>7, <2>8 DEF F!DequePacket, F!Pop
  <1>14. ASSUME F!RestorePacket
         PROVE  FrameInv'
    <2>1. /\ fPc = "loop" /\ w <= l /\ fFront' = fFront + l
          /\ UNCHANGED <<lan, lens, got, handed, last>>
      BY <1>3, <1>4, <1>5, <1>9, <1>14 DEF F!RestorePacket
    <2>2. PICK r \in Nat : r = F!Room(F!rear) /\ r = Capacity - (fFront + l)
      <3>1. Capacity - (fFront + l) \in Nat
        BY <1>8
      <3>2. F!Room(F!rear) = Capacity - (fFront + l)
        BY <1>8 DEF F!Room
      <3> QED
        BY <3>1, <3>2
    <2>3. /\ content' = IF r < w
                        THEN SubSeq(content, w + 1, IF r < l - w THEN 0 ELSE l)
                        ELSE SubSeq(content, 1, IF r < l THEN w ELSE l)
          /\ fPc' = IF r < l THEN "lost" ELSE "swap"
      BY <1>3, <1>4, <1>5, <1>14, <2>2 DEF F!RestorePacket
    <2>4. CASE r < w /\ r < l - w
      <3>1. content' = SubSeq(content, w + 1, 0)
        BY <2>3, <2>4
      <3>2. content' = <<>>
        BY <1>3, <1>4, <1>5, <3>1, SubSeqEmpty
      <3>3. content' \in Seq(StreamByte) /\ Len(content') = 0
        BY <3>2, EmptySeq
      <3>4. fPc' = "lost"
        BY <1>3, <1>4, <1>5, <2>1, <2>3, <2>4
      <3> QED
        BY <1>3, <1>4, <1>5, <1>9, <1>10, <2>1, <3>3, <3>4 DEF FramePlaces
    <2>5. CASE r < w /\ ~(r < l - w)
      <3>1. content' = SubSeq(content, w + 1, l)
        BY <2>3, <2>5
      <3>2. content' \in Seq(StreamByte) /\ Len(content') = l - w
        <4>1. w <= l /\ l <= Len(content)
          BY <1>4, <2>1
        <4> QED
          BY <1>9, <3>1, <4>1, Cut
      <3>3. fPc' = "lost"
        BY <1>3, <1>4, <1>5, <2>1, <2>3, <2>5
      <3>4. fFront' \in Nat /\ fFront' + Len(content') <= Capacity
        BY <1>8, <2>1, <2>2, <2>5, <3>2
      <3> QED
        BY <1>3, <1>4, <1>5, <1>9, <1>10, <2>1, <3>2, <3>3,
           <3>4 DEF FramePlaces
    <2>6. CASE ~(r < w) /\ r < l
      <3>1. content' = SubSeq(content, 0 + 1, w)
        BY <2>3, <2>6
      <3>2. content' \in Seq(StreamByte) /\ Len(content') = w
        <4>1. 0 <= w /\ w <= Len(content)
          BY <1>3, <1>4, <1>5, <2>1
        <4> QED
          BY <1>3, <1>4, <1>5, <1>9, <3>1, <4>1, Cut
      <3>3. fPc' = "lost"
        BY <2>3, <2>6
      <3>4. fFront' \in Nat /\ fFront' + Len(content') <= Capacity
        BY <1>8, <2>1, <2>2, <2>6, <3>2
      <3> QED
        BY <1>3, <1>4, <1>5, <1>9, <1>10, <2>1, <3>2, <3>3,
           <3>4 DEF FramePlaces
    <2>7. CASE ~(r < w) /\ ~(r < l)
      <3>1. content' = SubSeq(content, 0 + 1, l)
        BY <2>3, <2>7
      <3>2. /\ content' \in Seq(StreamByte) /\ Len(content') = l
            /\ \A i \in 1 .. l : content'[i] = content[i]
        <4>1. 0 <= l /\ l <= Len(content)
          BY <1>3, <1>4, <1>5
        <4> QED
          BY <1>3, <1>4, <1>5, <1>9, <3>1, <4>1, Cut
      <3>3. content' = content
        BY <1>3, <1>4, <1>5, <1>9, <3>2, SeqEqual
      <3>4. fPc' = "swap"
        BY <2>3, <2>7
      <3>5. fFront' \in Nat /\ fFront' + Len(content') <= Capacity
        BY <1>8, <2>1, <2>2, <2>7, <3>2
      <3> QED
        BY <1>3, <1>4, <1>5, <1>9, <1>10, <2>1, <3>2, <3>3, <3>4,
           <3>5 DEF FramePlaces
    <2> QED
      BY <2>4, <2>5, <2>6, <2>7
  <1>15. ASSUME F!NothingMore
         PROVE  FrameInv'
    <2>1. /\ fPc = "loop" /\ fPc' = "swap"
          /\ UNCHANGED <<lan, lens, got, fFront, content, handed, last>>
      BY <1>15 DEF F!NothingMore
    <2> QED
      BY <1>3, <1>4, <1>5, <1>9, <1>10, <2>1 DEF FramePlaces
  <1>16. ASSUME F!SwapRecvBuffer
         PROVE  FrameInv'
    <2>1. /\ fPc = "swap" /\ fFront' = 0 /\ fPc' \in {"noreceive", "posted"}
          /\ UNCHANGED <<lan, lens, got, content, handed, last>>
      BY <1>16 DEF F!SwapRecvBuffer
    <2>2. fFront' \in Nat /\ fFront' + Len(content') <= Capacity
      BY <1>3, <1>4, <1>5, <1>9, <2>1
    <2> QED
      BY <1>3, <1>4, <1>5, <1>9, <1>10, <2>1, <2>2 DEF FramePlaces
  <1> QED
    BY <1>11, <1>12, <1>13, <1>14, <1>15, <1>16 DEF F!Next

(* So the bytes handed over are those of the message.                       *)
LEMMA FrameThen ==
    ASSUME FrameInv
    PROVE  F!TypeOK /\ F!Reassembled
  <1>1. FrameTypes /\ FrameRoom /\ FrameRest
    BY DEF FrameInv
  <1>2. F!Reassembled
    BY <1>1 DEF FrameRest, F!Reassembled, Upto, Message
  <1>3. F!TypeOK
    <2>1. Len(F!Stream) \in Nat
      <3>1. PICK o : Offsets(o)
        BY <1>1, StreamHas
      <3> QED
        BY <3>1, LenProperties DEF Offsets
    <2>2. got \in 0 .. Len(F!Stream) /\ handed \in 0 .. Messages
      BY <1>1, <2>1 DEF FrameTypes, FrameRest
    <2>3. fFront \in 0 .. Capacity /\ F!rear <= Capacity
      <3>1. Len(content) \in Nat
        BY <1>1, LenProperties DEF FrameTypes
      <3> QED
        BY <1>1, <3>1, FrameNat DEF FrameTypes, FrameRoom, F!rear
    <2> QED
      BY <1>1, <2>2, <2>3 DEF F!TypeOK, FrameTypes, FramePlaces
  <1> QED
    BY <1>2, <1>3

(* A buffer that is done with has no complete message at its front.         *)
FrameStuck ==
    /\ fPc \in {"swap", "noreceive"} => ~F!Complete
    /\ fPc = "noreceive" => Len(content) = Capacity

(* With the room for it, a buffer is put back as it was.                    *)
LEMMA FrameBack ==
    ASSUME FrameInv, F!RestorePacket, fPc' = "swap"
    PROVE  content' = content
  <1>1. FrameTypes /\ FrameRoom
    BY DEF FrameInv
  <1>2. PICK l \in Nat : l = Len(content)
    BY <1>1, LenProperties DEF FrameTypes
  <1>3. PICK r \in Int : r = F!Room(F!rear)
    <2>1. F!Room(F!rear) = Capacity - (fFront + Len(content))
      BY DEF F!Room, F!rear
    <2> QED
      BY <1>1, <1>2, <2>1, FrameNat DEF FrameTypes
  <1>4. PICK w \in Nat : w = F!Header /\ w <= l
    BY <1>1, <1>2, FrameNat DEF F!RestorePacket
  <1>5. r >= l /\ r >= w
    <2>1. fPc' = IF r < l THEN "lost" ELSE "swap"
      BY <1>2, <1>3 DEF F!RestorePacket
    <2>2. r >= l
      BY <2>1
    <2> QED
      BY <1>4, <2>2
  <1>6. content' = IF r < w
                   THEN SubSeq(content, w + 1, IF r < l - w THEN 0 ELSE l)
                   ELSE SubSeq(content, 1, IF r < l THEN w ELSE l)
    BY <1>2, <1>3, <1>4 DEF F!RestorePacket
  <1>7. content' = SubSeq(content, 0 + 1, l)
    BY <1>5, <1>6
  <1>8. /\ content' \in Seq(StreamByte) /\ Len(content') = l
        /\ \A i \in 1 .. l : content'[i] = content[i]
    <2>1. 0 <= l /\ l <= Len(content) /\ content \in Seq(StreamByte)
      BY <1>1, <1>2 DEF FrameTypes
    <2>2. /\ SubSeq(content, 0 + 1, l) \in Seq(StreamByte)
          /\ Len(SubSeq(content, 0 + 1, l)) = l - 0
          /\ \A i \in 1 .. l - 0 :
                SubSeq(content, 0 + 1, l)[i] = content[0 + i]
      BY <2>1, Cut
    <2> QED
      BY <1>7, <2>2
  <1> QED
    BY <1>1, <1>2, <1>8, SeqEqual DEF FrameTypes

LEMMA FrameStays ==
    ASSUME FrameInv, FrameStuck, [F!Next]_fVars
    PROVE  FrameStuck'
  <1>1. ASSUME UNCHANGED <<lan, lens, content>>
        PROVE  F!Complete' <=> F!Complete
    BY <1>1 DEF F!Complete, F!Header
  <1>2. CASE UNCHANGED fVars
    BY <1>1, <1>2 DEF fVars, FrameStuck
  <1>3. ASSUME NEW n \in 1 .. Capacity, F!MoveRear(n)
        PROVE  FrameStuck'
    BY <1>3 DEF F!MoveRear, FrameStuck
  <1>4. CASE F!DequePacket
    <2>1. fPc' \in {"loop", "aborted"}
      BY <1>4, Zenon DEF F!DequePacket
    <2> QED
      BY <2>1 DEF FrameStuck
  <1>5. CASE F!RestorePacket
    <2>1. ~F!Complete /\ fPc' \in {"lost", "swap"} /\ UNCHANGED <<lan, lens>>
      BY <1>5 DEF F!RestorePacket
    <2>2. fPc' = "swap" => ~F!Complete'
      BY <1>1, <1>5, <2>1, FrameBack
    <2> QED
      BY <2>1, <2>2 DEF FrameStuck
  <1>6. CASE F!NothingMore
    BY <1>1, <1>6 DEF F!NothingMore, FrameStuck
  <1>7. CASE F!SwapRecvBuffer
    <2>1. /\ fPc = "swap" /\ UNCHANGED <<lan, lens, content>>
          /\ fPc' = IF Capacity - Len(content) = 0 THEN "noreceive" ELSE "posted"
      BY <1>7 DEF F!SwapRecvBuffer, F!Room
    <2>2. Capacity \in Nat /\ Len(content) \in Nat
      BY FrameNat, LenProperties DEF FrameInv, FrameTypes
    <2>3. fPc' = "noreceive" => Len(content') = Capacity
      BY <2>1, <2>2
    <2>4. fPc' = "noreceive" => ~F!Complete'
      BY <1>1, <2>1 DEF FrameStuck
    <2> QED
      BY <2>1, <2>3, <2>4 DEF FrameStuck
  <1> QED
    BY <1>2, <1>3, <1>4, <1>5, <1>6, <1>7 DEF F!Next

(* So what fills a buffer is longer than it.                                *)
LEMMA FrameFull ==
    ASSUME FrameInv, FrameStuck
    PROVE  F!FullIsTooLong
  <1> SUFFICES ASSUME fPc = "noreceive", handed < Messages
               PROVE  F!Header + lens[handed + 1] > Capacity
    BY DEF F!FullIsTooLong
  <1>1. FrameTypes /\ FrameRest
    BY DEF FrameInv
  <1>2. PICK o : Offsets(o)
    BY <1>1, StreamHas
  <1>3. PICK h \in Nat : /\ h = handed /\ h + 1 \in 1 .. Messages
                         /\ h \in 0 .. Messages /\ (h + 1) - 1 = h
    BY <1>1, FrameNat DEF FrameTypes
  <1>4. PICK w \in Nat \ {0}, b \in Nat, c \in Nat :
             w = F!Header /\ b = lens[h + 1] /\ c = Capacity
    BY <1>1, <1>3, FrameNat
  <1>5. ~F!Complete /\ Len(content) = c
    BY <1>4 DEF FrameStuck
  <1>6. CASE c < w
    BY <1>3, <1>4, <1>6
  <1>7. CASE c >= w
    <2>1. PICK a \in Nat : a = o[h] /\ Len(Upto(handed)) = a
      BY <1>2, <1>3 DEF Offsets
    <2>2. PICK S \in Seq(StreamByte), g \in Nat :
               S = F!Stream /\ g = got /\ g <= Len(S)
      BY <1>1, <1>2 DEF Offsets, FrameTypes, FrameRest
    <2>3. a <= g /\ content = SubSeq(S, a + 1, g)
      BY <1>1, <2>1, <2>2 DEF FrameRest
    <2>4. /\ Len(SubSeq(S, a + 1, g)) = g - a
          /\ \A i \in 1 .. g - a : SubSeq(S, a + 1, g)[i] = S[a + i]
      BY <2>2, <2>3, Cut
    <2>5. 1 \in 1 .. g - a /\ 1 \in 1 .. w + b
      BY <1>4, <1>5, <1>7, <2>3, <2>4
    <2>6. content[1] = S[a + 1]
      BY <2>3, <2>4, <2>5
    <2>7. S[o[(h + 1) - 1] + 1] = <<h + 1, 1 - w>>
      BY <1>2, <1>3, <1>4, <2>2, <2>5 DEF Offsets
    <2>8. content[1][1] = h + 1
      BY <1>3, <2>1, <2>6, <2>7
    <2>9. ~(c >= w + b)
      BY <1>4, <1>5, <1>7, <2>8 DEF F!Complete
    <2> QED
      BY <1>3, <1>4, <2>9
  <1> QED
    BY <1>4, <1>6, <1>7

-----------------------------------------------------------------------------
LanPlace ==
    {"idle", "post", "recvd", "recheck", "check", "flush", "enqueue", "abort",
     "mark", "cancel", "dec", "close"}
LanThen == {"idle", "dec", "recheck", "flush", "enqueue", "abort"}

LanThreadType == [pc : LanPlace, id : Nat, then : LanThen]

(* Where a thread that goes on from pc to then may go. *)
LanGoesOn(r) ==
    /\ r.pc = "post" => r.then \in {"dec", "recheck"}
    /\ r.pc = "recvd" => r.then = "recheck"
    /\ r.pc \in {"mark", "cancel"} => r.then \in {"dec", "recheck"}
    /\ r.pc = "check" => r.then \in {"flush", "enqueue", "abort"}

LanTypes ==
    /\ login \in 0 .. SessionMax /\ id \in 0 .. SessionMax
    /\ released \in BOOLEAN /\ request \in BOOLEAN
    /\ status \in {"Active", "Marked"} /\ peer \in {"none", "open", "reset"}
    /\ recv \in {"none", "posted", "done", "deleted", "aborted"}
    /\ send \in {"none", "posted", "done", "aborted", "lost", "cancelled"}
    /\ io \in Int /\ queue \in Nat /\ sendCount \in Nat /\ calls \in Nat
    /\ lTh \in [L!LanThread -> LanThreadType]
    /\ \A t \in L!LanThread : LanGoesOn(lTh[t])

Working(r) == r.pc \notin {"idle", "close"}
LanWorking == {t \in L!LanThread : Working(lTh[t])}
LanOut == (IF recv # "none" THEN 1 ELSE 0)
          + (IF send \in {"posted", "done", "aborted", "lost"} THEN 1 ELSE 0)
LanCount == io = Cardinality(LanWorking) + LanOut

(* One receive at a time, posted or about to be. *)
Receives(r) == r.pc \in {"post", "recvd"}
LanReceive ==
    /\ \A t \in L!LanThread : Receives(lTh[t]) => recv = "none"
    /\ \A t, u \in L!LanThread :
          Receives(lTh[t]) /\ Receives(lTh[u]) => t = u

(* Whoever has found the session gone only gives the count back. *)
LanReleased ==
    released =>
        /\ recv = "none" /\ send \in {"none", "cancelled"}
        /\ \A t \in L!LanThread :
              lTh[t].pc \in {"idle", "close", "check", "dec"}

Enqueues(r) == r.pc = "enqueue" \/ (r.pc = "check" /\ r.then = "enqueue")
LanEnqueuing == {t \in L!LanThread : Enqueues(lTh[t])}
LanQueue ==
    /\ queue + Cardinality(LanEnqueuing) <= calls /\ calls <= MaxCalls
    /\ sendCount <= MaxCalls
    /\ send \in {"posted", "done"} => sendCount <= queue

LanInv == LanTypes /\ LanCount /\ LanReceive /\ LanReleased /\ LanQueue

(* There are finitely many threads.                                         *)
LEMMA LanFinite == IsFiniteSet(L!LanThread)
  <1>1. IsFiniteSet(Worker) /\ IsFiniteSet(Caller)
    BY LibraryAssumption
  <1>2. IsFiniteSet(Worker \cup Caller)
    BY <1>1, FS_Union
  <1>3. L!LanThread = (Worker \cup Caller) \cup {Acceptor}
    BY DEF L!LanThread
  <1> QED
    BY <1>2, <1>3, FS_AddElement

(* What one thread's move does to a set of threads told by their state. *)
LEMMA OneMoves ==
    ASSUME NEW T, IsFiniteSet(T), NEW A \in SUBSET T, NEW B \in SUBSET T,
           NEW t \in T, \A u \in T \ {t} : u \in A <=> u \in B
    PROVE  /\ Cardinality(A) \in Nat /\ Cardinality(B) \in Nat
           /\ (t \in A <=> t \in B) => A = B
           /\ t \notin A /\ t \in B => Cardinality(B) = Cardinality(A) + 1
           /\ t \in A /\ t \notin B => Cardinality(B) = Cardinality(A) - 1
  <1>1. IsFiniteSet(A) /\ IsFiniteSet(B)
    BY FS_Subset
  <1>2. Cardinality(A) \in Nat /\ Cardinality(B) \in Nat
    BY <1>1, FS_CardinalityType
  <1>3. (t \in A <=> t \in B) => A = B
    OBVIOUS
  <1>4. ASSUME t \notin A, t \in B
        PROVE  Cardinality(B) = Cardinality(A) + 1
    <2>1. B = A \cup {t}
      BY <1>4
    <2> QED
      BY <1>1, <1>4, <2>1, FS_AddElement
  <1>5. ASSUME t \in A, t \notin B
        PROVE  Cardinality(B) = Cardinality(A) - 1
    <2>1. B = A \ {t}
      BY <1>5
    <2> QED
      BY <1>1, <1>5, <2>1, FS_RemoveElement
  <1> QED
    BY <1>2, <1>3, <1>4, <1>5

(* One thread goes on: how many are at work, and how many enqueue.          *)
LEMMA LanMoves ==
    ASSUME LanTypes, NEW t \in L!LanThread, NEW r \in LanThreadType,
           LanGoesOn(r), lTh' = [lTh EXCEPT ![t] = r]
    PROVE  /\ lTh' \in [L!LanThread -> LanThreadType]
           /\ \A u \in L!LanThread : LanGoesOn(lTh'[u])
           /\ lTh'[t] = r /\ \A u \in L!LanThread \ {t} : lTh'[u] = lTh[u]
           /\ Cardinality(LanWorking) \in Nat
           /\ (Working(lTh[t]) <=> Working(r)) =>
                 Cardinality(LanWorking') = Cardinality(LanWorking)
           /\ ~Working(lTh[t]) /\ Working(r) =>
                 Cardinality(LanWorking') = Cardinality(LanWorking) + 1
           /\ Working(lTh[t]) /\ ~Working(r) =>
                 Cardinality(LanWorking') = Cardinality(LanWorking) - 1
           /\ Cardinality(LanEnqueuing) \in Nat
           /\ Cardinality(LanEnqueuing') \in Nat
           /\ (Enqueues(lTh[t]) <=> Enqueues(r)) =>
                 Cardinality(LanEnqueuing') = Cardinality(LanEnqueuing)
           /\ ~Enqueues(lTh[t]) /\ Enqueues(r) =>
                 Cardinality(LanEnqueuing') = Cardinality(LanEnqueuing) + 1
           /\ Enqueues(lTh[t]) /\ ~Enqueues(r) =>
                 Cardinality(LanEnqueuing') = Cardinality(LanEnqueuing) - 1
  <1>1. lTh \in [L!LanThread -> LanThreadType]
    BY DEF LanTypes
  <1>2. /\ lTh' \in [L!LanThread -> LanThreadType]
        /\ lTh'[t] = r /\ \A u \in L!LanThread \ {t} : lTh'[u] = lTh[u]
    BY <1>1
  <1>3. \A u \in L!LanThread : LanGoesOn(lTh'[u])
    <2>1. \A u \in L!LanThread : LanGoesOn(lTh[u])
      BY DEF LanTypes
    <2> QED
      BY <1>2, <2>1
  <1>4. /\ LanWorking \in SUBSET L!LanThread
        /\ LanWorking' \in SUBSET L!LanThread
        /\ \A u \in L!LanThread \ {t} : u \in LanWorking <=> u \in LanWorking'
        /\ t \in LanWorking <=> Working(lTh[t])
        /\ t \in LanWorking' <=> Working(r)
    BY <1>2 DEF LanWorking
  <1>5. /\ LanEnqueuing \in SUBSET L!LanThread
        /\ LanEnqueuing' \in SUBSET L!LanThread
        /\ \A u \in L!LanThread \ {t} :
              u \in LanEnqueuing <=> u \in LanEnqueuing'
        /\ t \in LanEnqueuing <=> Enqueues(lTh[t])
        /\ t \in LanEnqueuing' <=> Enqueues(r)
    BY <1>2 DEF LanEnqueuing
  <1>6. PICK w, x : w = LanWorking /\ x = LanWorking'
    OBVIOUS
  <1>7. PICK e, f : e = LanEnqueuing /\ f = LanEnqueuing'
    OBVIOUS
  <1>8. /\ Cardinality(w) \in Nat
        /\ (Working(lTh[t]) <=> Working(r)) => Cardinality(x) = Cardinality(w)
        /\ ~Working(lTh[t]) /\ Working(r) =>
              Cardinality(x) = Cardinality(w) + 1
        /\ Working(lTh[t]) /\ ~Working(r) =>
              Cardinality(x) = Cardinality(w) - 1
    BY <1>4, <1>6, LanFinite, OneMoves
  <1>9. /\ Cardinality(e) \in Nat /\ Cardinality(f) \in Nat
        /\ (Enqueues(lTh[t]) <=> Enqueues(r)) =>
              Cardinality(f) = Cardinality(e)
        /\ ~Enqueues(lTh[t]) /\ Enqueues(r) =>
              Cardinality(f) = Cardinality(e) + 1
        /\ Enqueues(lTh[t]) /\ ~Enqueues(r) =>
              Cardinality(f) = Cardinality(e) - 1
    BY <1>5, <1>7, LanFinite, OneMoves
  <1> QED
    BY <1>2, <1>3, <1>6, <1>7, <1>8, <1>9


(* A thread in the middle of its work goes on, and touches nothing. *)
LEMMA LanPasses ==
    ASSUME LanInv, NEW t \in L!LanThread, NEW r \in LanThreadType,
           LanGoesOn(r),
           lTh' = [lTh EXCEPT ![t] = r],
           UNCHANGED <<login, id, released, io, status, peer, recv, send,
                       sendCount, queue, request, calls>>,
           Working(r) <=> Working(lTh[t]),
           Receives(r) => Receives(lTh[t]),
           Enqueues(r) => Enqueues(lTh[t]),
           released => r.pc \in {"idle", "close", "check", "dec"}
    PROVE  LanInv'
  <1>1. LanTypes
    BY DEF LanInv
  <1>2. /\ lTh' \in [L!LanThread -> LanThreadType]
        /\ \A u \in L!LanThread : LanGoesOn(lTh'[u])
        /\ lTh'[t] = r /\ \A u \in L!LanThread \ {t} : lTh'[u] = lTh[u]
        /\ Cardinality(LanWorking') = Cardinality(LanWorking)
        /\ Cardinality(LanEnqueuing) \in Nat
        /\ Cardinality(LanEnqueuing') \in Nat
        /\ Cardinality(LanEnqueuing') <= Cardinality(LanEnqueuing)
    <2>1. Cardinality(LanWorking') = Cardinality(LanWorking)
      BY <1>1, LanMoves
    <2>2. /\ (Enqueues(lTh[t]) <=> Enqueues(r)) =>
                 Cardinality(LanEnqueuing') = Cardinality(LanEnqueuing)
          /\ Enqueues(lTh[t]) /\ ~Enqueues(r) =>
                 Cardinality(LanEnqueuing') = Cardinality(LanEnqueuing) - 1
          /\ Cardinality(LanEnqueuing) \in Nat
      BY <1>1, LanMoves
    <2>3. Cardinality(LanEnqueuing') <= Cardinality(LanEnqueuing)
      <3>1. PICK e, f : /\ e = Cardinality(LanEnqueuing)
                        /\ f = Cardinality(LanEnqueuing')
        OBVIOUS
      <3>2. e \in Nat /\ (f = e \/ f = e - 1)
        BY <2>2, <3>1
      <3>3. f <= e
        BY <3>2
      <3> QED
        BY <3>1, <3>3
    <2> QED
      BY <1>1, <2>1, <2>3, LanMoves
  <1>3. LanTypes'
    BY <1>2 DEF LanInv, LanTypes
  <1>4. LanCount'
    BY <1>2 DEF LanInv, LanCount, LanOut
  <1>5. LanReceive'
    BY <1>2 DEF LanInv, LanReceive
  <1>6. LanReleased'
    BY <1>2 DEF LanInv, LanReleased
  <1>7. LanQueue'
    <2>1. queue \in Nat /\ calls \in Nat
      BY DEF LanInv, LanTypes
    <2> QED
      BY <1>2, <2>1 DEF LanInv, LanQueue
  <1> QED
    BY <1>3, <1>4, <1>5, <1>6, <1>7 DEF LanInv

(* What the state of one thread is made of.                                 *)
LEMMA LanThreads ==
    ASSUME LanInv, NEW t \in L!LanThread
    PROVE  lTh[t] \in LanThreadType /\ LanGoesOn(lTh[t])
  BY DEF LanInv, LanTypes

(* The actions, one by one.                                                 *)
LEMMA ReceivedKeeps ==
    ASSUME LanInv, NEW t \in L!LanThread, L!Received(t)
    PROVE  LanInv'
  <1> DEFINE r == [lTh[t] EXCEPT
                     !.pc = IF status = "Active" THEN "post" ELSE "dec"]
  <1>1. /\ lTh[t].pc = "recvd" /\ lTh' = [lTh EXCEPT ![t] = r]
        /\ UNCHANGED <<login, id, released, io, status, peer, recv, send,
                       sendCount, queue, request, calls>>
    <2>1. lTh' = [lTh EXCEPT ![t] = r]
      BY DEF L!Received, L!Goto
    <2> QED
      BY <2>1 DEF L!Received, L!At, L!slot, L!ops
  <1>2. lTh[t] \in LanThreadType /\ lTh[t].then = "recheck"
    BY <1>1, LanThreads DEF LanGoesOn
  <1>3. /\ r \in LanThreadType /\ r.pc \in {"post", "dec"}
        /\ r.then = "recheck"
    BY <1>2 DEF LanThreadType, LanPlace
  <1>4. ~released
    BY <1>1 DEF LanInv, LanReleased
  <1> HIDE DEF r
  <1>5. LanGoesOn(r)
    BY <1>3 DEF LanGoesOn
  <1> QED
    BY <1>1, <1>3, <1>4, <1>5, LanPasses DEF Working, Receives, Enqueues

LEMMA RecheckKeeps ==
    ASSUME LanInv, NEW t \in L!LanThread, L!Recheck(t)
    PROVE  LanInv'
  <1>1. /\ lTh[t].pc = "recheck"
        /\ UNCHANGED <<login, id, released, io, status, peer, recv, send,
                       sendCount, queue, request, calls>>
    BY DEF L!Recheck, L!At, L!slot, L!ops
  <1>2. lTh[t] \in LanThreadType
    BY LanThreads
  <1>3. ~released
    BY <1>1 DEF LanInv, LanReleased
  <1>4. PICK r \in LanThreadType :
             /\ lTh' = [lTh EXCEPT ![t] = r]
             /\ r.pc = "dec" \/ (r.pc = "mark" /\ r.then = "dec")
    <2>1. CASE status = "Active"
      <3> DEFINE r == [lTh[t] EXCEPT !.pc = "dec"]
      <3>1. r \in LanThreadType /\ r.pc = "dec"
        BY <1>2 DEF LanThreadType, LanPlace
      <3>2. lTh' = [lTh EXCEPT ![t] = r]
        BY <2>1 DEF L!Recheck, L!Goto
      <3> QED
        BY <3>1, <3>2
    <2>2. CASE status # "Active"
      <3> DEFINE r == [lTh[t] EXCEPT !.pc = "mark", !.then = "dec"]
      <3>1. r \in LanThreadType /\ r.pc = "mark" /\ r.then = "dec"
        BY <1>2 DEF LanThreadType, LanPlace, LanThen
      <3>2. lTh' = [lTh EXCEPT ![t] = r]
        BY <2>2 DEF L!Recheck, L!Abort
      <3> QED
        BY <3>1, <3>2
    <2> QED
      BY <2>1, <2>2
  <1>5. LanGoesOn(r)
    BY <1>4 DEF LanGoesOn
  <1> QED
    BY <1>1, <1>3, <1>4, <1>5, LanPasses DEF Working, Receives, Enqueues

LEMMA CheckSessionKeeps ==
    ASSUME LanInv, NEW t \in L!LanThread, L!CheckSession(t)
    PROVE  LanInv'
  <1> DEFINE r == [lTh[t] EXCEPT !.pc = IF released \/ id # lTh[t].id
                                        THEN "dec" ELSE lTh[t].then]
  <1>1. /\ lTh[t].pc = "check" /\ lTh' = [lTh EXCEPT ![t] = r]
        /\ UNCHANGED <<login, id, released, io, status, peer, recv, send,
                       sendCount, queue, request, calls>>
    <2>1. lTh' = [lTh EXCEPT ![t] = r]
      BY DEF L!CheckSession, L!Goto
    <2> QED
      BY <2>1 DEF L!CheckSession, L!At, L!slot, L!ops
  <1>2. /\ lTh[t] \in LanThreadType
        /\ lTh[t].then \in {"flush", "enqueue", "abort"}
    BY <1>1, LanThreads DEF LanGoesOn
  <1>3. /\ r \in LanThreadType
        /\ r.pc = "dec" \/ (~released /\ r.pc = lTh[t].then)
    BY <1>2 DEF LanThreadType, LanPlace
  <1> HIDE DEF r
  <1>4. LanGoesOn(r)
    BY <1>2, <1>3 DEF LanGoesOn
  <1> QED
    BY <1>1, <1>2, <1>3, <1>4, LanPasses DEF Working, Receives, Enqueues

LEMMA StartAbortKeeps ==
    ASSUME LanInv, NEW t \in L!LanThread, L!StartAbort(t)
    PROVE  LanInv'
  <1> DEFINE r == [lTh[t] EXCEPT !.pc = "mark", !.then = "dec"]
  <1>1. /\ lTh[t].pc = "abort" /\ lTh' = [lTh EXCEPT ![t] = r]
        /\ UNCHANGED <<login, id, released, io, status, peer, recv, send,
                       sendCount, queue, request, calls>>
    BY DEF L!StartAbort, L!Abort, L!At, L!slot, L!ops
  <1>2. lTh[t] \in LanThreadType
    BY LanThreads
  <1>3. r \in LanThreadType /\ r.pc = "mark" /\ r.then = "dec"
    BY <1>2 DEF LanThreadType, LanPlace, LanThen
  <1>4. ~released
    BY <1>1 DEF LanInv, LanReleased
  <1> HIDE DEF r
  <1>5. LanGoesOn(r)
    BY <1>3 DEF LanGoesOn
  <1> QED
    BY <1>1, <1>3, <1>4, <1>5, LanPasses DEF Working, Receives, Enqueues

LEMMA RecvPostKeeps ==
    ASSUME LanInv, NEW t \in L!LanThread, L!RecvPost(t), peer # "reset"
    PROVE  LanInv'
  <1> DEFINE r == [lTh[t] EXCEPT !.pc = lTh[t].then]
  <1>1. /\ lTh[t].pc = "post" /\ lTh' = [lTh EXCEPT ![t] = r]
        /\ recv' = "posted" /\ io' = io + 1
        /\ UNCHANGED <<login, id, released, status, peer, send, sendCount,
                       queue, request, calls>>
    BY DEF L!RecvPost, L!Goto, L!At
  <1>2. /\ r \in LanThreadType /\ r.pc \in {"dec", "recheck"}
        /\ lTh[t].pc = "post"
    <2>1. lTh[t] \in LanThreadType /\ LanGoesOn(lTh[t])
      BY LanThreads
    <2> QED
      BY <1>1, <2>1 DEF LanGoesOn, LanThreadType, LanPlace, LanThen
  <1> HIDE DEF r
  <1>3. LanGoesOn(r)
    BY <1>1, <1>2 DEF LanGoesOn
  <1>4. /\ lTh' \in [L!LanThread -> LanThreadType]
        /\ \A u \in L!LanThread : LanGoesOn(lTh'[u])
        /\ lTh'[t] = r /\ \A u \in L!LanThread \ {t} : lTh'[u] = lTh[u]
        /\ Cardinality(LanWorking') = Cardinality(LanWorking)
        /\ Cardinality(LanEnqueuing') = Cardinality(LanEnqueuing)
        /\ Cardinality(LanWorking) \in Nat
        /\ Cardinality(LanEnqueuing) \in Nat
        /\ Cardinality(LanEnqueuing') \in Nat
    <2>1. LanTypes
      BY DEF LanInv
    <2>2. Cardinality(LanWorking') = Cardinality(LanWorking)
      BY <1>1, <1>2, <1>3, <2>1, LanMoves DEF Working
    <2>3. Cardinality(LanEnqueuing') = Cardinality(LanEnqueuing)
      BY <1>1, <1>2, <1>3, <2>1, LanMoves DEF Enqueues
    <2> QED
      BY <1>1, <1>2, <1>3, <2>1, <2>2, <2>3, LanMoves
  <1>5. LanTypes'
    BY <1>1, <1>4 DEF LanInv, LanTypes
  <1>6. LanCount'
    BY <1>1, <1>4 DEF LanInv, LanCount, LanOut, LanTypes, LanReceive, Receives
  <1>7. LanReceive'
    BY <1>1, <1>2, <1>4 DEF LanInv, LanReceive, Receives
  <1>8. LanReleased'
    BY <1>1, <1>2, <1>4 DEF LanInv, LanReleased
  <1>9. LanQueue'
    BY <1>1, <1>4 DEF LanInv, LanQueue, LanTypes
  <1> QED
    BY <1>5, <1>6, <1>7, <1>8, <1>9 DEF LanInv

LEMMA RecvPostFails ==
    ASSUME LanInv, NEW t \in L!LanThread, L!RecvPost(t), peer = "reset"
    PROVE  LanInv'
  <1> DEFINE r == [lTh[t] EXCEPT !.pc = "mark"]
  <1>1. /\ lTh[t].pc = "post"
        /\ lTh' = [lTh EXCEPT ![t].pc = "mark", ![t].then = lTh[t].then]
        /\ UNCHANGED <<login, id, released, io, status, peer, recv, send,
                       sendCount, queue, request, calls>>
    BY DEF L!RecvPost, L!Abort, L!At
  <1>2. lTh[t] \in LanThreadType /\ lTh[t].then \in {"dec", "recheck"}
    BY <1>1, LanThreads DEF LanGoesOn
  <1>3. lTh' = [lTh EXCEPT ![t] = r]
    <2>1. lTh \in [L!LanThread -> LanThreadType]
      BY DEF LanInv, LanTypes
    <2> QED
      BY <1>1, <1>2, <2>1 DEF LanThreadType
  <1>4. /\ r \in LanThreadType /\ r.pc = "mark"
        /\ r.then \in {"dec", "recheck"}
    BY <1>2 DEF LanThreadType, LanPlace, LanThen
  <1>5. ~released
    BY <1>1 DEF LanInv, LanReleased
  <1> HIDE DEF r
  <1>6. LanGoesOn(r)
    BY <1>4 DEF LanGoesOn
  <1> QED
    BY <1>1, <1>3, <1>4, <1>5, <1>6, LanPasses
       DEF Working, Receives, Enqueues

LEMMA RecvCompletesKeeps ==
    ASSUME LanInv, NEW t \in Worker, L!RecvCompletes(t)
    PROVE  LanInv'
  <1> DEFINE r == [pc |-> IF recv = "aborted" THEN "dec" ELSE "recvd",
                   id |-> id, then |-> "recheck"]
  <1> t \in L!LanThread
    BY DEF L!LanThread
  <1>1. /\ lTh[t].pc = "idle" /\ lTh' = [lTh EXCEPT ![t] = r]
        /\ recv # "none" /\ recv' = "none"
        /\ UNCHANGED <<login, id, released, io, status, peer, send, sendCount,
                       queue, request, calls>>
    BY DEF L!RecvCompletes, L!At, L!slot
  <1>2. /\ r \in LanThreadType /\ r.pc \in {"dec", "recvd"}
        /\ r.then = "recheck"
    <2>1. id \in Nat
      BY LibraryAssumption DEF LanInv, LanTypes
    <2> QED
      BY <2>1 DEF LanThreadType, LanPlace, LanThen
  <1> HIDE DEF r
  <1>3. LanGoesOn(r)
    BY <1>1, <1>2 DEF LanGoesOn
  <1>4. /\ lTh' \in [L!LanThread -> LanThreadType]
        /\ \A u \in L!LanThread : LanGoesOn(lTh'[u])
        /\ lTh'[t] = r /\ \A u \in L!LanThread \ {t} : lTh'[u] = lTh[u]
        /\ Cardinality(LanWorking') = Cardinality(LanWorking) + 1
        /\ Cardinality(LanEnqueuing') = Cardinality(LanEnqueuing)
        /\ Cardinality(LanWorking) \in Nat
        /\ Cardinality(LanEnqueuing) \in Nat
        /\ Cardinality(LanEnqueuing') \in Nat
    <2>1. LanTypes
      BY DEF LanInv
    <2>2. Cardinality(LanWorking') = Cardinality(LanWorking) + 1
      BY <1>1, <1>2, <1>3, <2>1, LanMoves DEF Working
    <2>3. Cardinality(LanEnqueuing') = Cardinality(LanEnqueuing)
      BY <1>1, <1>2, <1>3, <2>1, LanMoves DEF Enqueues
    <2> QED
      BY <1>1, <1>2, <1>3, <2>1, <2>2, <2>3, LanMoves
  <1>5. LanTypes'
    BY <1>1, <1>4 DEF LanInv, LanTypes
  <1>6. LanCount'
    BY <1>1, <1>4 DEF LanInv, LanCount, LanOut, LanTypes, LanReceive, Receives
  <1>7. LanReceive'
    BY <1>1, <1>2, <1>4 DEF LanInv, LanReceive, Receives
  <1>8. LanReleased'
    BY <1>1, <1>2, <1>4 DEF LanInv, LanReleased
  <1>9. LanQueue'
    BY <1>1, <1>4 DEF LanInv, LanQueue, LanTypes
  <1> QED
    BY <1>5, <1>6, <1>7, <1>8, <1>9 DEF LanInv

LEMMA SendCompletesKeeps ==
    ASSUME LanInv, NEW t \in Worker, L!SendCompletes(t)
    PROVE  LanInv'
  <1> DEFINE r == [pc |-> IF send = "done" THEN "recheck" ELSE "dec",
                   id |-> id, then |-> "dec"]
  <1> t \in L!LanThread
    BY DEF L!LanThread
  <1>1. /\ lTh[t].pc = "idle" /\ lTh' = [lTh EXCEPT ![t] = r]
        /\ send \in {"done", "aborted"}
        /\ send' = IF send = "done" THEN "none" ELSE "cancelled"
        /\ queue' = IF send = "done" THEN queue - sendCount ELSE queue
        /\ UNCHANGED <<login, id, released, io, status, peer, recv, sendCount,
                       request, calls>>
    BY DEF L!SendCompletes, L!At, L!slot
  <1>2. /\ r \in LanThreadType /\ r.pc \in {"dec", "recheck"}
        /\ r.then = "dec"
    <2>1. id \in Nat
      BY LibraryAssumption DEF LanInv, LanTypes
    <2> QED
      BY <2>1 DEF LanThreadType, LanPlace, LanThen
  <1> HIDE DEF r
  <1>3. LanGoesOn(r)
    BY <1>1, <1>2 DEF LanGoesOn
  <1>4. /\ lTh' \in [L!LanThread -> LanThreadType]
        /\ \A u \in L!LanThread : LanGoesOn(lTh'[u])
        /\ lTh'[t] = r /\ \A u \in L!LanThread \ {t} : lTh'[u] = lTh[u]
        /\ Cardinality(LanWorking') = Cardinality(LanWorking) + 1
        /\ Cardinality(LanEnqueuing') = Cardinality(LanEnqueuing)
        /\ Cardinality(LanWorking) \in Nat
        /\ Cardinality(LanEnqueuing) \in Nat
        /\ Cardinality(LanEnqueuing') \in Nat
    <2>1. LanTypes
      BY DEF LanInv
    <2>2. Cardinality(LanWorking') = Cardinality(LanWorking) + 1
      BY <1>1, <1>2, <1>3, <2>1, LanMoves DEF Working
    <2>3. Cardinality(LanEnqueuing') = Cardinality(LanEnqueuing)
      BY <1>1, <1>2, <1>3, <2>1, LanMoves DEF Enqueues
    <2> QED
      BY <1>1, <1>2, <1>3, <2>1, <2>2, <2>3, LanMoves
  <1>5. LanTypes'
    BY <1>1, <1>4 DEF LanInv, LanTypes, LanQueue
  <1>6. LanCount'
    BY <1>1, <1>4 DEF LanInv, LanCount, LanOut, LanTypes, LanReceive, Receives
  <1>7. LanReceive'
    BY <1>1, <1>2, <1>4 DEF LanInv, LanReceive, Receives
  <1>8. LanReleased'
    BY <1>1, <1>2, <1>4 DEF LanInv, LanReleased
  <1>9. LanQueue'
    BY <1>1, <1>4 DEF LanInv, LanQueue, LanTypes
  <1> QED
    BY <1>5, <1>6, <1>7, <1>8, <1>9 DEF LanInv

LEMMA AcceptKeeps ==
    ASSUME LanInv, L!Accept
    PROVE  LanInv'
  <1> DEFINE r == [lTh[Acceptor] EXCEPT !.pc = "post", !.id = login + 1,
                                        !.then = "dec"]
  <1> Acceptor \in L!LanThread
    BY DEF L!LanThread
  <1>1. /\ lTh[Acceptor].pc = "idle" /\ lTh' = [lTh EXCEPT ![Acceptor] = r]
        /\ login # SessionMax /\ released
        /\ login' = login + 1 /\ id' = login + 1 /\ released' = FALSE
        /\ io' = io + 1 /\ peer' = "open" /\ send' = "none"
        /\ UNCHANGED <<status, recv, sendCount, queue, request, calls>>
    BY DEF L!Accept, L!At
  <1>2. /\ r \in LanThreadType /\ r.pc = "post" /\ r.then = "dec"
    <2>1. login + 1 \in Nat
      BY LibraryAssumption DEF LanInv, LanTypes
    <2>2. lTh[Acceptor] \in LanThreadType
      BY LanThreads
    <2> QED
      BY <2>1, <2>2 DEF LanThreadType, LanPlace, LanThen
  <1> HIDE DEF r
  <1>3. LanGoesOn(r)
    BY <1>1, <1>2 DEF LanGoesOn
  <1>4. /\ lTh' \in [L!LanThread -> LanThreadType]
        /\ \A u \in L!LanThread : LanGoesOn(lTh'[u])
        /\ lTh'[Acceptor] = r
        /\ \A u \in L!LanThread \ {Acceptor} : lTh'[u] = lTh[u]
        /\ Cardinality(LanWorking') = Cardinality(LanWorking) + 1
        /\ Cardinality(LanEnqueuing') = Cardinality(LanEnqueuing)
        /\ Cardinality(LanWorking) \in Nat
        /\ Cardinality(LanEnqueuing) \in Nat
        /\ Cardinality(LanEnqueuing') \in Nat
    <2>1. LanTypes
      BY DEF LanInv
    <2>2. Cardinality(LanWorking') = Cardinality(LanWorking) + 1
      BY <1>1, <1>2, <1>3, <2>1, LanMoves DEF Working
    <2>3. Cardinality(LanEnqueuing') = Cardinality(LanEnqueuing)
      BY <1>1, <1>2, <1>3, <2>1, LanMoves DEF Enqueues
    <2> QED
      BY <1>1, <1>2, <1>3, <2>1, <2>2, <2>3, LanMoves
  <1>5. LanTypes'
    <2>1. login \in 0 .. SessionMax /\ SessionMax \in Nat /\ io \in Int
      BY LibraryAssumption DEF LanInv, LanTypes
    <2>2. login + 1 \in 0 .. SessionMax /\ io + 1 \in Int
      BY <1>1, <2>1
    <2> QED
      BY <1>1, <1>4, <2>2 DEF LanInv, LanTypes
  <1>6. LanCount'
    BY <1>1, <1>4 DEF LanInv, LanCount, LanOut, LanTypes, LanReceive,
       Receives, LanReleased
  <1>7. LanReceive'
    BY <1>1, <1>2, <1>4 DEF LanInv, LanReceive, Receives, LanReleased
  <1>8. LanReleased'
    BY <1>1, <1>2, <1>4 DEF LanInv, LanReleased
  <1>9. LanQueue'
    BY <1>1, <1>4 DEF LanInv, LanQueue, LanTypes
  <1> QED
    BY <1>5, <1>6, <1>7, <1>8, <1>9 DEF LanInv

LEMMA ResetKeeps ==
    ASSUME LanInv, L!Reset
    PROVE  LanInv'
  <1>1. /\ peer = "open" /\ peer' = "reset"
        /\ recv' \in IF recv = "posted" THEN {"deleted", "aborted"} ELSE {recv}
        /\ send' \in IF send = "posted" THEN {"done", "aborted"} ELSE {send}
        /\ UNCHANGED <<login, id, released, io, status, sendCount, queue,
                       request, calls, lTh>>
    BY DEF L!Reset, L!slot
  <1>2. LanWorking' = LanWorking /\ LanEnqueuing' = LanEnqueuing
    BY <1>1 DEF LanWorking, LanEnqueuing
  <1>3. LanTypes'
    BY <1>1 DEF LanInv, LanTypes
  <1>4. LanCount'
    BY <1>1, <1>2 DEF LanInv, LanCount, LanOut, LanTypes
  <1>5. LanReceive'
    BY <1>1 DEF LanInv, LanReceive, Receives
  <1>6. LanReleased'
    BY <1>1 DEF LanInv, LanReleased
  <1>7. LanQueue'
    BY <1>1, <1>2 DEF LanInv, LanQueue, LanTypes
  <1> QED
    BY <1>3, <1>4, <1>5, <1>6, <1>7 DEF LanInv

LEMMA ArrivesKeeps ==
    ASSUME LanInv, L!Arrives
    PROVE  LanInv'
  <1>1. /\ recv = "posted" /\ recv' = "done"
        /\ UNCHANGED <<login, id, released, io, status, peer, send, sendCount,
                       queue, request, calls, lTh>>
    BY DEF L!Arrives, L!slot
  <1>2. LanWorking' = LanWorking /\ LanEnqueuing' = LanEnqueuing
    BY <1>1 DEF LanWorking, LanEnqueuing
  <1>3. LanTypes'
    BY <1>1 DEF LanInv, LanTypes
  <1>4. LanCount'
    BY <1>1, <1>2 DEF LanInv, LanCount, LanOut, LanTypes
  <1>5. LanReceive'
    BY <1>1 DEF LanInv, LanReceive, Receives
  <1>6. LanReleased'
    BY <1>1 DEF LanInv, LanReleased
  <1>7. LanQueue'
    BY <1>1, <1>2 DEF LanInv, LanQueue, LanTypes
  <1> QED
    BY <1>3, <1>4, <1>5, <1>6, <1>7 DEF LanInv

LEMMA SentKeeps ==
    ASSUME LanInv, L!Sent
    PROVE  LanInv'
  <1>1. /\ send = "posted" /\ send' = "done"
        /\ UNCHANGED <<login, id, released, io, status, peer, recv, sendCount,
                       queue, request, calls, lTh>>
    BY DEF L!Sent, L!slot
  <1>2. LanWorking' = LanWorking /\ LanEnqueuing' = LanEnqueuing
    BY <1>1 DEF LanWorking, LanEnqueuing
  <1>3. LanTypes'
    BY <1>1 DEF LanInv, LanTypes
  <1>4. LanCount'
    BY <1>1, <1>2 DEF LanInv, LanCount, LanOut, LanTypes
  <1>5. LanReceive'
    BY <1>1 DEF LanInv, LanReceive, Receives
  <1>6. LanReleased'
    BY <1>1 DEF LanInv, LanReleased
  <1>7. LanQueue'
    BY <1>1, <1>2 DEF LanInv, LanQueue, LanTypes
  <1> QED
    BY <1>3, <1>4, <1>5, <1>6, <1>7 DEF LanInv

LEMMA FlushStarts ==
    ASSUME LanInv, NEW t \in Worker, L!SendToAllSessions(t), ~released
    PROVE  LanInv'
  <1> DEFINE r == [pc |-> "check", id |-> id, then |-> "flush"]
  <1> t \in L!LanThread
    BY DEF L!LanThread
  <1>1. /\ lTh[t].pc = "idle" /\ lTh' = [lTh EXCEPT ![t] = r]
        /\ request' = FALSE /\ io' = io + 1
        /\ UNCHANGED <<login, id, released, status, peer, recv, send,
                       sendCount, queue, calls>>
    BY DEF L!SendToAllSessions, L!At, L!ops
  <1>2. /\ r \in LanThreadType /\ r.pc = "check" /\ r.then = "flush"
    <2>1. id \in Nat
      BY LibraryAssumption DEF LanInv, LanTypes
    <2> QED
      BY <2>1 DEF LanThreadType, LanPlace, LanThen
  <1> HIDE DEF r
  <1>3. LanGoesOn(r)
    BY <1>1, <1>2 DEF LanGoesOn
  <1>4. /\ lTh' \in [L!LanThread -> LanThreadType]
        /\ \A u \in L!LanThread : LanGoesOn(lTh'[u])
        /\ lTh'[t] = r /\ \A u \in L!LanThread \ {t} : lTh'[u] = lTh[u]
        /\ Cardinality(LanWorking') = Cardinality(LanWorking) + 1
        /\ Cardinality(LanEnqueuing') = Cardinality(LanEnqueuing)
        /\ Cardinality(LanWorking) \in Nat
        /\ Cardinality(LanEnqueuing) \in Nat
        /\ Cardinality(LanEnqueuing') \in Nat
    <2>1. LanTypes
      BY DEF LanInv
    <2>2. Cardinality(LanWorking') = Cardinality(LanWorking) + 1
      BY <1>1, <1>2, <1>3, <2>1, LanMoves DEF Working
    <2>3. Cardinality(LanEnqueuing') = Cardinality(LanEnqueuing)
      BY <1>1, <1>2, <1>3, <2>1, LanMoves DEF Enqueues
    <2> QED
      BY <1>1, <1>2, <1>3, <2>1, <2>2, <2>3, LanMoves
  <1>5. LanTypes'
    <2>1. LanTypes /\ io + 1 \in Int
      BY DEF LanInv, LanTypes
    <2> QED
      BY <1>1, <1>4, <2>1 DEF LanTypes
  <1>6. LanCount'
    BY <1>1, <1>4 DEF LanInv, LanCount, LanOut, LanTypes, LanReceive, Receives
  <1>7. LanReceive'
    BY <1>1, <1>2, <1>4 DEF LanInv, LanReceive, Receives
  <1>8. LanReleased'
    BY <1>1, <1>2, <1>4 DEF LanInv, LanReleased
  <1>9. LanQueue'
    BY <1>1, <1>4 DEF LanInv, LanQueue, LanTypes
  <1> QED
    BY <1>5, <1>6, <1>7, <1>8, <1>9 DEF LanInv

LEMMA FlushLate ==
    ASSUME LanInv, NEW t \in Worker, L!SendToAllSessions(t), released
    PROVE  LanInv'
  <1>1. /\ request' = FALSE
        /\ UNCHANGED <<login, id, released, io, status, peer, recv, send,
                       sendCount, queue, calls, lTh>>
    BY DEF L!SendToAllSessions, L!ops
  <1>2. LanWorking' = LanWorking /\ LanEnqueuing' = LanEnqueuing
    BY <1>1 DEF LanWorking, LanEnqueuing
  <1>3. LanTypes'
    BY <1>1 DEF LanInv, LanTypes
  <1>4. LanCount'
    BY <1>1, <1>2 DEF LanInv, LanCount, LanOut, LanTypes
  <1>5. LanReceive'
    BY <1>1 DEF LanInv, LanReceive, Receives
  <1>6. LanReleased'
    BY <1>1 DEF LanInv, LanReleased
  <1>7. LanQueue'
    BY <1>1, <1>2 DEF LanInv, LanQueue, LanTypes
  <1> QED
    BY <1>3, <1>4, <1>5, <1>6, <1>7 DEF LanInv

LEMMA CallEnqueues ==
    ASSUME LanInv, NEW t \in Caller, NEW i \in 1 .. login,
           L!Call(t, i, "enqueue")
    PROVE  LanInv'
  <1> DEFINE r == [pc |-> "check", id |-> i, then |-> "enqueue"]
  <1> t \in L!LanThread
    BY DEF L!LanThread
  <1>1. /\ lTh[t].pc = "idle" /\ lTh' = [lTh EXCEPT ![t] = r]
        /\ calls < MaxCalls /\ calls' = calls + 1 /\ io' = io + 1
        /\ UNCHANGED <<login, id, released, status, peer, recv, send,
                       sendCount, queue, request>>
    BY DEF L!Call, L!At, L!ops
  <1>2. /\ r \in LanThreadType /\ r.pc = "check" /\ r.then = "enqueue"
    <2>1. i \in Nat
      BY LibraryAssumption DEF LanInv, LanTypes
    <2> QED
      BY <2>1 DEF LanThreadType, LanPlace, LanThen
  <1> HIDE DEF r
  <1>3. LanGoesOn(r)
    BY <1>1, <1>2 DEF LanGoesOn
  <1>4. /\ lTh' \in [L!LanThread -> LanThreadType]
        /\ \A u \in L!LanThread : LanGoesOn(lTh'[u])
        /\ lTh'[t] = r /\ \A u \in L!LanThread \ {t} : lTh'[u] = lTh[u]
        /\ Cardinality(LanWorking') = Cardinality(LanWorking) + 1
        /\ Cardinality(LanEnqueuing') = Cardinality(LanEnqueuing) + 1
        /\ Cardinality(LanWorking) \in Nat
        /\ Cardinality(LanEnqueuing) \in Nat
        /\ Cardinality(LanEnqueuing') \in Nat
    <2>1. LanTypes
      BY DEF LanInv
    <2>2. Cardinality(LanWorking') = Cardinality(LanWorking) + 1
      BY <1>1, <1>2, <1>3, <2>1, LanMoves DEF Working
    <2>3. Cardinality(LanEnqueuing') = Cardinality(LanEnqueuing) + 1
      BY <1>1, <1>2, <1>3, <2>1, LanMoves DEF Enqueues
    <2> QED
      BY <1>1, <1>2, <1>3, <2>1, <2>2, <2>3, LanMoves
  <1>5. LanTypes'
    BY <1>1, <1>4 DEF LanInv, LanTypes
  <1>6. LanCount'
    BY <1>1, <1>4 DEF LanInv, LanCount, LanOut, LanTypes, LanReceive, Receives
  <1>7. LanReceive'
    BY <1>1, <1>2, <1>4 DEF LanInv, LanReceive, Receives
  <1>8. LanReleased'
    BY <1>1, <1>2, <1>4 DEF LanInv, LanReleased
  <1>9. LanQueue'
    BY <1>1, <1>4, LibraryAssumption DEF LanInv, LanQueue, LanTypes
  <1> QED
    BY <1>5, <1>6, <1>7, <1>8, <1>9 DEF LanInv

LEMMA CallAborts ==
    ASSUME LanInv, NEW t \in Caller, NEW i \in 1 .. login,
           L!Call(t, i, "abort")
    PROVE  LanInv'
  <1> DEFINE r == [pc |-> "check", id |-> i, then |-> "abort"]
  <1> t \in L!LanThread
    BY DEF L!LanThread
  <1>1. /\ lTh[t].pc = "idle" /\ lTh' = [lTh EXCEPT ![t] = r]
        /\ calls < MaxCalls /\ calls' = calls + 1 /\ io' = io + 1
        /\ UNCHANGED <<login, id, released, status, peer, recv, send,
                       sendCount, queue, request>>
    BY DEF L!Call, L!At, L!ops
  <1>2. /\ r \in LanThreadType /\ r.pc = "check" /\ r.then = "abort"
    <2>1. i \in Nat
      BY LibraryAssumption DEF LanInv, LanTypes
    <2> QED
      BY <2>1 DEF LanThreadType, LanPlace, LanThen
  <1> HIDE DEF r
  <1>3. LanGoesOn(r)
    BY <1>1, <1>2 DEF LanGoesOn
  <1>4. /\ lTh' \in [L!LanThread -> LanThreadType]
        /\ \A u \in L!LanThread : LanGoesOn(lTh'[u])
        /\ lTh'[t] = r /\ \A u \in L!LanThread \ {t} : lTh'[u] = lTh[u]
        /\ Cardinality(LanWorking') = Cardinality(LanWorking) + 1
        /\ Cardinality(LanEnqueuing') = Cardinality(LanEnqueuing)
        /\ Cardinality(LanWorking) \in Nat
        /\ Cardinality(LanEnqueuing) \in Nat
        /\ Cardinality(LanEnqueuing') \in Nat
    <2>1. LanTypes
      BY DEF LanInv
    <2>2. Cardinality(LanWorking') = Cardinality(LanWorking) + 1
      BY <1>1, <1>2, <1>3, <2>1, LanMoves DEF Working
    <2>3. Cardinality(LanEnqueuing') = Cardinality(LanEnqueuing)
      BY <1>1, <1>2, <1>3, <2>1, LanMoves DEF Enqueues
    <2> QED
      BY <1>1, <1>2, <1>3, <2>1, <2>2, <2>3, LanMoves
  <1>5. LanTypes'
    BY <1>1, <1>4 DEF LanInv, LanTypes
  <1>6. LanCount'
    BY <1>1, <1>4 DEF LanInv, LanCount, LanOut, LanTypes, LanReceive, Receives
  <1>7. LanReceive'
    BY <1>1, <1>2, <1>4 DEF LanInv, LanReceive, Receives
  <1>8. LanReleased'
    BY <1>1, <1>2, <1>4 DEF LanInv, LanReleased
  <1>9. LanQueue'
    BY <1>1, <1>4, LibraryAssumption DEF LanInv, LanQueue, LanTypes
  <1> QED
    BY <1>5, <1>6, <1>7, <1>8, <1>9 DEF LanInv

LEMMA EnqueueKeeps ==
    ASSUME LanInv, NEW t \in L!LanThread, L!Enqueue(t)
    PROVE  LanInv'
  <1> DEFINE r == [lTh[t] EXCEPT !.pc = "dec"]
  <1>1. /\ lTh[t].pc = "enqueue" /\ lTh' = [lTh EXCEPT ![t] = r]
        /\ queue' = queue + 1 /\ request' = TRUE
        /\ UNCHANGED <<login, id, released, io, status, peer, recv, send,
                       sendCount, calls>>
    BY DEF L!Enqueue, L!Goto, L!At, L!slot, L!ops
  <1>2. /\ r \in LanThreadType /\ r.pc = "dec" /\ lTh[t].pc = "enqueue"
    <2>1. lTh[t] \in LanThreadType /\ LanGoesOn(lTh[t])
      BY LanThreads
    <2> QED
      BY <1>1, <2>1 DEF LanGoesOn, LanThreadType, LanPlace, LanThen
  <1> HIDE DEF r
  <1>3. LanGoesOn(r)
    BY <1>1, <1>2 DEF LanGoesOn
  <1>4. /\ lTh' \in [L!LanThread -> LanThreadType]
        /\ \A u \in L!LanThread : LanGoesOn(lTh'[u])
        /\ lTh'[t] = r /\ \A u \in L!LanThread \ {t} : lTh'[u] = lTh[u]
        /\ Cardinality(LanWorking') = Cardinality(LanWorking)
        /\ Cardinality(LanEnqueuing') = Cardinality(LanEnqueuing) - 1
        /\ Cardinality(LanWorking) \in Nat
        /\ Cardinality(LanEnqueuing) \in Nat
        /\ Cardinality(LanEnqueuing') \in Nat
    <2>1. LanTypes
      BY DEF LanInv
    <2>2. Cardinality(LanWorking') = Cardinality(LanWorking)
      BY <1>1, <1>2, <1>3, <2>1, LanMoves DEF Working
    <2>3. Cardinality(LanEnqueuing') = Cardinality(LanEnqueuing) - 1
      BY <1>1, <1>2, <1>3, <2>1, LanMoves DEF Enqueues
    <2> QED
      BY <1>1, <1>2, <1>3, <2>1, <2>2, <2>3, LanMoves
  <1>5. LanTypes'
    BY <1>1, <1>4 DEF LanInv, LanTypes
  <1>6. LanCount'
    BY <1>1, <1>4 DEF LanInv, LanCount, LanOut, LanTypes, LanReceive, Receives
  <1>7. LanReceive'
    BY <1>1, <1>2, <1>4 DEF LanInv, LanReceive, Receives
  <1>8. LanReleased'
    BY <1>1, <1>2, <1>4 DEF LanInv, LanReleased
  <1>9. LanQueue'
    BY <1>1, <1>4 DEF LanInv, LanQueue, LanTypes
  <1> QED
    BY <1>5, <1>6, <1>7, <1>8, <1>9 DEF LanInv

LEMMA MarkKeeps ==
    ASSUME LanInv, NEW t \in L!LanThread, L!Mark(t)
    PROVE  LanInv'
  <1> DEFINE r == [lTh[t] EXCEPT !.pc = "cancel"]
  <1>1. /\ lTh[t].pc = "mark" /\ lTh' = [lTh EXCEPT ![t] = r]
        /\ status' = "Marked"
        /\ UNCHANGED <<login, id, released, io, peer, recv, send, sendCount,
                       queue, request, calls>>
    BY DEF L!Mark, L!Goto, L!At, L!ops
  <1>2. /\ r \in LanThreadType /\ r.pc = "cancel" /\ lTh[t].pc = "mark"
        /\ r.then \in {"dec", "recheck"}
    <2>1. lTh[t] \in LanThreadType /\ LanGoesOn(lTh[t])
      BY LanThreads
    <2> QED
      BY <1>1, <2>1 DEF LanGoesOn, LanThreadType, LanPlace, LanThen
  <1> HIDE DEF r
  <1>3. LanGoesOn(r)
    BY <1>1, <1>2 DEF LanGoesOn
  <1>4. /\ lTh' \in [L!LanThread -> LanThreadType]
        /\ \A u \in L!LanThread : LanGoesOn(lTh'[u])
        /\ lTh'[t] = r /\ \A u \in L!LanThread \ {t} : lTh'[u] = lTh[u]
        /\ Cardinality(LanWorking') = Cardinality(LanWorking)
        /\ Cardinality(LanEnqueuing') = Cardinality(LanEnqueuing)
        /\ Cardinality(LanWorking) \in Nat
        /\ Cardinality(LanEnqueuing) \in Nat
        /\ Cardinality(LanEnqueuing') \in Nat
    <2>1. LanTypes
      BY DEF LanInv
    <2>2. Cardinality(LanWorking') = Cardinality(LanWorking)
      BY <1>1, <1>2, <1>3, <2>1, LanMoves DEF Working
    <2>3. Cardinality(LanEnqueuing') = Cardinality(LanEnqueuing)
      BY <1>1, <1>2, <1>3, <2>1, LanMoves DEF Enqueues
    <2> QED
      BY <1>1, <1>2, <1>3, <2>1, <2>2, <2>3, LanMoves
  <1>5. LanTypes'
    BY <1>1, <1>4 DEF LanInv, LanTypes
  <1>6. LanCount'
    BY <1>1, <1>4 DEF LanInv, LanCount, LanOut, LanTypes, LanReceive, Receives
  <1>7. LanReceive'
    BY <1>1, <1>2, <1>4 DEF LanInv, LanReceive, Receives
  <1>8. LanReleased'
    BY <1>1, <1>2, <1>4 DEF LanInv, LanReleased
  <1>9. LanQueue'
    BY <1>1, <1>4 DEF LanInv, LanQueue, LanTypes
  <1> QED
    BY <1>5, <1>6, <1>7, <1>8, <1>9 DEF LanInv

LEMMA CancelKeeps ==
    ASSUME LanInv, NEW t \in L!LanThread, L!Cancel(t)
    PROVE  LanInv'
  <1> DEFINE r == [lTh[t] EXCEPT !.pc = lTh[t].then]
  <1>1. /\ lTh[t].pc = "cancel" /\ lTh' = [lTh EXCEPT ![t] = r]
        /\ recv' = IF recv = "posted" THEN "aborted" ELSE recv
        /\ send' = IF send = "posted" THEN "aborted" ELSE send
        /\ UNCHANGED <<login, id, released, io, status, peer, sendCount, queue,
                       request, calls>>
    BY DEF L!Cancel, L!Goto, L!At, L!slot
  <1>2. /\ r \in LanThreadType /\ r.pc \in {"dec", "recheck"}
        /\ lTh[t].pc = "cancel"
    <2>1. lTh[t] \in LanThreadType /\ LanGoesOn(lTh[t])
      BY LanThreads
    <2> QED
      BY <1>1, <2>1 DEF LanGoesOn, LanThreadType, LanPlace, LanThen
  <1> HIDE DEF r
  <1>3. LanGoesOn(r)
    BY <1>1, <1>2 DEF LanGoesOn
  <1>4. /\ lTh' \in [L!LanThread -> LanThreadType]
        /\ \A u \in L!LanThread : LanGoesOn(lTh'[u])
        /\ lTh'[t] = r /\ \A u \in L!LanThread \ {t} : lTh'[u] = lTh[u]
        /\ Cardinality(LanWorking') = Cardinality(LanWorking)
        /\ Cardinality(LanEnqueuing') = Cardinality(LanEnqueuing)
        /\ Cardinality(LanWorking) \in Nat
        /\ Cardinality(LanEnqueuing) \in Nat
        /\ Cardinality(LanEnqueuing') \in Nat
    <2>1. LanTypes
      BY DEF LanInv
    <2>2. Cardinality(LanWorking') = Cardinality(LanWorking)
      BY <1>1, <1>2, <1>3, <2>1, LanMoves DEF Working
    <2>3. Cardinality(LanEnqueuing') = Cardinality(LanEnqueuing)
      BY <1>1, <1>2, <1>3, <2>1, LanMoves DEF Enqueues
    <2> QED
      BY <1>1, <1>2, <1>3, <2>1, <2>2, <2>3, LanMoves
  <1>5. LanTypes'
    BY <1>1, <1>4 DEF LanInv, LanTypes
  <1>6. LanCount'
    BY <1>1, <1>4 DEF LanInv, LanCount, LanOut, LanTypes, LanReceive, Receives
  <1>7. LanReceive'
    BY <1>1, <1>2, <1>4 DEF LanInv, LanReceive, Receives
  <1>8. LanReleased'
    BY <1>1, <1>2, <1>4 DEF LanInv, LanReleased
  <1>9. LanQueue'
    BY <1>1, <1>4 DEF LanInv, LanQueue, LanTypes
  <1> QED
    BY <1>5, <1>6, <1>7, <1>8, <1>9 DEF LanInv

LEMMA FlushNothing ==
    ASSUME LanInv, NEW t \in L!LanThread, L!TrySendPost(t),
           queue = 0 \/ send # "none"
    PROVE  LanInv'
  <1> DEFINE r == [lTh[t] EXCEPT !.pc = "dec"]
  <1>1. /\ lTh[t].pc = "flush" /\ lTh' = [lTh EXCEPT ![t] = r]
        /\ UNCHANGED <<login, id, released, io, status, peer, recv, send,
                       sendCount, queue, request, calls>>
    BY DEF L!TrySendPost, L!Goto, L!At
  <1>2. /\ r \in LanThreadType /\ r.pc = "dec" /\ lTh[t].pc = "flush"
    <2>1. lTh[t] \in LanThreadType /\ LanGoesOn(lTh[t])
      BY LanThreads
    <2> QED
      BY <1>1, <2>1 DEF LanGoesOn, LanThreadType, LanPlace, LanThen
  <1> HIDE DEF r
  <1>3. LanGoesOn(r)
    BY <1>1, <1>2 DEF LanGoesOn
  <1>4. /\ lTh' \in [L!LanThread -> LanThreadType]
        /\ \A u \in L!LanThread : LanGoesOn(lTh'[u])
        /\ lTh'[t] = r /\ \A u \in L!LanThread \ {t} : lTh'[u] = lTh[u]
        /\ Cardinality(LanWorking') = Cardinality(LanWorking)
        /\ Cardinality(LanEnqueuing') = Cardinality(LanEnqueuing)
        /\ Cardinality(LanWorking) \in Nat
        /\ Cardinality(LanEnqueuing) \in Nat
        /\ Cardinality(LanEnqueuing') \in Nat
    <2>1. LanTypes
      BY DEF LanInv
    <2>2. Cardinality(LanWorking') = Cardinality(LanWorking)
      BY <1>1, <1>2, <1>3, <2>1, LanMoves DEF Working
    <2>3. Cardinality(LanEnqueuing') = Cardinality(LanEnqueuing)
      BY <1>1, <1>2, <1>3, <2>1, LanMoves DEF Enqueues
    <2> QED
      BY <1>1, <1>2, <1>3, <2>1, <2>2, <2>3, LanMoves
  <1>5. LanTypes'
    BY <1>1, <1>4 DEF LanInv, LanTypes
  <1>6. LanCount'
    BY <1>1, <1>4 DEF LanInv, LanCount, LanOut, LanTypes, LanReceive, Receives
  <1>7. LanReceive'
    BY <1>1, <1>2, <1>4 DEF LanInv, LanReceive, Receives
  <1>8. LanReleased'
    BY <1>1, <1>2, <1>4 DEF LanInv, LanReleased
  <1>9. LanQueue'
    BY <1>1, <1>4 DEF LanInv, LanQueue, LanTypes
  <1> QED
    BY <1>5, <1>6, <1>7, <1>8, <1>9 DEF LanInv

LEMMA FlushPosts ==
    ASSUME LanInv, NEW t \in L!LanThread, L!TrySendPost(t),
           queue # 0, send = "none", peer # "reset"
    PROVE  LanInv'
  <1> DEFINE r == [lTh[t] EXCEPT !.pc = "dec"]
  <1>1. /\ lTh[t].pc = "flush" /\ lTh' = [lTh EXCEPT ![t] = r]
        /\ io' = io + 1 /\ sendCount' = queue
        /\ send = "none" /\ send' = "posted"
        /\ UNCHANGED <<login, id, released, status, peer, recv, queue, request,
                       calls>>
    BY DEF L!TrySendPost, L!Goto, L!At
  <1>2. /\ r \in LanThreadType /\ r.pc = "dec" /\ lTh[t].pc = "flush"
    <2>1. lTh[t] \in LanThreadType /\ LanGoesOn(lTh[t])
      BY LanThreads
    <2> QED
      BY <1>1, <2>1 DEF LanGoesOn, LanThreadType, LanPlace, LanThen
  <1> HIDE DEF r
  <1>3. LanGoesOn(r)
    BY <1>1, <1>2 DEF LanGoesOn
  <1>4. /\ lTh' \in [L!LanThread -> LanThreadType]
        /\ \A u \in L!LanThread : LanGoesOn(lTh'[u])
        /\ lTh'[t] = r /\ \A u \in L!LanThread \ {t} : lTh'[u] = lTh[u]
        /\ Cardinality(LanWorking') = Cardinality(LanWorking)
        /\ Cardinality(LanEnqueuing') = Cardinality(LanEnqueuing)
        /\ Cardinality(LanWorking) \in Nat
        /\ Cardinality(LanEnqueuing) \in Nat
        /\ Cardinality(LanEnqueuing') \in Nat
    <2>1. LanTypes
      BY DEF LanInv
    <2>2. Cardinality(LanWorking') = Cardinality(LanWorking)
      BY <1>1, <1>2, <1>3, <2>1, LanMoves DEF Working
    <2>3. Cardinality(LanEnqueuing') = Cardinality(LanEnqueuing)
      BY <1>1, <1>2, <1>3, <2>1, LanMoves DEF Enqueues
    <2> QED
      BY <1>1, <1>2, <1>3, <2>1, <2>2, <2>3, LanMoves
  <1>5. LanTypes'
    BY <1>1, <1>4 DEF LanInv, LanTypes
  <1>6. LanCount'
    BY <1>1, <1>4 DEF LanInv, LanCount, LanOut, LanTypes, LanReceive, Receives
  <1>7. LanReceive'
    BY <1>1, <1>2, <1>4 DEF LanInv, LanReceive, Receives
  <1>8. LanReleased'
    BY <1>1, <1>2, <1>4 DEF LanInv, LanReleased
  <1>9. LanQueue'
    BY <1>1, <1>4, LibraryAssumption DEF LanInv, LanQueue, LanTypes
  <1> QED
    BY <1>5, <1>6, <1>7, <1>8, <1>9 DEF LanInv

LEMMA FlushFails ==
    ASSUME LanInv, NEW t \in L!LanThread, L!TrySendPost(t),
           queue # 0, send = "none", peer = "reset"
    PROVE  LanInv'
  <1> DEFINE r == [lTh[t] EXCEPT !.pc = "mark", !.then = "dec"]
  <1>1. /\ lTh[t].pc = "flush" /\ lTh' = [lTh EXCEPT ![t] = r]
        /\ io' = io + 1 /\ sendCount' = queue
        /\ send = "none" /\ send' = "lost"
        /\ UNCHANGED <<login, id, released, status, peer, recv, queue, request,
                       calls>>
    BY DEF L!TrySendPost, L!Abort, L!At
  <1>2. /\ r \in LanThreadType /\ r.pc = "mark" /\ lTh[t].pc = "flush"
        /\ r.then = "dec"
    <2>1. lTh[t] \in LanThreadType /\ LanGoesOn(lTh[t])
      BY LanThreads
    <2> QED
      BY <1>1, <2>1 DEF LanGoesOn, LanThreadType, LanPlace, LanThen
  <1> HIDE DEF r
  <1>3. LanGoesOn(r)
    BY <1>1, <1>2 DEF LanGoesOn
  <1>4. /\ lTh' \in [L!LanThread -> LanThreadType]
        /\ \A u \in L!LanThread : LanGoesOn(lTh'[u])
        /\ lTh'[t] = r /\ \A u \in L!LanThread \ {t} : lTh'[u] = lTh[u]
        /\ Cardinality(LanWorking') = Cardinality(LanWorking)
        /\ Cardinality(LanEnqueuing') = Cardinality(LanEnqueuing)
        /\ Cardinality(LanWorking) \in Nat
        /\ Cardinality(LanEnqueuing) \in Nat
        /\ Cardinality(LanEnqueuing') \in Nat
    <2>1. LanTypes
      BY DEF LanInv
    <2>2. Cardinality(LanWorking') = Cardinality(LanWorking)
      BY <1>1, <1>2, <1>3, <2>1, LanMoves DEF Working
    <2>3. Cardinality(LanEnqueuing') = Cardinality(LanEnqueuing)
      BY <1>1, <1>2, <1>3, <2>1, LanMoves DEF Enqueues
    <2> QED
      BY <1>1, <1>2, <1>3, <2>1, <2>2, <2>3, LanMoves
  <1>5. LanTypes'
    BY <1>1, <1>4 DEF LanInv, LanTypes
  <1>6. LanCount'
    BY <1>1, <1>4 DEF LanInv, LanCount, LanOut, LanTypes, LanReceive, Receives
  <1>7. LanReceive'
    BY <1>1, <1>2, <1>4 DEF LanInv, LanReceive, Receives
  <1>8. LanReleased'
    BY <1>1, <1>2, <1>4 DEF LanInv, LanReleased
  <1>9. LanQueue'
    BY <1>1, <1>4, LibraryAssumption DEF LanInv, LanQueue, LanTypes
  <1> QED
    BY <1>5, <1>6, <1>7, <1>8, <1>9 DEF LanInv

LEMMA DecrementKeeps ==
    ASSUME LanInv, NEW t \in L!LanThread, L!Decrement(t)
    PROVE  LanInv'
  <1> DEFINE r == IF io' = 0 THEN [L!Idle EXCEPT !.pc = "close"] ELSE L!Idle
  <1>1. /\ lTh[t].pc = "dec" /\ lTh' = [lTh EXCEPT ![t] = r] /\ io' = io - 1
        /\ UNCHANGED <<login, id, released, status, peer, recv, send,
                       sendCount, queue, request, calls>>
    BY DEF L!Decrement, L!At, L!ops
  <1>2. /\ r \in LanThreadType /\ r.pc \in {"idle", "close"}
        /\ lTh[t].pc = "dec"
    BY <1>1 DEF LanThreadType, LanPlace, LanThen, L!Idle
  <1> HIDE DEF r
  <1>3. LanGoesOn(r)
    BY <1>1, <1>2 DEF LanGoesOn
  <1>4. /\ lTh' \in [L!LanThread -> LanThreadType]
        /\ \A u \in L!LanThread : LanGoesOn(lTh'[u])
        /\ lTh'[t] = r /\ \A u \in L!LanThread \ {t} : lTh'[u] = lTh[u]
        /\ Cardinality(LanWorking') = Cardinality(LanWorking) - 1
        /\ Cardinality(LanEnqueuing') = Cardinality(LanEnqueuing)
        /\ Cardinality(LanWorking) \in Nat
        /\ Cardinality(LanEnqueuing) \in Nat
        /\ Cardinality(LanEnqueuing') \in Nat
    <2>1. LanTypes
      BY DEF LanInv
    <2>2. Cardinality(LanWorking') = Cardinality(LanWorking) - 1
      BY <1>1, <1>2, <1>3, <2>1, LanMoves DEF Working
    <2>3. Cardinality(LanEnqueuing') = Cardinality(LanEnqueuing)
      BY <1>1, <1>2, <1>3, <2>1, LanMoves DEF Enqueues
    <2> QED
      BY <1>1, <1>2, <1>3, <2>1, <2>2, <2>3, LanMoves
  <1>5. LanTypes'
    BY <1>1, <1>4 DEF LanInv, LanTypes
  <1>6. LanCount'
    BY <1>1, <1>4 DEF LanInv, LanCount, LanOut, LanTypes, LanReceive, Receives
  <1>7. LanReceive'
    BY <1>1, <1>2, <1>4 DEF LanInv, LanReceive, Receives
  <1>8. LanReleased'
    BY <1>1, <1>2, <1>4 DEF LanInv, LanReleased
  <1>9. LanQueue'
    BY <1>1, <1>4 DEF LanInv, LanQueue, LanTypes
  <1> QED
    BY <1>5, <1>6, <1>7, <1>8, <1>9 DEF LanInv

LEMMA CloseLate ==
    ASSUME LanInv, NEW t \in L!LanThread, L!DisconnectSession(t),
           io # 0 \/ released
    PROVE  LanInv'
  <1> DEFINE r == L!Idle
  <1>1. /\ lTh[t].pc = "close" /\ lTh' = [lTh EXCEPT ![t] = r]
        /\ UNCHANGED <<login, id, released, io, status, peer, recv, send,
                       sendCount, queue, request, calls>>
    BY DEF L!DisconnectSession, L!At
  <1>2. /\ r \in LanThreadType /\ r.pc = "idle" /\ lTh[t].pc = "close"
    BY <1>1 DEF LanThreadType, LanPlace, LanThen, L!Idle
  <1> HIDE DEF r
  <1>3. LanGoesOn(r)
    BY <1>1, <1>2 DEF LanGoesOn
  <1>4. /\ lTh' \in [L!LanThread -> LanThreadType]
        /\ \A u \in L!LanThread : LanGoesOn(lTh'[u])
        /\ lTh'[t] = r /\ \A u \in L!LanThread \ {t} : lTh'[u] = lTh[u]
        /\ Cardinality(LanWorking') = Cardinality(LanWorking)
        /\ Cardinality(LanEnqueuing') = Cardinality(LanEnqueuing)
        /\ Cardinality(LanWorking) \in Nat
        /\ Cardinality(LanEnqueuing) \in Nat
        /\ Cardinality(LanEnqueuing') \in Nat
    <2>1. LanTypes
      BY DEF LanInv
    <2>2. Cardinality(LanWorking') = Cardinality(LanWorking)
      BY <1>1, <1>2, <1>3, <2>1, LanMoves DEF Working
    <2>3. Cardinality(LanEnqueuing') = Cardinality(LanEnqueuing)
      BY <1>1, <1>2, <1>3, <2>1, LanMoves DEF Enqueues
    <2> QED
      BY <1>1, <1>2, <1>3, <2>1, <2>2, <2>3, LanMoves
  <1>5. LanTypes'
    BY <1>1, <1>4 DEF LanInv, LanTypes
  <1>6. LanCount'
    BY <1>1, <1>4 DEF LanInv, LanCount, LanOut, LanTypes, LanReceive, Receives
  <1>7. LanReceive'
    BY <1>1, <1>2, <1>4 DEF LanInv, LanReceive, Receives
  <1>8. LanReleased'
    BY <1>1, <1>2, <1>4 DEF LanInv, LanReleased
  <1>9. LanQueue'
    BY <1>1, <1>4 DEF LanInv, LanQueue, LanTypes
  <1> QED
    BY <1>5, <1>6, <1>7, <1>8, <1>9 DEF LanInv

LEMMA CloseKeeps ==
    ASSUME LanInv, NEW t \in L!LanThread, L!DisconnectSession(t),
           io = 0, ~released
    PROVE  LanInv'
  <1> DEFINE r == L!Idle
  <1>1. /\ lTh[t].pc = "close" /\ lTh' = [lTh EXCEPT ![t] = r]
        /\ released' = TRUE /\ id' = 0 /\ status' = "Active"
        /\ queue' = 0 /\ peer' = "none" /\ io = 0
        /\ UNCHANGED <<login, io, recv, send, sendCount, request, calls>>
    BY DEF L!DisconnectSession, L!At
  <1>2. /\ r \in LanThreadType /\ r.pc = "idle" /\ lTh[t].pc = "close"
    BY <1>1 DEF LanThreadType, LanPlace, LanThen, L!Idle
  <1> HIDE DEF r
  <1>3. LanGoesOn(r)
    BY <1>1, <1>2 DEF LanGoesOn
  <1>4. /\ lTh' \in [L!LanThread -> LanThreadType]
        /\ \A u \in L!LanThread : LanGoesOn(lTh'[u])
        /\ lTh'[t] = r /\ \A u \in L!LanThread \ {t} : lTh'[u] = lTh[u]
        /\ Cardinality(LanWorking') = Cardinality(LanWorking)
        /\ Cardinality(LanEnqueuing') = Cardinality(LanEnqueuing)
        /\ Cardinality(LanWorking) \in Nat
        /\ Cardinality(LanEnqueuing) \in Nat
        /\ Cardinality(LanEnqueuing') \in Nat
    <2>1. LanTypes
      BY DEF LanInv
    <2>2. Cardinality(LanWorking') = Cardinality(LanWorking)
      BY <1>1, <1>2, <1>3, <2>1, LanMoves DEF Working
    <2>3. Cardinality(LanEnqueuing') = Cardinality(LanEnqueuing)
      BY <1>1, <1>2, <1>3, <2>1, LanMoves DEF Enqueues
    <2> QED
      BY <1>1, <1>2, <1>3, <2>1, <2>2, <2>3, LanMoves
  <1>5. /\ recv = "none" /\ send \in {"none", "cancelled"}
        /\ \A u \in L!LanThread : lTh[u].pc \in {"idle", "close"}
    <2>1. /\ Cardinality(LanWorking) = 0
          /\ recv = "none" /\ send \in {"none", "cancelled"}
      BY <1>1, <1>4 DEF LanInv, LanCount, LanOut, LanTypes
    <2>2. LanWorking = {}
      BY <2>1, LanFinite, FS_Subset, FS_EmptySet DEF LanWorking
    <2> QED
      BY <2>1, <2>2 DEF LanWorking, Working
  <1>6. LanTypes'
    BY <1>1, <1>4, LibraryAssumption DEF LanInv, LanTypes
  <1>7. LanCount'
    BY <1>1, <1>4 DEF LanInv, LanCount, LanOut, LanTypes, LanReceive, Receives
  <1>8. LanReceive'
    BY <1>1, <1>2, <1>4 DEF LanInv, LanReceive, Receives
  <1>9. LanReleased'
    BY <1>1, <1>2, <1>4, <1>5 DEF LanInv, LanReleased
  <1>10. LanQueue'
    BY <1>1, <1>4, <1>5, LibraryAssumption DEF LanInv, LanQueue, LanTypes
  <1> QED
    BY <1>6, <1>7, <1>8, <1>9, <1>10 DEF LanInv

(* At first there is no session.                                            *)
LEMMA LanInit == ASSUME L!Init PROVE LanInv
  <1>1. L!Idle \in LanThreadType /\ LanGoesOn(L!Idle)
    BY DEF L!Idle, LanThreadType, LanPlace, LanThen, LanGoesOn
  <1>2. \A t \in L!LanThread : lTh[t] = L!Idle /\ L!Idle.pc = "idle"
    BY DEF L!Init, L!Idle
  <1>3. LanTypes
    <2>1. /\ lTh \in [L!LanThread -> LanThreadType]
          /\ \A t \in L!LanThread : LanGoesOn(lTh[t])
      BY <1>1 DEF L!Init
    <2>2. 0 \in 0 .. SessionMax
      BY LibraryAssumption
    <2>3. login = 0 /\ id = 0
      BY DEF L!Init
    <2>4. released \in BOOLEAN /\ request \in BOOLEAN
      BY ZenonT(20) DEF L!Init
    <2>5. io = 0 /\ queue = 0 /\ sendCount = 0 /\ calls = 0
      BY DEF L!Init
    <2>6. /\ status = "Active" /\ peer = "none" /\ recv = "none"
          /\ send = "none"
      BY DEF L!Init
    <2> QED
      BY <2>1, <2>2, <2>3, <2>5, <2>6, <2>4 DEF LanTypes
  <1>4. Cardinality(LanWorking) = 0 /\ Cardinality(LanEnqueuing) = 0
    <2>1. LanWorking = {} /\ LanEnqueuing = {}
      BY <1>2 DEF LanWorking, Working, LanEnqueuing, Enqueues
    <2> QED
      BY <2>1, FS_EmptySet
  <1>5. LanCount
    BY <1>4 DEF L!Init, LanCount, LanOut
  <1>6. LanReceive
    BY <1>2 DEF LanReceive, Receives
  <1>7. LanReleased
    BY <1>2 DEF L!Init, LanReleased
  <1>8. LanQueue
    BY <1>4, LibraryAssumption DEF L!Init, LanQueue
  <1> QED
    BY <1>3, <1>5, <1>6, <1>7, <1>8 DEF LanInv

(* Every action keeps the invariant.                                        *)
LEMMA LanSteps == ASSUME LanInv, [L!Next]_lVars PROVE LanInv'
  <1>1. CASE UNCHANGED lVars
    BY <1>1 DEF lVars, LanInv, LanTypes, LanCount, LanOut, LanWorking,
       LanReceive, LanReleased, LanQueue, LanEnqueuing
  <1>2. CASE L!Accept
    BY <1>2, AcceptKeeps
  <1>3. CASE L!Reset
    BY <1>3, ResetKeeps
  <1>4. CASE L!Arrives
    BY <1>4, ArrivesKeeps
  <1>5. CASE L!Sent
    BY <1>5, SentKeeps
  <1>6. ASSUME NEW t \in Worker, L!WorkerStep(t)
        PROVE  LanInv'
    BY <1>6, RecvCompletesKeeps, SendCompletesKeeps, FlushStarts, FlushLate
       DEF L!WorkerStep
  <1>7. ASSUME NEW t \in Caller, NEW i \in 1 .. login,
               NEW f \in {"enqueue", "abort"}, L!Call(t, i, f)
        PROVE  LanInv'
    BY <1>7, CallEnqueues, CallAborts
  <1>8. ASSUME NEW t \in L!LanThread, L!Step(t)
        PROVE  LanInv'
    <2>1. CASE L!RecvPost(t)
      BY <2>1, RecvPostKeeps, RecvPostFails
    <2>2. CASE L!Received(t)
      BY <2>2, ReceivedKeeps
    <2>3. CASE L!Recheck(t)
      BY <2>3, RecheckKeeps
    <2>4. CASE L!TrySendPost(t)
      BY <2>4, FlushNothing, FlushPosts, FlushFails
    <2>5. CASE L!CheckSession(t)
      BY <2>5, CheckSessionKeeps
    <2>6. CASE L!StartAbort(t)
      BY <2>6, StartAbortKeeps
    <2>7. CASE L!Enqueue(t)
      BY <2>7, EnqueueKeeps
    <2>8. CASE L!Mark(t)
      BY <2>8, MarkKeeps
    <2>9. CASE L!Cancel(t)
      BY <2>9, CancelKeeps
    <2>10. CASE L!Decrement(t)
      BY <2>10, DecrementKeeps
    <2>11. CASE L!DisconnectSession(t)
      BY <2>11, CloseLate, CloseKeeps
    <2> QED
      BY <1>8, <2>1, <2>2, <2>3, <2>4, <2>5, <2>6, <2>7, <2>8, <2>9, <2>10,
         <2>11 DEF L!Step
  <1> QED
    BY <1>1, <1>2, <1>3, <1>4, <1>5, <1>6, <1>7, <1>8 DEF L!Next

(* So ioCount is exact.                                                     *)
LEMMA LanThenExact == ASSUME LanInv PROVE L!CountExact /\ L!TypeOK
  <1>1. Cardinality(LanWorking) \in Nat
    BY LanFinite, FS_Subset, FS_CardinalityType DEF LanWorking
  <1>2. io \in Nat
    BY <1>1 DEF LanInv, LanCount, LanOut
  <1>3. L!CountExact
    <2>1. LanWorking =
            {t \in L!LanThread : lTh[t].pc \notin {"idle", "close"}}
      BY DEF LanWorking, Working
    <2>2. L!Cardinality(LanWorking) = Cardinality(LanWorking)
      BY DEF L!Cardinality, Cardinality
    <2> QED
      BY <1>1, <2>1, <2>2 DEF LanInv, LanTypes, LanCount, LanOut, L!CountExact
  <1>4. queue \in 0 .. MaxCalls /\ sendCount \in 0 .. MaxCalls
    <2>1. IsFiniteSet(LanEnqueuing)
      BY LanFinite, FS_Subset DEF LanEnqueuing
    <2>2. Cardinality(LanEnqueuing) \in Nat
      BY <2>1, FS_CardinalityType
    <2> QED
      BY <2>2, LibraryAssumption DEF LanInv, LanQueue, LanTypes
  <1> QED
    BY <1>2, <1>3, <1>4 DEF LanInv, LanTypes, L!TypeOK

-----------------------------------------------------------------------------
(* What LibraryAssumption says of this part. *)
RingParameters == Size \in Nat /\ Size > 1 /\ Value # {} /\ MaxChunk \in Nat

(* The remainder of less than twice the divisor. *)
LEMMA RingWrapped ==
    ASSUME NEW n \in Nat, n > 0, NEW x \in 0 .. 2 * n - 1
    PROVE  x % n = IF x < n THEN x ELSE x - n
  <1> DEFINE d == x \div n
             r == x % n
  <1>1. x = n * d + r /\ d \in Int /\ r \in 0 .. n - 1
    OBVIOUS
  <1>2. x \in Nat /\ x < 2 * n /\ r \in Nat /\ r < n
    BY <1>1
  <1> HIDE DEF d, r
  <1>3. ~(d <= -1)
    <2> SUFFICES ASSUME d <= -1 PROVE FALSE
      OBVIOUS
    <2>1. n * d <= n * (-1)
      BY <1>1
    <2> QED
      BY <2>1, <1>1, <1>2
  <1>4. ~(d >= 2)
    <2> SUFFICES ASSUME d >= 2 PROVE FALSE
      OBVIOUS
    <2>1. n * d >= n * 2
      BY <1>1
    <2> QED
      BY <2>1, <1>1, <1>2
  <1>5. d = 0 \/ d = 1
    BY <1>1, <1>3, <1>4
  <1>6. (d = 0 => n * d = 0) /\ (d = 1 => n * d = n)
    OBVIOUS
  <1>7. r = IF x < n THEN x ELSE x - n
    BY <1>1, <1>2, <1>5, <1>6
  <1> QED
    BY <1>7 DEF r

(* The place in _buf that is k after i. *)
RingAt(i, k) == IF i + k < Size THEN i + k ELSE i + k - Size

LEMMA RingPlaces ==
    ASSUME RingParameters, NEW i \in 0 .. Size - 1, NEW k \in 0 .. Size
    PROVE  (i + k) % Size = RingAt(i, k) /\ RingAt(i, k) \in 0 .. Size - 1
  <1>1. Size \in Nat /\ Size > 0 /\ i + k \in 0 .. 2 * Size - 1
    BY DEF RingParameters
  <1>2. (i + k) % Size = RingAt(i, k)
    BY <1>1, RingWrapped DEF RingAt
  <1> QED
    BY <1>1, <1>2 DEF RingAt, RingParameters

(* What is in the buffer, by its places. *)
LEMMA RingBytes ==
    ASSUME RingParameters, R!TypeOK
    PROVE  /\ R!GetSizeUsed \in 0 .. Size - 1
           /\ rRear = RingAt(rFront, R!GetSizeUsed)
           /\ R!Content = [i \in 1 .. R!GetSizeUsed |-> buf[RingAt(rFront, i - 1)]]
           /\ R!Content \in Seq(Value) /\ Len(R!Content) = R!GetSizeUsed
           /\ R!IsEmpty <=> R!GetSizeUsed = 0
           /\ R!IsFull <=> R!GetSizeUsed = Size - 1
  <1>1. /\ Size \in Nat /\ Size > 1 /\ buf \in [0 .. Size - 1 -> Value]
        /\ rFront \in 0 .. Size - 1 /\ rRear \in 0 .. Size - 1
    BY DEF RingParameters, R!TypeOK
  <1>2. /\ R!GetSizeUsed \in 0 .. Size - 1
        /\ rRear = RingAt(rFront, R!GetSizeUsed)
        /\ R!IsEmpty <=> R!GetSizeUsed = 0
        /\ R!IsFull <=> R!GetSizeUsed = Size - 1
    BY <1>1 DEF R!GetSizeUsed, RingAt, R!IsEmpty, R!IsFull
  <1> DEFINE used == R!GetSizeUsed
  <1>3. \A i \in 1 .. used : /\ (rFront + i - 1) % Size = RingAt(rFront, i - 1)
                             /\ RingAt(rFront, i - 1) \in 0 .. Size - 1
    <2>1. ASSUME NEW i \in 1 .. used
          PROVE  i - 1 \in 0 .. Size /\ rFront + i - 1 = rFront + (i - 1)
      BY <1>1, <1>2
    <2> QED
      BY <2>1, <1>1, RingPlaces
  <1>4. R!Content = [i \in 1 .. used |-> buf[RingAt(rFront, i - 1)]]
    BY <1>3 DEF R!Content
  <1>5. R!Content \in [1 .. used -> Value]
    BY <1>1, <1>3, <1>4
  <1>6. R!Content \in Seq(Value) /\ Len(R!Content) = used
    <2> HIDE DEF used
    <2>1. used \in Nat
      BY <1>2 DEF used
    <2> QED
      BY <1>5, <2>1
  <1> QED
    BY <1>2, <1>4, <1>6

(* How far Enqueue gets in one piece: if that is not all there is room for, *)
(* then to the end of the buffer.                                          *)
LEMMA EnqueRoom ==
    ASSUME RingParameters, R!TypeOK
    PROVE  /\ R!GetDirectEnqueSize \in 0 .. R!GetSizeFree
           /\ rRear + R!GetDirectEnqueSize <= Size
           /\ R!GetDirectEnqueSize < R!GetSizeFree =>
                rRear + R!GetDirectEnqueSize = Size
  <1>1. /\ Size \in Nat /\ Size > 1
        /\ rFront \in 0 .. Size - 1 /\ rRear \in 0 .. Size - 1
    BY DEF RingParameters, R!TypeOK
  <1>2. CASE R!IsFull
    <2>1. R!GetDirectEnqueSize = 0
      BY <1>1, <1>2 DEF R!GetDirectEnqueSize, R!IsFull
    <2> QED
      BY <1>1, <1>2, <2>1 DEF R!GetSizeFree, R!GetSizeUsed, R!IsFull
  <1>3. CASE ~R!IsFull /\ rFront > rRear
    <2>1. R!GetDirectEnqueSize = rFront - rRear - 1
      BY <1>1, <1>3 DEF R!GetDirectEnqueSize, R!IsFull
    <2> QED
      BY <1>1, <1>3, <2>1 DEF R!GetSizeFree, R!GetSizeUsed, R!IsFull
  <1>4. CASE ~R!IsFull /\ rFront = rRear
    <2>1. R!GetDirectEnqueSize = IF rRear = 0 THEN Size - 1 ELSE Size - rRear
      BY <1>1, <1>4 DEF R!GetDirectEnqueSize, R!IsFull
    <2> QED
      BY <1>1, <1>4, <2>1 DEF R!GetSizeFree, R!GetSizeUsed, R!IsFull
  <1>5. CASE ~R!IsFull /\ rRear > rFront
    <2>1. R!GetDirectEnqueSize =
            IF rFront = 0 THEN Size - rRear - 1 ELSE Size - rRear
      BY <1>1, <1>5 DEF R!GetDirectEnqueSize, R!IsFull
    <2> QED
      BY <1>1, <1>5, <2>1 DEF R!GetSizeFree, R!GetSizeUsed, R!IsFull
  <1> QED
    BY <1>1, <1>2, <1>3, <1>4, <1>5

LEMMA DequeRoom ==
    ASSUME RingParameters, R!TypeOK
    PROVE  /\ R!GetDirectDequeSize \in 0 .. R!GetSizeUsed
           /\ rFront + R!GetDirectDequeSize <= Size
           /\ R!GetDirectDequeSize < R!GetSizeUsed =>
                rFront + R!GetDirectDequeSize = Size
  BY DEF RingParameters, R!TypeOK, R!GetDirectDequeSize, R!GetSizeUsed

(* Two sequences, one behind the other. *)
LEMMA RingJoined ==
    ASSUME NEW S, NEW a \in Seq(S), NEW b \in Seq(S),
           NEW n, n = Len(a) + Len(b),
           NEW f \in [1 .. n -> S],
           \A i \in 1 .. Len(a) : f[i] = a[i],
           \A i \in 1 .. Len(b) : f[Len(a) + i] = b[i]
    PROVE  f = a \o b
  <1> DEFINE c == a \o b
  <1>1. /\ Len(a) \in Nat /\ Len(b) \in Nat
        /\ \A i \in 1 .. Len(a) : a[i] \in S
        /\ \A i \in 1 .. Len(b) : b[i] \in S
    OBVIOUS
  <1>2. c \in Seq(S) /\ Len(c) = Len(a) + Len(b)
        /\ \A i \in 1 .. Len(a) + Len(b) :
              c[i] = IF i <= Len(a) THEN a[i] ELSE b[i - Len(a)]
    BY ConcatProperties
  <1> HIDE DEF c
  <1>3. ASSUME NEW i \in 1 .. n
        PROVE  f[i] = c[i]
    <2>1. CASE i <= Len(a)
      <3>1. i \in 1 .. Len(a) /\ c[i] = a[i]
        BY <1>1, <1>2, <2>1
      <3> QED
        BY <3>1
    <2>2. CASE i > Len(a)
      <3>1. i - Len(a) \in 1 .. Len(b) /\ Len(a) + (i - Len(a)) = i
        BY <1>1, <2>2
      <3>2. c[i] = b[i - Len(a)]
        BY <1>1, <1>2, <2>2
      <3> QED
        BY <1>1, <3>1, <3>2
    <2> QED
      BY <1>1, <2>1, <2>2
  <1>4. n \in Nat
    BY <1>1
  <1>5. f \in Seq(S) /\ Len(f) = n
    BY <1>4
  <1>6. f = c
    BY <1>2, <1>3, <1>5, SeqEqual
  <1> QED
    BY <1>6 DEF c

(* Some bytes more, written behind the rear. *)
LEMMA RingWritten ==
    ASSUME RingParameters, R!TypeOK, NEW s \in Seq(Value),
           NEW n \in 1 .. R!GetSizeFree, n <= Len(s), R!TypeOK',
           rFront' = rFront, rRear' = RingAt(rRear, n),
           \A k \in 0 .. n - 1 : buf'[RingAt(rRear, k)] = s[k + 1],
           \A i \in 0 .. Size - 1 :
              (\A k \in 0 .. n - 1 : i # RingAt(rRear, k)) => buf'[i] = buf[i]
    PROVE  R!Content' = R!Content \o SubSeq(s, 1, n)
  <1> DEFINE used == R!GetSizeUsed
             t == SubSeq(s, 1, n)
  <1>1. /\ Size \in Nat /\ Size > 1
        /\ rFront \in 0 .. Size - 1 /\ rRear \in 0 .. Size - 1
        /\ used \in 0 .. Size - 1 /\ rRear = RingAt(rFront, used)
        /\ R!Content = [i \in 1 .. used |-> buf[RingAt(rFront, i - 1)]]
        /\ R!Content \in Seq(Value) /\ Len(R!Content) = used
    BY RingBytes DEF RingParameters, R!TypeOK
  <1>2. n \in Nat /\ n > 0 /\ used + n < Size
    BY <1>1 DEF R!GetSizeFree
  <1>3. t \in Seq(Value) /\ Len(t) = n /\ \A k \in 1 .. n : t[k] = s[k]
    BY <1>2
  <1>4. R!GetSizeUsed' = used + n
    <2>1. R!GetSizeUsed' = IF RingAt(rRear, n) >= rFront THEN RingAt(rRear, n) - rFront
                         ELSE Size - rFront + RingAt(rRear, n)
      BY DEF R!GetSizeUsed
    <2> HIDE DEF used
    <2> QED
      BY <1>1, <1>2, <2>1 DEF RingAt
  <1>5. R!Content' = [i \in 1 .. used + n |-> buf'[RingAt(rFront, i - 1)]]
    <2>1. R!Content' =
            [i \in 1 .. used + n |-> buf'[(rFront + i - 1) % Size]]
      BY <1>4 DEF R!Content
    <2>2. ASSUME NEW i \in 1 .. used + n
          PROVE  i - 1 \in 0 .. Size /\ rFront + i - 1 = rFront + (i - 1)
      BY <1>1, <1>2
    <2>3. \A i \in 1 .. used + n : (rFront + i - 1) % Size = RingAt(rFront, i - 1)
      BY <1>1, <2>2, RingPlaces
    <2> QED
      BY <2>1, <2>3
  <1> HIDE DEF used, t
  <1>6. ASSUME NEW i \in 1 .. used
        PROVE  buf'[RingAt(rFront, i - 1)] = R!Content[i]
    <2>1. /\ Size \in Nat /\ rFront \in 0 .. Size - 1 /\ used \in 0 .. Size - 1
          /\ rRear = RingAt(rFront, used)
      BY <1>1
    <2>2. RingAt(rFront, i - 1) \in 0 .. Size - 1
      BY <2>1 DEF RingAt
    <2>3. ASSUME NEW k \in 0 .. n - 1
          PROVE  RingAt(rFront, i - 1) # RingAt(rRear, k)
      <3>1. i - 1 < used + k /\ used + k < Size
        BY <1>2, <2>1
      <3> QED
        BY <2>1, <3>1 DEF RingAt
    <2> QED
      BY <1>1, <2>2, <2>3
  <1>7. ASSUME NEW i \in 1 .. n
        PROVE  buf'[RingAt(rFront, (used + i) - 1)] = t[i]
    <2>1. i - 1 \in 0 .. n - 1 /\ (i - 1) + 1 = i
          /\ RingAt(rFront, (used + i) - 1) = RingAt(rRear, i - 1)
      BY <1>1, <1>2 DEF RingAt
    <2>2. buf'[RingAt(rRear, i - 1)] = s[(i - 1) + 1]
      BY <2>1
    <2> QED
      BY <1>3, <2>1, <2>2
  <1> DEFINE f == [i \in 1 .. used + n |-> buf'[RingAt(rFront, i - 1)]]
  <1>8. /\ f \in [1 .. used + n -> Value]
        /\ \A i \in 1 .. Len(R!Content) : f[i] = R!Content[i]
        /\ \A i \in 1 .. Len(t) : f[Len(R!Content) + i] = t[i]
    <2>1. \A i \in 1 .. used : i \in 1 .. used + n
      BY <1>1, <1>2
    <2>2. \A i \in 1 .. n : used + i \in 1 .. used + n
      BY <1>1, <1>2
    <2>3. \A i \in 1 .. used + n : RingAt(rFront, i - 1) \in 0 .. Size - 1
      BY <1>1, <1>2 DEF RingAt
    <2>4. buf' \in [0 .. Size - 1 -> Value]
      BY DEF R!TypeOK
    <2>5. f \in [1 .. used + n -> Value]
      BY <2>3, <2>4
    <2> QED
      BY <1>1, <1>3, <1>6, <1>7, <2>1, <2>2, <2>5
  <1> HIDE DEF f
  <1>9. f = R!Content \o t
    <2> DEFINE m == used + n
    <2>1. m = Len(R!Content) + Len(t) /\ f \in [1 .. m -> Value]
      BY <1>1, <1>3, <1>8
    <2>2. R!Content \in Seq(Value) /\ t \in Seq(Value)
      BY <1>1, <1>3
    <2>3. /\ \A i \in 1 .. Len(R!Content) : f[i] = R!Content[i]
          /\ \A i \in 1 .. Len(t) : f[Len(R!Content) + i] = t[i]
      BY <1>8
    <2> HIDE DEF m
    <2> QED
      BY ZenonT(40), <2>1, <2>2, <2>3, RingJoined
  <1> QED
    BY <1>5, <1>9 DEF t, f

(* Some bytes less, from the front. *)
LEMMA RingGone ==
    ASSUME RingParameters, R!TypeOK, NEW n \in 1 .. R!GetSizeUsed, R!TypeOK',
           buf' = buf, rRear' = rRear, rFront' = RingAt(rFront, n)
    PROVE  R!Content' = SubSeq(R!Content, n + 1, Len(R!Content))
  <1> DEFINE used == R!GetSizeUsed
             t == SubSeq(R!Content, n + 1, Len(R!Content))
  <1>1. /\ Size \in Nat /\ Size > 1
        /\ rFront \in 0 .. Size - 1 /\ rRear \in 0 .. Size - 1
        /\ rFront' \in 0 .. Size - 1
        /\ used \in 0 .. Size - 1 /\ rRear = RingAt(rFront, used)
        /\ R!Content = [i \in 1 .. used |-> buf[RingAt(rFront, i - 1)]]
        /\ R!Content \in Seq(Value) /\ Len(R!Content) = used
    BY RingBytes DEF RingParameters, R!TypeOK
  <1>2. n \in Nat /\ n > 0 /\ n <= used
    BY <1>1
  <1>3. R!GetSizeUsed' = used - n
    <2>1. R!GetSizeUsed' = IF rRear >= RingAt(rFront, n) THEN rRear - RingAt(rFront, n)
                         ELSE Size - RingAt(rFront, n) + rRear
      BY DEF R!GetSizeUsed
    <2> HIDE DEF used
    <2> QED
      BY <1>1, <1>2, <2>1 DEF RingAt
  <1>4. R!Content' = [i \in 1 .. used - n |-> buf[RingAt(RingAt(rFront, n), i - 1)]]
    <2>1. R!Content' =
            [i \in 1 .. used - n |-> buf[(rFront' + i - 1) % Size]]
      BY <1>3 DEF R!Content
    <2>2. ASSUME NEW i \in 1 .. used - n
          PROVE  i - 1 \in 0 .. Size /\ rFront' + i - 1 = rFront' + (i - 1)
      BY <1>1, <1>2
    <2>3. \A i \in 1 .. used - n : (rFront' + i - 1) % Size = RingAt(rFront', i - 1)
      BY <1>1, <2>2, RingPlaces
    <2> QED
      BY <2>1, <2>3
  <1> HIDE DEF used, t
  <1>5. /\ t \in Seq(Value) /\ Len(t) = used - n
        /\ \A i \in 1 .. used - n : t[i] = R!Content[n + i]
    BY <1>1, <1>2 DEF t
  <1>6. ASSUME NEW i \in 1 .. used - n
        PROVE  buf[RingAt(RingAt(rFront, n), i - 1)] = t[i]
    <2>1. RingAt(RingAt(rFront, n), i - 1) = RingAt(rFront, (n + i) - 1)
          /\ n + i \in 1 .. used
      BY <1>1, <1>2 DEF RingAt
    <2>2. R!Content[n + i] = buf[RingAt(rFront, (n + i) - 1)]
      BY <1>1, <2>1
    <2> QED
      BY <1>5, <2>1, <2>2
  <1>7. t = [i \in 1 .. used - n |-> t[i]]
    <2> DEFINE m == used - n
    <2>1. t \in Seq(Value) /\ Len(t) = m
      BY <1>5
    <2> HIDE DEF m
    <2>2. t = [i \in 1 .. m |-> t[i]]
      BY <2>1
    <2> QED
      BY <2>2 DEF m
  <1>8. R!Content' = t
    BY <1>4, <1>6, <1>7
  <1> QED
    BY <1>8 DEF t

(* What comes out, in one piece or in two, are the first bytes. *)
LEMMA RingBrought ==
    ASSUME RingParameters, R!TypeOK, NEW n \in 1 .. R!GetSizeUsed
    PROVE  /\ R!TwoPieces(n) = SubSeq(R!Content, 1, n)
           /\ n <= R!GetDirectDequeSize => R!Read(rFront, n) = SubSeq(R!Content, 1, n)
  <1> DEFINE used == R!GetSizeUsed
             dir == R!GetDirectDequeSize
             t == SubSeq(R!Content, 1, n)
  <1>1. /\ Size \in Nat /\ Size > 1 /\ rFront \in 0 .. Size - 1
        /\ buf \in [0 .. Size - 1 -> Value]
        /\ used \in 0 .. Size - 1
        /\ R!Content = [i \in 1 .. used |-> buf[RingAt(rFront, i - 1)]]
        /\ R!Content \in Seq(Value) /\ Len(R!Content) = used
        /\ dir \in 0 .. used /\ rFront + dir <= Size
        /\ dir < used => rFront + dir = Size
    BY RingBytes, DequeRoom DEF RingParameters, R!TypeOK
  <1> HIDE DEF used, dir
  <1>2. n \in Nat /\ n > 0 /\ n <= used
    BY <1>1 DEF used
  <1>3. /\ t \in Seq(Value) /\ Len(t) = n
        /\ \A i \in 1 .. n : t[i] = buf[RingAt(rFront, i - 1)]
    BY <1>1, <1>2
  <1> HIDE DEF t
  <1>4. n <= dir => R!Read(rFront, n) = t
    <2> SUFFICES ASSUME n <= dir PROVE R!Read(rFront, n) = t
      OBVIOUS
    <2>1. ASSUME NEW i \in 1 .. n
          PROVE  rFront + i - 1 = RingAt(rFront, i - 1)
      BY <1>1, <1>2 DEF RingAt
    <2>2. t = [i \in 1 .. n |-> t[i]]
      BY <1>2, <1>3
    <2> QED
      BY <1>3, <2>1, <2>2 DEF R!Read
  <1>5. dir < n => R!Read(rFront, dir) \o R!Read(0, n - dir) = t
    <2> SUFFICES ASSUME dir < n PROVE R!Read(rFront, dir) \o R!Read(0, n - dir) = t
      OBVIOUS
    <2> DEFINE a == R!Read(rFront, dir)
               b == R!Read(0, n - dir)
               m == n - dir
    <2>1. dir \in Nat /\ m \in Nat /\ m <= Size /\ rFront + dir = Size
      BY <1>1, <1>2
    <2>2. a = [i \in 1 .. dir |-> buf[rFront + i - 1]]
          /\ \A i \in 1 .. dir : rFront + i - 1 = RingAt(rFront, i - 1)
               /\ rFront + i - 1 \in 0 .. Size - 1 /\ i \in 1 .. n
      BY <1>1, <1>2 DEF R!Read, RingAt
    <2>3. b = [i \in 1 .. m |-> buf[i - 1]]
          /\ \A i \in 1 .. m : i - 1 = RingAt(rFront, (dir + i) - 1)
               /\ i - 1 \in 0 .. Size - 1 /\ dir + i \in 1 .. n
      BY <1>1, <1>2, <2>1 DEF R!Read, RingAt
    <2> HIDE DEF a, b, m
    <2>4. a \in Seq(Value) /\ Len(a) = dir
          /\ \A i \in 1 .. dir : t[i] = a[i]
      <3>1. a \in [1 .. dir -> Value]
        BY <1>1, <2>2
      <3>2. a \in Seq(Value) /\ Len(a) = dir
        BY <2>1, <3>1
      <3> QED
        BY <1>3, <2>2, <3>2
    <2>5. b \in Seq(Value) /\ Len(b) = m
          /\ \A i \in 1 .. m : t[dir + i] = b[i]
      <3>1. b \in [1 .. m -> Value]
        BY <1>1, <2>3
      <3>2. b \in Seq(Value) /\ Len(b) = m
        BY <2>1, <3>1
      <3> QED
        BY <1>3, <2>3, <3>2
    <2>6. n = Len(a) + Len(b) /\ t \in [1 .. n -> Value]
      BY <1>1, <1>2, <1>3, <2>4, <2>5 DEF m
    <2>7. /\ \A i \in 1 .. Len(a) : t[i] = a[i]
          /\ \A i \in 1 .. Len(b) : t[Len(a) + i] = b[i]
      BY <2>4, <2>5
    <2>8. a \in Seq(Value) /\ b \in Seq(Value)
      BY <2>4, <2>5
    <2>9. t = a \o b
      BY <2>6, <2>7, <2>8, RingJoined
    <2> QED
      BY <2>9 DEF a, b
  <1>6. R!TwoPieces(n) = t
    BY <1>1, <1>2, <1>4, <1>5 DEF R!TwoPieces, dir
  <1> QED
    BY <1>4, <1>6 DEF t, dir


-----------------------------------------------------------------------------
(* Each call does what Fifo says of it. *)
LEMMA RingChunks ==
    ASSUME RingParameters, NEW s \in R!Chunk
    PROVE  /\ s \in Seq(Value) /\ Len(s) \in Nat /\ Len(s) > 0
           /\ \A n \in 1 .. Len(s) :
                 /\ Len(SubSeq(s, 1, n)) = n
                 /\ \A k \in 1 .. n : SubSeq(s, 1, n)[k] = s[k]
           /\ \A n \in 1 .. Len(s) : \A d \in 0 .. n - 1 :
                 /\ Len(SubSeq(s, d + 1, n)) = n - d
                 /\ \A k \in 1 .. n - d :
                       SubSeq(s, d + 1, n)[k] = s[d + k]
           /\ \A k \in 1 .. Len(s) : s[k] \in Value
  <1>1. PICK m \in 1 .. MaxChunk : s \in [1 .. m -> Value]
    BY DEF R!Chunk
  <1>2. m \in Nat /\ m > 0
    BY DEF RingParameters
  <1>3. s \in Seq(Value) /\ Len(s) = m
    BY <1>1, <1>2
  <1> QED
    BY SMTT(30), <1>2, <1>3

LEMMA EnqueuePuts ==
    ASSUME RingParameters, R!TypeOK, NEW s \in R!Chunk, R!Enqueue(s)
    PROVE  R!TypeOK' /\ R!Q!Put
  <1> DEFINE place == R!GetSizeFree
             dir == R!GetDirectEnqueSize
             n == R!Least(place, Len(s))
  <1>1. /\ Size \in Nat /\ Size > 1 /\ buf \in [0 .. Size - 1 -> Value]
        /\ rFront \in 0 .. Size - 1 /\ rRear \in 0 .. Size - 1
        /\ place \in Nat /\ place < Size
        /\ dir \in 0 .. place /\ rRear + dir <= Size
        /\ dir < place => rRear + dir = Size
        /\ ~R!IsFull => place > 0
        /\ place = Size - 1 - Len(R!Content)
    BY RingBytes, EnqueRoom DEF RingParameters, R!TypeOK, R!GetSizeFree
  <1>2. /\ ~R!IsFull /\ rFront' = rFront /\ out' = out /\ src' = s
        /\ dir >= n => /\ buf' = R!Copied(buf, rRear, SubSeq(s, 1, n))
                       /\ rRear' = (rRear + n) % Size
        /\ dir < n => /\ buf' = R!Copied(R!Copied(buf, rRear, SubSeq(s, 1, dir)), 0,
                                       SubSeq(s, dir + 1, n))
                      /\ rRear' = (n - dir) % Size
    <2>1. dir \in Int /\ n \in Int
      BY <1>1, RingChunks DEF R!Least
    <2> QED
      BY <2>1 DEF R!Enqueue
  <1> HIDE DEF place, dir
  <1>3. n \in 1 .. place /\ n \in 1 .. Len(s) /\ n \in 0 .. Size
    BY SMTT(30), <1>1, <1>2, RingChunks DEF R!Least
  <1>4. s \in Seq(Value) /\ Len(s) \in Nat
        /\ \A k \in 0 .. n - 1 : s[k + 1] \in Value
    BY <1>3, RingChunks
  <1>5. n = IF place < Len(s) THEN place ELSE Len(s)
    BY DEF R!Least
  <1> HIDE DEF n
  <1>6. /\ rRear' = RingAt(rRear, n)
        /\ \A k \in 0 .. n - 1 : buf'[RingAt(rRear, k)] = s[k + 1]
        /\ \A i \in 0 .. Size - 1 :
              (\A k \in 0 .. n - 1 : i # RingAt(rRear, k)) => buf'[i] = buf[i]
        /\ buf' = [i \in 0 .. Size - 1 |-> buf'[i]]
    <2>1. CASE dir >= n
      <3> DEFINE p == SubSeq(s, 1, n)
      <3>1. Len(p) = n /\ \A k \in 0 .. n - 1 : p[k + 1] = s[k + 1]
        BY <1>3, RingChunks
      <3>2. rRear' = RingAt(rRear, n)
        BY <1>1, <1>2, <1>3, <2>1, RingPlaces
      <3> HIDE DEF p
      <3>3. buf' = [i \in 0 .. Size - 1 |-> IF i - rRear \in 0 .. n - 1
                                          THEN p[i - rRear + 1] ELSE buf[i]]
        BY <1>1, <1>2, <2>1, <3>1 DEF R!Copied, p
      <3>4. \A k \in 0 .. n - 1 : /\ RingAt(rRear, k) = rRear + k
                                  /\ rRear + k \in 0 .. Size - 1
                                  /\ (rRear + k) - rRear = k
        BY <1>1, <1>3, <2>1 DEF RingAt
      <3>5. ASSUME NEW k \in 0 .. n - 1
            PROVE  buf'[RingAt(rRear, k)] = s[k + 1]
        BY <3>1, <3>3, <3>4
      <3>6. ASSUME NEW i \in 0 .. Size - 1,
                   \A k \in 0 .. n - 1 : i # RingAt(rRear, k)
            PROVE  buf'[i] = buf[i]
        <4>1. i - rRear \in 0 .. n - 1 => RingAt(rRear, i - rRear) = i
          BY <1>1, <3>4
        <4> QED
          BY <3>3, <3>6, <4>1
      <3>7. buf' = [i \in 0 .. Size - 1 |-> buf'[i]]
        BY <3>3
      <3> QED
        BY <3>2, <3>5, <3>6, <3>7
    <2>2. CASE dir < n
      <3> DEFINE p == SubSeq(s, 1, dir)
                 q == SubSeq(s, dir + 1, n)
      <3>1. rRear + dir = Size /\ dir \in 1 .. n - 1 /\ dir \in 1 .. Len(s)
        BY <1>1, <1>3, <1>4, <2>2
      <3>2. /\ Len(p) = dir /\ \A k \in 0 .. dir - 1 : p[k + 1] = s[k + 1]
            /\ Len(q) = n - dir
            /\ \A k \in 0 .. n - dir - 1 : q[k + 1] = s[dir + k + 1]
        <4>1. Len(p) = dir /\ \A k \in 1 .. dir : p[k] = s[k]
          BY <3>1, RingChunks
        <4>2. Len(q) = n - dir /\ \A k \in 1 .. n - dir : q[k] = s[dir + k]
          BY <1>3, <3>1, RingChunks
        <4>3. \A k \in 0 .. n - dir - 1 :
                 k + 1 \in 1 .. n - dir /\ dir + (k + 1) = dir + k + 1
          BY <1>3, <3>1
        <4>4. \A k \in 0 .. dir - 1 : k + 1 \in 1 .. dir
          BY <3>1
        <4> HIDE DEF p, q
        <4> QED
          BY <4>1, <4>2, <4>3, <4>4
      <3>3. rRear' = RingAt(rRear, n)
        <4>1. n - dir \in 0 .. 2 * Size - 1 /\ n - dir < Size /\ Size > 0
          BY <1>1, <1>3, <3>1
        <4>2. (n - dir) % Size = n - dir
          BY <1>1, <4>1, RingWrapped
        <4> QED
          BY <1>1, <1>2, <1>3, <2>2, <3>1, <4>2 DEF RingAt
      <3> HIDE DEF p, q
      <3>4. buf' = [i \in 0 .. Size - 1 |->
                      IF i \in 0 .. n - dir - 1 THEN q[i + 1]
                      ELSE IF i - rRear \in 0 .. dir - 1 THEN p[i - rRear + 1]
                      ELSE buf[i]]
        <4>1. R!Copied(buf, rRear, p) =
                [i \in 0 .. Size - 1 |-> IF i - rRear \in 0 .. dir - 1
                                        THEN p[i - rRear + 1] ELSE buf[i]]
          BY <1>1, <3>2 DEF R!Copied
        <4>2. buf' = R!Copied(R!Copied(buf, rRear, p), 0, q)
          BY <1>2, <2>2 DEF p, q
        <4>3. \A i \in 0 .. Size - 1 : i - 0 = i
          OBVIOUS
        <4> QED
          BY <3>2, <4>1, <4>2, <4>3 DEF R!Copied
      <3>5. \A k \in 0 .. n - 1 :
               IF k < dir THEN /\ RingAt(rRear, k) = rRear + k
                               /\ (rRear + k) - rRear = k
                               /\ rRear + k \in 0 .. Size - 1
                               /\ rRear + k \notin 0 .. n - dir - 1
               ELSE /\ RingAt(rRear, k) = k - dir /\ k - dir \in 0 .. n - dir - 1
                    /\ k - dir \in 0 .. Size - 1
                    /\ dir + (k - dir) + 1 = k + 1
        BY <1>1, <1>3, <3>1 DEF RingAt
      <3>6. ASSUME NEW k \in 0 .. n - 1
            PROVE  buf'[RingAt(rRear, k)] = s[k + 1]
        <4>1. CASE k < dir
          <5>1. k \in 0 .. dir - 1
            BY <1>1, <4>1
          <5>2. buf'[RingAt(rRear, k)] = p[k + 1]
            BY <3>4, <3>5, <4>1, <5>1
          <5> QED
            BY <3>2, <5>1, <5>2
        <4>2. CASE ~(k < dir)
          <5>1. buf'[RingAt(rRear, k)] = q[(k - dir) + 1]
            BY <3>4, <3>5, <4>2
          <5> QED
            BY <3>2, <3>5, <4>2, <5>1
        <4> QED
          BY <4>1, <4>2
      <3>7. ASSUME NEW i \in 0 .. Size - 1,
                   \A k \in 0 .. n - 1 : i # RingAt(rRear, k)
            PROVE  buf'[i] = buf[i]
        <4>1. i \in 0 .. n - dir - 1 =>
                 dir + i \in 0 .. n - 1 /\ RingAt(rRear, dir + i) = i
          BY <1>1, <1>3, <3>1 DEF RingAt
        <4>2. i - rRear \in 0 .. dir - 1 =>
                 i - rRear \in 0 .. n - 1 /\ RingAt(rRear, i - rRear) = i
          BY <1>1, <1>3, <3>1 DEF RingAt
        <4> QED
          BY <3>4, <3>7, <4>1, <4>2
      <3>8. buf' = [i \in 0 .. Size - 1 |-> buf'[i]]
        BY <3>4
      <3> QED
        BY <3>3, <3>6, <3>7, <3>8
    <2>3. dir >= n \/ dir < n
      BY <1>1, <1>3
    <2> QED
      BY <2>1, <2>2, <2>3
  <1>7. R!TypeOK'
    <2>1. RingAt(rRear, n) \in 0 .. Size - 1
      BY <1>1, <1>3, RingPlaces
    <2>2. ASSUME NEW i \in 0 .. Size - 1
          PROVE  buf'[i] \in Value
      BY <1>1, <1>4, <1>6
    <2>3. buf' \in [0 .. Size - 1 -> Value]
      <3>1. buf' = [i \in 0 .. Size - 1 |-> buf'[i]]
        BY <1>6
      <3> QED
        BY <2>2, <3>1
    <2> QED
      BY <1>1, <1>2, <1>6, <2>1, <2>3 DEF R!TypeOK
  <1>8. R!Content' = R!Content \o SubSeq(s, 1, n)
    BY <1>2, <1>3, <1>4, <1>6, <1>7, RingWritten DEF place
  <1>9. R!Q!First((Size - 1) - Len(R!Content), src') = SubSeq(s, 1, n)
    BY <1>1, <1>2, <1>5 DEF R!Q!First
  <1> QED
    BY <1>2, <1>7, <1>8, <1>9 DEF R!Q!Put


LEMMA MoveRearPuts ==
    ASSUME RingParameters, R!TypeOK, NEW s \in R!Chunk, R!MoveRear(s)
    PROVE  R!TypeOK' /\ R!Q!Put
  <1> DEFINE place == R!GetSizeFree
             n == Len(s)
  <1>1. /\ Size \in Nat /\ Size > 1 /\ buf \in [0 .. Size - 1 -> Value]
        /\ rFront \in 0 .. Size - 1 /\ rRear \in 0 .. Size - 1
        /\ place \in Nat /\ place < Size
        /\ R!GetDirectEnqueSize \in 0 .. place
        /\ rRear + R!GetDirectEnqueSize <= Size
        /\ place = (Size - 1) - Len(R!Content)
    BY RingBytes, EnqueRoom DEF RingParameters, R!TypeOK, R!GetSizeFree
  <1>2. /\ n <= R!GetDirectEnqueSize
        /\ rFront' = rFront /\ out' = out /\ src' = s
        /\ buf' = R!Copied(buf, rRear, s) /\ rRear' = (rRear + n) % Size
    BY DEF R!MoveRear
  <1>3. s \in Seq(Value) /\ n \in Nat /\ n > 0
        /\ \A k \in 0 .. n - 1 : s[k + 1] \in Value
    BY RingChunks
  <1> HIDE DEF place
  <1>4. n \in 1 .. place /\ n \in 0 .. Size /\ rRear + n <= Size
    BY <1>1, <1>2, <1>3
  <1>5. rRear' = RingAt(rRear, n) /\ RingAt(rRear, n) \in 0 .. Size - 1
    BY <1>1, <1>2, <1>4, RingPlaces
  <1> HIDE DEF n
  <1>6. buf' = [i \in 0 .. Size - 1 |-> IF i - rRear \in 0 .. n - 1
                                      THEN s[i - rRear + 1] ELSE buf[i]]
    BY <1>1, <1>2 DEF R!Copied, n
  <1>7. \A k \in 0 .. n - 1 : /\ RingAt(rRear, k) = rRear + k
                              /\ rRear + k \in 0 .. Size - 1
                              /\ (rRear + k) - rRear = k
    BY <1>1, <1>3, <1>4 DEF RingAt
  <1>8. \A k \in 0 .. n - 1 : buf'[RingAt(rRear, k)] = s[k + 1]
    BY <1>6, <1>7
  <1>9. ASSUME NEW i \in 0 .. Size - 1, \A k \in 0 .. n - 1 : i # RingAt(rRear, k)
        PROVE  buf'[i] = buf[i]
    <2>1. i - rRear \in 0 .. n - 1 => RingAt(rRear, i - rRear) = i
      BY <1>1, <1>7
    <2> QED
      BY <1>6, <1>9, <2>1
  <1>10. R!TypeOK'
    <2>1. buf' \in [0 .. Size - 1 -> Value]
      BY <1>1, <1>3, <1>6
    <2> QED
      BY <1>1, <1>2, <1>5, <2>1 DEF R!TypeOK
  <1>11. R!Content' = R!Content \o SubSeq(s, 1, n)
    <2>1. n <= Len(s)
      BY <1>3 DEF n
    <2> QED
      BY <1>2, <1>3, <1>4, <1>5, <1>8, <1>9, <1>10, <2>1, RingWritten DEF place
  <1>12. R!Q!First((Size - 1) - Len(R!Content), src') = SubSeq(s, 1, n)
    <2>1. n = IF place < Len(s) THEN place ELSE Len(s)
      BY <1>1, <1>3, <1>4 DEF n
    <2> QED
      BY <1>1, <1>2, <2>1 DEF R!Q!First
  <1> QED
    BY <1>2, <1>10, <1>11, <1>12 DEF R!Q!Put

LEMMA RingGetting ==
    ASSUME RingParameters, R!TypeOK, NEW n \in 1 .. R!GetSizeUsed,
           out' = SubSeq(R!Content, 1, n), UNCHANGED <<buf, rRear, src>>,
           R!TypeOK', rFront' = rFront \/ rFront' = RingAt(rFront, n)
    PROVE  R!Q!Get
  <1>1. R!Content \in Seq(Value) /\ Len(R!Content) = R!GetSizeUsed
        /\ R!GetSizeUsed \in Nat
    BY RingBytes DEF RingParameters
  <1>2. n \in Nat /\ n <= Len(R!Content)
    BY <1>1
  <1>3. Len(out') = n
    BY <1>1, <1>2
  <1>4. out' = R!Q!First(Len(out'), R!Content)
    <2>1. (IF n < Len(R!Content) THEN n ELSE Len(R!Content)) = n
      BY <1>1, <1>2
    <2> QED
      BY <1>3, <2>1 DEF R!Q!First
  <1>5. R!Content' = R!Content \/ R!Content' = SubSeq(R!Content, n + 1, Len(R!Content))
    <2>1. CASE rFront' = rFront
      BY <2>1 DEF R!Content, R!GetSizeUsed
    <2>2. CASE rFront' = RingAt(rFront, n)
      BY <2>2, RingGone
    <2> QED
      BY <2>1, <2>2
  <1>6. R!Content' \in {R!Content, SubSeq(R!Content, Len(out') + 1, Len(R!Content))}
    BY <1>3, <1>5
  <1> QED
    BY <1>4, <1>6 DEF R!Q!Get

LEMMA PeekGets ==
    ASSUME RingParameters, R!TypeOK, NEW n \in 1 .. Size - 1, R!Peek(n)
    PROVE  R!TypeOK' /\ R!Q!Get
  <1>1. R!TypeOK' /\ R!GetSizeUsed \in 1 .. Size - 1 /\ n \in Nat /\ n > 0
    BY RingBytes DEF R!Peek, R!TypeOK, RingParameters
  <1>2. R!Least(n, R!GetSizeUsed) \in 1 .. R!GetSizeUsed
    BY <1>1 DEF R!Least
  <1> DEFINE m == R!Least(n, R!GetSizeUsed)
  <1>3. out' = R!TwoPieces(m) /\ UNCHANGED <<buf, rRear, src>> /\ rFront' = rFront
    BY DEF R!Peek
  <1> HIDE DEF m
  <1>4. m \in 1 .. R!GetSizeUsed
    BY <1>2 DEF m
  <1>5. out' = SubSeq(R!Content, 1, m)
    BY <1>3, <1>4, RingBrought
  <1> QED
    BY <1>1, <1>3, <1>4, <1>5, RingGetting

LEMMA DequeueGets ==
    ASSUME RingParameters, R!TypeOK, NEW n \in 1 .. Size - 1, R!Dequeue(n)
    PROVE  R!TypeOK' /\ R!Q!Get
  <1> DEFINE dir == R!GetDirectDequeSize
             used == R!GetSizeUsed
  <1>1. /\ Size \in Nat /\ Size > 1 /\ rFront \in 0 .. Size - 1
        /\ used \in 0 .. Size - 1
        /\ dir \in 0 .. used /\ rFront + dir <= Size
        /\ dir < used => rFront + dir = Size
    BY RingBytes, DequeRoom DEF RingParameters, R!TypeOK
  <1>2. /\ n <= used /\ out' = R!TwoPieces(n) /\ UNCHANGED <<buf, rRear, src>>
        /\ rFront' = IF dir >= n THEN (rFront + n) % Size ELSE (n - dir) % Size
    BY DEF R!Dequeue
  <1>3. n \in 1 .. used
    BY <1>1, <1>2
  <1>4. out' = SubSeq(R!Content, 1, n)
    BY <1>2, <1>3, RingBrought
  <1> HIDE DEF dir, used
  <1>5. rFront' = RingAt(rFront, n) /\ RingAt(rFront, n) \in 0 .. Size - 1
    <2>1. n \in 0 .. Size
      BY <1>1, <1>3
    <2>2. (rFront + n) % Size = RingAt(rFront, n) /\ RingAt(rFront, n) \in 0 .. Size - 1
      BY <1>1, <2>1, RingPlaces
    <2>3. ASSUME ~(dir >= n)
          PROVE  (n - dir) % Size = RingAt(rFront, n)
      <3>1. n - dir \in 0 .. 2 * Size - 1 /\ n - dir < Size /\ Size > 0
            /\ rFront + dir = Size
        BY <1>1, <1>3, <2>3
      <3>2. (n - dir) % Size = n - dir
        BY <1>1, <3>1, RingWrapped
      <3> QED
        BY <1>1, <1>3, <2>3, <3>1, <3>2 DEF RingAt
    <2> QED
      BY <1>2, <2>2, <2>3
  <1>6. R!TypeOK'
    BY <1>2, <1>5 DEF R!TypeOK
  <1> QED
    BY <1>2, <1>3, <1>4, <1>5, <1>6, RingGetting DEF used

LEMMA MoveFrontGets ==
    ASSUME RingParameters, R!TypeOK, NEW n \in 1 .. Size - 1, R!MoveFront(n)
    PROVE  R!TypeOK' /\ R!Q!Get
  <1>1. /\ Size \in Nat /\ Size > 1 /\ rFront \in 0 .. Size - 1
        /\ R!GetSizeUsed \in 0 .. Size - 1
        /\ R!GetDirectDequeSize \in 0 .. R!GetSizeUsed
    BY RingBytes, DequeRoom DEF RingParameters, R!TypeOK
  <1>2. /\ n <= R!GetDirectDequeSize /\ out' = R!Read(rFront, n)
        /\ UNCHANGED <<buf, rRear, src>> /\ rFront' = (rFront + n) % Size
    BY DEF R!MoveFront
  <1>3. n \in 1 .. R!GetSizeUsed /\ n \in 0 .. Size
    BY <1>1, <1>2
  <1>4. out' = SubSeq(R!Content, 1, n)
    BY <1>2, <1>3, RingBrought
  <1>5. rFront' = RingAt(rFront, n) /\ RingAt(rFront, n) \in 0 .. Size - 1
    BY <1>1, <1>2, <1>3, RingPlaces
  <1>6. R!TypeOK'
    BY <1>2, <1>5 DEF R!TypeOK
  <1> QED
    BY <1>2, <1>3, <1>4, <1>5, <1>6, RingGetting

LEMMA ClearEmpties ==
    ASSUME RingParameters, R!TypeOK, R!BufferClear
    PROVE  R!TypeOK' /\ R!Q!Clear
  <1>1. /\ Size \in Nat /\ Size > 1
        /\ rFront' = 0 /\ rRear' = 0 /\ UNCHANGED <<buf, src, out>>
    BY DEF R!BufferClear, RingParameters
  <1>2. R!TypeOK'
    BY <1>1 DEF R!TypeOK
  <1>3. R!GetSizeUsed' = 0
    BY <1>1 DEF R!GetSizeUsed
  <1>4. R!Content' = <<>>
    BY <1>3 DEF R!Content
  <1> QED
    BY <1>1, <1>2, <1>4 DEF R!Q!Clear

LEMMA RingStarts ==
    ASSUME RingParameters, R!Init
    PROVE  R!TypeOK /\ R!Q!Init
  <1>1. R!TypeOK
    <2> DEFINE some == CHOOSE v \in Value : TRUE
    <2>1. some \in Value /\ Size \in Nat /\ Size > 1
      BY DEF RingParameters
    <2>2. buf = [i \in 0 .. Size - 1 |-> some] /\ rFront = 0 /\ rRear = 0
      BY DEF R!Init
    <2> HIDE DEF some
    <2> QED
      BY <2>1, <2>2 DEF R!TypeOK
  <1>2. R!Q!Init
    <2>1. R!GetSizeUsed = 0
      BY DEF R!Init, R!GetSizeUsed
    <2>2. R!Content = <<>>
      BY <2>1 DEF R!Content
    <2> QED
      BY <2>2 DEF R!Init, R!Q!Init
  <1> QED
    BY <1>1, <1>2

LEMMA RingGoes ==
    ASSUME RingParameters, R!TypeOK, [R!Next]_(R!vars)
    PROVE  R!TypeOK' /\ [R!Q!Next]_(R!Q!vars)
  <1>1. CASE UNCHANGED R!vars
    <2>1. R!TypeOK'
      BY <1>1 DEF R!TypeOK, R!vars
    <2>2. UNCHANGED R!Q!vars
      BY <1>1 DEF R!vars, R!Q!vars, R!Content, R!GetSizeUsed
    <2> QED
      BY <2>1, <2>2
  <1>2. CASE R!Next
    BY <1>2, EnqueuePuts, MoveRearPuts, PeekGets, DequeueGets, MoveFrontGets,
       ClearEmpties DEF R!Next, R!Q!Next
  <1> QED
    BY <1>1, <1>2

-----------------------------------------------------------------------------
(* What the assumption lets one conclude of the queue here.                  *)
LEMMA QueueSame == QueueParameters
  BY LibraryAssumption DEF QueueParameters

LEMMA QueueInit ==
    ASSUME Q!Init
    PROVE  QueueInv
  BY QueueSame, QueueStarts

LEMMA QueueSteps ==
    ASSUME QueueInv, [Q!Next]_qVars
    PROVE  QueueInv'
  <1>1. [Q!Next]_(Q!vars)
    BY DEF Q!vars, qVars
  <1> QED
    BY <1>1, QueueSame, QueueGoes

LEMMA QueueThen ==
    ASSUME QueueInv
    PROVE  Q!TypeOK /\ Q!NothingLost /\ Q!NodesInUse
  BY QueueSame, ThenTypes, ThenNothingLost, ThenInUse

LEMMA QueueFirst ==
    ASSUME QueueInv, [Q!Next]_qVars, qHead' # qHead
    PROVE  LET first == data[qNext[qHead]]
           IN  first \notin taken /\ taken' = taken \cup {first}
  <1>1. [Q!Next]_(Q!vars)
    BY DEF Q!vars, qVars
  <1> QED
    BY <1>1, QueueSame, ThenFirst

(* What LibraryAssumption says lets this hold of the ring buffer here.      *)
LEMMA RingInit ==
    ASSUME R!Init
    PROVE  R!TypeOK /\ R!Q!Init
  BY LibraryAssumption, RingStarts DEF RingParameters

LEMMA RingSteps ==
    ASSUME R!TypeOK, [R!Next]_rVars
    PROVE  R!TypeOK' /\ [R!Q!Next]_(R!Q!vars)
  <1>1. R!Next \/ UNCHANGED R!vars
    BY DEF R!vars, rVars
  <1> QED
    BY <1>1, LibraryAssumption, RingGoes DEF RingParameters

-----------------------------------------------------------------------------
(* The parts together.                                                      *)
IInv ==
    /\ QueueInv /\ PoolInv /\ PacketInv /\ FrameInv /\ FrameStuck
    /\ R!TypeOK /\ LanInv

(* It holds at first, and every step keeps it.                              *)
LEMMA Initially ==
    ASSUME Init
    PROVE  IInv
  <1>1. FrameStuck
    BY DEF Init, F!Init, FrameStuck
  <1> QED
    BY <1>1, QueueInit, PoolInit, PacketInit, FrameInit, RingInit, LanInit
    DEF Init, IInv

(* A step is one of one part, and the others stay as they were.             *)
LEMMA OnePart ==
    ASSUME [Next]_vars
    PROVE  /\ [Q!Next]_qVars /\ [P!Next]_pVars /\ [K!Next]_kVars
           /\ [F!Next]_fVars /\ [R!Next]_rVars /\ [L!Next]_lVars
  <1>1. \/ Queue \/ Pool \/ Packets \/ Receiving \/ Ring \/ Lan
        \/ UNCHANGED vars
    BY DEF Next
  <1>2. CASE UNCHANGED vars
    BY <1>2 DEF vars
  <1>3. CASE Queue
    BY <1>3 DEF Queue
  <1>4. CASE Pool
    BY <1>4 DEF Pool
  <1>5. CASE Packets
    BY <1>5 DEF Packets
  <1>6. CASE Receiving
    BY <1>6 DEF Receiving
  <1>7. CASE Ring
    BY <1>7 DEF Ring
  <1>8. CASE Lan
    BY <1>8 DEF Lan
  <1> QED
    BY <1>1, <1>2, <1>3, <1>4, <1>5, <1>6, <1>7, <1>8

LEMMA Steps ==
    ASSUME IInv, [Next]_vars
    PROVE  IInv'
  <1>1. /\ QueueInv /\ PoolInv /\ PacketInv /\ FrameInv /\ FrameStuck
        /\ R!TypeOK /\ LanInv
    BY DEF IInv
  <1>2. /\ [Q!Next]_qVars /\ [P!Next]_pVars /\ [K!Next]_kVars
        /\ [F!Next]_fVars /\ [R!Next]_rVars /\ [L!Next]_lVars
    BY OnePart
  <1>3. QueueInv'
    BY <1>1, <1>2, QueueSteps
  <1>4. PoolInv'
    BY <1>1, <1>2, PoolSteps
  <1>5. PacketInv'
    BY <1>1, <1>2, PacketSteps
  <1>6. FrameInv'
    BY <1>1, <1>2, FrameSteps
  <1>7. R!TypeOK'
    BY <1>1, <1>2, RingSteps
  <1>8. LanInv'
    BY <1>1, <1>2, LanSteps
  <1>9. FrameStuck'
    BY <1>1, <1>2, FrameStays
  <1> QED
    BY <1>3, <1>4, <1>5, <1>6, <1>7, <1>8, <1>9 DEF IInv

(* The inductive invariant of the six parts holds.                          *)
THEOREM LibraryInvariant == Spec => []IInv
  BY Initially, Steps, PTL DEF Spec

(* Every variable of every part has its type.                               *)
THEOREM LibraryTypes == Spec => []TypeOK
  <1>1. IInv => TypeOK
    <2> SUFFICES ASSUME IInv PROVE TypeOK
      OBVIOUS
    <2>1. /\ QueueInv /\ PoolInv /\ PacketInv /\ FrameInv /\ R!TypeOK
          /\ LanInv
      BY DEF IInv
    <2> QED
      BY <2>1, QueueThen, PoolThen, PacketThen, FrameThen,
         LanThenExact DEF TypeOK
  <1> QED
    BY <1>1, LibraryInvariant, PTL

(* The queue holds what was put in and has not come out, and no node that   *)
(* _head or _tail lead to is in the pool (LFreeQ.h, Enqueue and Dequeue).   *)
THEOREM QueueKeeps == Spec => []QueueHolds
  <1>1. IInv => QueueHolds
    BY QueueThen DEF IInv, QueueHolds
  <1> QED
    BY <1>1, LibraryInvariant, PTL

(* An object of a pool is handed out or in one list (TLSPool.h); a packet is *)
(* in the pool exactly when nobody has it (SerializeBuf.cpp); ioCount of a   *)
(* LAN session is what is at work on it (CLanManager.cpp).                  *)
THEOREM OwnersAreOne == Spec => []OwnedOnce
  <1>1. IInv => OwnedOnce
    BY PoolThen, PacketThen, LanThenExact DEF IInv, OwnedOnce
  <1> QED
    BY <1>1, LibraryInvariant, PTL

(* A packet decodes to what its contents put in, at whichever receiver and   *)
(* whatever the key (SerializeBuf.cpp, _ClientEncodePacket and               *)
(* _ClientDecodePacket); a stream cut into whatever receives comes out whole *)
(* and in order (NetWorkManager.cpp, RecvCompletionRoutine), and a receive   *)
(* buffer fills up only with a message longer than it (_RecvPost).          *)
THEOREM MessagesArrive == Spec => []Delivered
  <1>1. IInv => Delivered
    BY PacketThen, FrameThen, FrameFull DEF IInv, Delivered
  <1> QED
    BY <1>1, LibraryInvariant, PTL

(* What a Dequeue returns is first in the queue at its swap of _head         *)
(* (LFreeQ.h); and the ring buffer implements Fifo (RingBuffer.cpp).        *)
THEOREM BothInOrder == Spec => InOrder
  <1>1. ASSUME IInv, [Next]_vars
        PROVE  [qHead' # qHead =>
                  LET first == data[qNext[qHead]]
                  IN  first \notin taken
                      /\ taken' = taken \cup {first}]_(Q!vars)
    BY <1>1, OnePart, QueueFirst DEF IInv
  <1>2. Spec => Q!FirstOut
    BY <1>1, LibraryInvariant, PTL DEF Spec, Q!FirstOut
  <1>3. ASSUME IInv, [Next]_vars
        PROVE  [R!Q!Next]_(R!Q!vars)
    BY <1>3, OnePart, RingSteps DEF IInv
  <1>4. Init => R!Q!Init
    BY RingInit DEF Init
  <1>5. Spec => R!IsFifo
    BY <1>3, <1>4, LibraryInvariant, PTL DEF Spec, R!IsFifo, R!Q!Spec
  <1> QED
    BY <1>2, <1>5 DEF InOrder

(* The indices of the ring buffer stay inside it, and only bytes are in it  *)
(* (RingBuffer.cpp).                                                        *)
THEOREM RingTypes == R!Spec => []R!TypeOK
  <1>1. RingParameters
    BY LibraryAssumption DEF RingParameters
  <1> QED
    BY <1>1, RingStarts, RingGoes, PTL DEF R!Spec

(* The ring buffer is a queue of Size - 1 bytes, wherever its ends are: each *)
(* call does to the bytes what Fifo says.                                   *)
THEOREM RingIsFifo == R!Spec => R!IsFifo
  <1>1. RingParameters
    BY LibraryAssumption DEF RingParameters
  <1> QED
    BY <1>1, RingStarts, RingGoes, RingTypes, PTL
    DEF R!Spec, R!IsFifo, R!Q!Spec

===============================================================================
