------------------------------- MODULE LFreeQ -------------------------------
(***************************************************************************)
(* The queue of packets and jobs (NetWorkLib/Buffer/LFreeQ.h): a linked list *)
(* with a dummy at its head, a compare-and-swap on the last _next, and a     *)
(* tail that anybody may help forward.                                     *)
(*                                                                         *)
(* Nodes go back to a pool while other threads still hold their address.   *)
(* _head and _tail carry a counter in their 17 upper bits, so a swap of      *)
(* theirs succeeds only if nobody has changed them since they were read:   *)
(* that is what headFresh and tailFresh say (a counter that comes round      *)
(* after 2^17 changes is left out).  A _next carries none.  The end of the  *)
(* list is the address of the queue, not null.                             *)
(*                                                                         *)
(* Any thread may get a node another one gave back: the pools of the        *)
(* threads exchange their lists (TLSPool).                                 *)
(***************************************************************************)
EXTENDS Integers, FiniteSets

CONSTANTS
    Thread,     \* threads that enqueue and dequeue
    Node,       \* bound: the nodes there are
    Dummy,      \* the first of them
    End,        \* this, as a _next: the last one
    MaxItems    \* bound: calls of Enqueue

VARIABLES
    data,       \* data[n]: _data, the number of the Enqueue, 0 for none
    next,       \* next[n]: _next
    head, tail, \* the addresses in _head and _tail
    size,       \* _size
    free,       \* the nodes in the pool
    items,      \* Enqueue calls so far
    taken,      \* what Dequeue calls have taken out
    th          \* th[t]: the locals of thread t

vars == <<data, next, head, tail, size, free, items, taken, th>>

-----------------------------------------------------------------------------
Idle == [pc |-> "idle", node |-> End, head |-> End, tail |-> End, next |-> End,
         tailNext |-> End, headFresh |-> FALSE, tailFresh |-> FALSE, ret |-> 0]

(* The constructor. *)
Init ==
    /\ data = [n \in Node |-> 0]
    /\ next = [n \in Node |-> End]
    /\ head = Dummy /\ tail = Dummy
    /\ size = 0
    /\ free = Node \ {Dummy}
    /\ items = 0 /\ taken = {}
    /\ th = [t \in Thread |-> Idle]

At(t, pc) == th[t].pc = pc
Goto(t, pc) == th' = [th EXCEPT ![t].pc = pc]

(* A swap of _tail or of _head: those who have read the old value lose.     *)
StaleTail == [u \in Thread |-> [th[u] EXCEPT !.tailFresh = FALSE]]
StaleHead == [u \in Thread |-> [th[u] EXCEPT !.headFresh = FALSE]]

(* InterlockedCompareExchangePointer(&_tail, to, localTail)                *)
SwapTail(t, to, pc) ==
    IF th[t].tailFresh
    THEN tail' = to /\ th' = [StaleTail EXCEPT ![t].pc = pc]
    ELSE UNCHANGED tail /\ Goto(t, pc)

-----------------------------------------------------------------------------
(* Enqueue *)

(* A node from the pool, made ready before anybody is shown it.            *)
Enqueue(t) ==
    /\ At(t, "idle")
    /\ items < MaxItems
    /\ items' = items + 1
    /\ \E n \in free :
          /\ free' = free \ {n}
          /\ data' = [data EXCEPT ![n] = items']
          /\ next' = [next EXCEPT ![n] = End]
          /\ th' = [th EXCEPT ![t] = [Idle EXCEPT !.pc = "readtail", !.node = n]]
    /\ UNCHANGED <<head, tail, size, taken>>

ReadTail(t) ==
    /\ At(t, "readtail")
    /\ th' = [th EXCEPT ![t].tail = tail, ![t].tailFresh = TRUE, ![t].pc = "readnext"]
    /\ UNCHANGED <<data, next, head, tail, size, free, items, taken>>

ReadNext(t) ==
    /\ At(t, "readnext")
    /\ th' = [th EXCEPT ![t].next = next[th[t].tail],
                        ![t].pc = IF next[th[t].tail] = End THEN "link" ELSE "help"]
    /\ UNCHANGED <<data, next, head, tail, size, free, items, taken>>

(* The tail is behind: forward with it, and again.                         *)
Help(t) ==
    /\ At(t, "help")
    /\ SwapTail(t, th[t].next, "readtail")
    /\ UNCHANGED <<data, next, head, size, free, items, taken>>

(* The swap on _next: the node behind the address may be another by now,    *)
(* or the same one in a new life.                                          *)
Link_Store(t) ==
    /\ At(t, "link")
    /\ next' = [next EXCEPT ![th[t].tail] = th[t].node]
    /\ Goto(t, "grow")
    /\ UNCHANGED <<data, head, tail, size, free, items, taken>>

Link(t) ==
    /\ At(t, "link")
    /\ IF next[th[t].tail] = End
       THEN next' = [next EXCEPT ![th[t].tail] = th[t].node] /\ Goto(t, "grow")
       ELSE UNCHANGED next /\ Goto(t, "readtail")
    /\ UNCHANGED <<data, head, tail, size, free, items, taken>>

Grow(t) ==
    /\ At(t, "grow")
    /\ size' = size + 1
    /\ Goto(t, "movetail")
    /\ UNCHANGED <<data, next, head, tail, free, items, taken>>

MoveTail(t) ==
    /\ At(t, "movetail")
    /\ IF th[t].tailFresh
       THEN tail' = th[t].node /\ th' = [StaleTail EXCEPT ![t] = Idle]
       ELSE UNCHANGED tail /\ th' = [th EXCEPT ![t] = Idle]
    /\ UNCHANGED <<data, next, head, size, free, items, taken>>

-----------------------------------------------------------------------------
(* Dequeue *)

(* _size is taken first; who gets below zero puts it back and has nothing. *)
Dequeue(t) ==
    /\ At(t, "idle")
    /\ size' = size - 1
    /\ th' = [th EXCEPT ![t] =
                [Idle EXCEPT !.pc = IF size' < 0 THEN "putback" ELSE "readhead"]]
    /\ UNCHANGED <<data, next, head, tail, free, items, taken>>

PutBack(t) ==
    /\ At(t, "putback")
    /\ size' = size + 1
    /\ th' = [th EXCEPT ![t] = Idle]
    /\ UNCHANGED <<data, next, head, tail, free, items, taken>>

ReadHead(t) ==
    /\ At(t, "readhead")
    /\ th' = [th EXCEPT ![t].head = head, ![t].headFresh = TRUE, ![t].pc = "readtail2"]
    /\ UNCHANGED <<data, next, head, tail, size, free, items, taken>>

ReadTailToo(t) ==
    /\ At(t, "readtail2")
    /\ th' = [th EXCEPT ![t].tail = tail, ![t].tailFresh = TRUE, ![t].pc = "readnext2"]
    /\ UNCHANGED <<data, next, head, tail, size, free, items, taken>>

ReadHeadNext(t) ==
    /\ At(t, "readnext2")
    /\ th' = [th EXCEPT ![t].next = next[th[t].head], ![t].pc = "readtailnext"]
    /\ UNCHANGED <<data, next, head, tail, size, free, items, taken>>

(* Before the head may move, the tail has to be at the end of the list.     *)
ReadTailNext_NoHelp(t) ==
    /\ At(t, "readtailnext")
    /\ Goto(t, IF th[t].next = End THEN "readhead" ELSE "readdata")
    /\ UNCHANGED <<data, next, head, tail, size, free, items, taken>>

ReadTailNext(t) ==
    /\ At(t, "readtailnext")
    /\ LET n == next[th[t].tail]
       IN  th' = [th EXCEPT ![t].tailNext = n,
                            ![t].pc = CASE n # End -> "help2"
                                        [] n = End /\ th[t].next = End -> "readhead"
                                        [] OTHER -> "readdata"]
    /\ UNCHANGED <<data, next, head, tail, size, free, items, taken>>

HelpToo(t) ==
    /\ At(t, "help2")
    /\ SwapTail(t, th[t].tailNext, "readhead")
    /\ UNCHANGED <<data, next, head, size, free, items, taken>>

ReadData(t) ==
    /\ At(t, "readdata")
    /\ th' = [th EXCEPT ![t].ret = data[th[t].next], ![t].pc = "movehead"]
    /\ UNCHANGED <<data, next, head, tail, size, free, items, taken>>

MoveHead_Unchecked(t) ==
    /\ At(t, "movehead")
    /\ head' = th[t].next
    /\ taken' = taken \cup {th[t].ret}
    /\ th' = [StaleHead EXCEPT ![t].pc = "delete"]
    /\ UNCHANGED <<data, next, tail, size, free, items>>

MoveHead(t) ==
    /\ At(t, "movehead")
    /\ IF th[t].headFresh
       THEN /\ head' = th[t].next
            /\ taken' = taken \cup {th[t].ret}
            /\ th' = [StaleHead EXCEPT ![t].pc = "delete"]
       ELSE UNCHANGED <<head, taken>> /\ Goto(t, "readhead")
    /\ UNCHANGED <<data, next, tail, size, free, items>>

Delete(t) ==
    /\ At(t, "delete")
    /\ free' = free \cup {th[t].head}
    /\ th' = [th EXCEPT ![t] = Idle]
    /\ UNCHANGED <<data, next, head, tail, size, items, taken>>

-----------------------------------------------------------------------------
Step(t) ==
    \/ ReadTail(t) \/ ReadNext(t) \/ Help(t) \/ Link(t) \/ Grow(t) \/ MoveTail(t)
    \/ PutBack(t) \/ ReadHead(t) \/ ReadTailToo(t) \/ ReadHeadNext(t)
    \/ ReadTailNext(t) \/ HelpToo(t) \/ ReadData(t) \/ MoveHead(t) \/ Delete(t)

Next == \E t \in Thread : Enqueue(t) \/ Dequeue(t) \/ Step(t)

(* Threads run. *)
Fairness == \A t \in Thread : WF_vars(Step(t))

Spec == Init /\ [][Next]_vars /\ Fairness

-----------------------------------------------------------------------------
Place == {"idle", "readtail", "readnext", "help", "link", "grow", "movetail",
          "putback", "readhead", "readtail2", "readnext2", "readtailnext",
          "help2", "readdata", "movehead", "delete"}

(* Every variable has its type. *)
TypeOK ==
    /\ data \in [Node -> 0 .. MaxItems]
    /\ next \in [Node -> Node \cup {End}]
    /\ head \in Node /\ tail \in Node /\ free \subseteq Node
    /\ size \in Int /\ items \in 0 .. MaxItems /\ taken \subseteq 0 .. MaxItems
    /\ \A t \in Thread : th[t].pc \in Place

(* The nodes from n to the end of the list, and what they hold.            *)
Chain(n) ==
    LET at[k \in 0 .. Cardinality(Node)] ==
          IF k = 0 THEN n
          ELSE IF at[k - 1] = End THEN End ELSE next[at[k - 1]]
    IN  {at[k] : k \in DOMAIN at} \ {End}

Waiting == {data[n] : n \in Chain(head) \ {head}}

Quiet == \A t \in Thread : At(t, "idle")

(* When nobody is at work on it, the queue holds exactly what was put in    *)
(* and has not come out, and _size says how much that is: whatever lives    *)
(* its nodes have had, nothing is lost, doubled or stranded.               *)
NothingLost ==
    Quiet =>
        /\ Waiting = (1 .. items) \ taken
        /\ size = Cardinality(Chain(head)) - 1

(* What a Dequeue returns was read before its swap of the head, through     *)
(* addresses that may have had a new life since; it is nevertheless what is *)
(* first in the queue at the moment of the swap, and comes out once.       *)
FirstOut ==
    [][head' # head =>
          LET first == data[next[head]]
          IN  first \notin taken /\ taken' = taken \cup {first}]_vars

(* What _head and _tail lead to is not in the pool, so that no thread gets  *)
(* a node to fill in that the queue still needs.                           *)
NodesInUse == (Chain(head) \cup Chain(tail)) \cap free = {}

(* No call goes on for ever, the swaps it loses to others being as many as  *)
(* their successes; a Dequeue that has got its share of _size finds a node. *)
CallsEnd == \A t \in Thread : ~At(t, "idle") ~> At(t, "idle")

=============================================================================
