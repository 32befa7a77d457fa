------------------------------- MODULE Library -------------------------------
(***************************************************************************)
(* The parts of NetWorkLib that keep nothing of each other's state, each     *)
(* checked by itself: a behaviour is one of the part chosen at its start,    *)
(* and the other parts stay as they were made.                             *)
(***************************************************************************)
EXTENDS Integers, FiniteSets

CONSTANTS
    Thread, Node, Dummy, End, MaxItems,                     \* LFreeQ
    Cell, Null, NODECOUNT, MaxMade, MaxPushes,              \* TLSPool
    Receiver, Radix, STICKYKEY, MaxPayload, MaxLives,       \* Packet
    WanHeader, LanHeader, PAYLOAD_MAX, Capacity, Messages, MaxLen,  \* Framing
    Value, Size, MaxChunk,                                  \* RingBuffer
    Worker, Caller, Acceptor, SessionMax, MaxCalls          \* LanManager

ASSUME LibraryAssumption ==
    /\ Dummy \in Node /\ End \notin Node /\ Null \notin Cell
    /\ \A S \in {Thread, Node, Cell, Receiver, Worker, Caller} : IsFiniteSet(S)
    /\ {NODECOUNT, Radix, WanHeader, LanHeader, MaxChunk} \subseteq Nat \ {0}
    /\ Size \in Nat \ {0, 1}
    /\ {MaxItems, MaxMade, MaxPushes, MaxPayload, MaxLives, PAYLOAD_MAX, Capacity,
        Messages, MaxLen, SessionMax, MaxCalls} \subseteq Nat
    /\ STICKYKEY \in 0 .. Radix - 1 /\ Value # {}
    /\ Worker \cap Caller = {} /\ Acceptor \notin Worker \cup Caller

VARIABLES
    part,       \* the part that runs
    data, qNext, qHead, qTail, qSize, free, items, taken, qTh,
    made, held, local, top, list, pNext, msize, spare, pushes, pTh,
    usage, encoded, headed, header, body, payload, todo, sending, queued, lives,
    lan, lens, got, fFront, content, handed, last, fPc,
    buf, rFront, rRear, src, out,
    login, id, released, io, status, peer, recv, send, sendCount, queue,
    request, calls, lTh

Q == INSTANCE LFreeQ WITH next <- qNext, head <- qHead, tail <- qTail,
                          size <- qSize, th <- qTh
P == INSTANCE TLSPool WITH next <- pNext, th <- pTh
K == INSTANCE Packet
F == INSTANCE Framing WITH front <- fFront, pc <- fPc
R == INSTANCE RingBuffer WITH front <- rFront, rear <- rRear
L == INSTANCE LanManager WITH th <- lTh

qVars == <<data, qNext, qHead, qTail, qSize, free, items, taken, qTh>>
pVars == <<made, held, local, top, list, pNext, msize, spare, pushes, pTh>>
kVars == <<usage, encoded, headed, header, body, payload, todo, sending, queued, lives>>
fVars == <<lan, lens, got, fFront, content, handed, last, fPc>>
rVars == <<buf, rFront, rRear, src, out>>
lVars == <<login, id, released, io, status, peer, recv, send, sendCount, queue,
           request, calls, lTh>>
vars == <<part, qVars, pVars, kVars, fVars, rVars, lVars>>

-----------------------------------------------------------------------------
Init ==
    /\ part \in {"queue", "pool", "packet", "framing", "ring", "lan"}
    /\ Q!Init /\ P!Init /\ K!Init /\ F!Init /\ R!Init /\ L!Init
    /\ part # "framing" => ~lan /\ lens = [k \in 1 .. Messages |-> 0]

Queue ==
    /\ part = "queue" /\ Q!Next
    /\ UNCHANGED <<part, pVars, kVars, fVars, rVars, lVars>>

Pool ==
    /\ part = "pool" /\ P!Next
    /\ UNCHANGED <<part, qVars, kVars, fVars, rVars, lVars>>

Packets ==
    /\ part = "packet" /\ K!Next
    /\ UNCHANGED <<part, qVars, pVars, fVars, rVars, lVars>>

Receiving ==
    /\ part = "framing" /\ F!Next
    /\ UNCHANGED <<part, qVars, pVars, kVars, rVars, lVars>>

Ring ==
    /\ part = "ring" /\ R!Next
    /\ UNCHANGED <<part, qVars, pVars, kVars, fVars, lVars>>

Lan ==
    /\ part = "lan" /\ L!Next
    /\ UNCHANGED <<part, qVars, pVars, kVars, fVars, rVars>>

Next == Queue \/ Pool \/ Packets \/ Receiving \/ Ring \/ Lan

(* Threads run, and a worker takes the completions that are there.         *)
Fairness ==
    /\ \A t \in Thread : WF_qVars(part = "queue" /\ Q!Step(t))
    /\ \A t \in Worker \cup Caller \cup {Acceptor} :
          WF_lVars(part = "lan" /\ L!Step(t))
    /\ \A t \in Worker : /\ SF_lVars(part = "lan" /\ L!RecvCompletes(t))
                         /\ SF_lVars(part = "lan" /\ L!SendCompletes(t))

Spec == Init /\ [][Next]_vars /\ Fairness

-----------------------------------------------------------------------------
(* Every variable has its type. *)
TypeOK ==
    Q!TypeOK /\ P!TypeOK /\ K!TypeOK /\ F!TypeOK /\ R!TypeOK /\ L!TypeOK

(* When nobody is at work on the queue, it holds exactly what was put in and *)
(* has not come out, although its nodes are recycled while other threads    *)
(* still hold their addresses (LFreeQ.h); and at no time does _head or _tail *)
(* lead to a node that is in the pool.                                     *)
QueueHolds == Q!NothingLost /\ Q!NodesInUse

(* What is counted is counted once: an object of a pool is handed out or in  *)
(* one list, however the exchanges of lists interleave (TLSPool.h); a packet *)
(* is in the pool exactly when neither its maker nor a session has it        *)
(* (SerializeBuf.cpp); ioCount of a LAN session is what is at work on it, and *)
(* a failed WSASend counts for ever (CLanManager.cpp).                     *)
OwnedOnce == P!OwnedOnce /\ K!UsedOrPooled /\ L!CountExact

(* Every receiver of a packet decodes what the contents put in, also of one  *)
(* encoded for somebody else before; and however a stream is cut into        *)
(* receives, its messages come out whole and in order, and only one longer   *)
(* than the receive buffer leaves it without a receive.                    *)
Delivered == K!Delivered /\ F!Reassembled /\ F!FullIsTooLong

(* What Dequeue of the lock-free queue returns is first in the queue when it *)
(* moves the head; and the ring buffer, wherever its ends are, is a queue of *)
(* bytes (refinement of Fifo).                                             *)
InOrder == Q!FirstOut /\ R!IsFifo

(* No Enqueue or Dequeue goes on for ever; and a LAN session whose            *)
(* connection is reset is closed, unless a WSASend of its failed.          *)
EverythingEnds == Q!CallsEnd /\ L!ResetCloses

=============================================================================
