------------------------------ MODULE RingBuffer ------------------------------
(***************************************************************************)
(* NetWorkLib/Buffer/RingBuffer.cpp: the send and receive queues of the test  *)
(* clients.  One byte stays free, so that _front = _rear means empty; a       *)
(* caller may also go past Enqueue and write, or read, where GetRear and      *)
(* GetFront point, as much as GetDirectEnqueSize and GetDirectDequeSize allow.*)
(***************************************************************************)
EXTENDS Integers, Sequences

CONSTANTS
    Value,      \* bytes
    Size,       \* _bufSize
    MaxChunk    \* bound: bytes of one call

VARIABLES
    buf,        \* _buf
    front, rear,
    src, out    \* the arguments of the latest call

vars == <<buf, front, rear, src, out>>

Chunk == UNION {[1 .. n -> Value] : n \in 1 .. MaxChunk}

Init ==
    /\ buf = [i \in 0 .. Size - 1 |-> CHOOSE v \in Value : TRUE]
    /\ front = 0 /\ rear = 0
    /\ src = <<>> /\ out = <<>>

-----------------------------------------------------------------------------
IsEmpty == rear = front
IsFull == (rear = Size - 1 /\ front = 0) \/ rear = front - 1

GetSizeUsed == IF rear >= front THEN rear - front ELSE Size - front + rear
GetSizeFree == Size - 1 - GetSizeUsed

GetDirectEnqueSize_ToTheEnd ==
    CASE IsFull -> 0
      [] ~IsFull /\ front > rear -> front - rear - 1
      [] ~IsFull /\ front <= rear -> Size - rear

GetDirectEnqueSize ==
    CASE IsFull -> 0
      [] ~IsFull /\ front > rear -> front - rear - 1
      [] front = rear /\ rear = 0 -> Size - 1
      [] front = rear /\ rear # 0 -> Size - rear
      [] ~IsFull /\ rear > front /\ front = 0 -> Size - rear - 1
      [] ~IsFull /\ rear > front /\ front # 0 -> Size - rear

GetDirectDequeSize ==
    CASE front = rear -> 0
      [] rear > front -> rear - front
      [] front > rear -> Size - front

Least(m, n) == IF m < n THEN m ELSE n

(* memcpy to and from the buffer.                                          *)
Copied(b, at, s) ==
    [i \in DOMAIN b |-> IF i - at \in 0 .. Len(s) - 1 THEN s[i - at + 1] ELSE b[i]]
Read(at, n) == [i \in 1 .. n |-> buf[at + i - 1]]

-----------------------------------------------------------------------------
Enqueue(s) ==
    /\ ~IsFull
    /\ LET n == Least(GetSizeFree, Len(s))
           dir == GetDirectEnqueSize
       IN  IF dir >= n
           THEN /\ buf' = Copied(buf, rear, SubSeq(s, 1, n))
                /\ rear' = (rear + n) % Size
           ELSE /\ buf' = Copied(Copied(buf, rear, SubSeq(s, 1, dir)), 0,
                                 SubSeq(s, dir + 1, n))
                /\ rear' = (n - dir) % Size
    /\ src' = s
    /\ UNCHANGED <<front, out>>

(* The bytes go out in one piece or in two.                                *)
TwoPieces(n) ==
    LET dir == GetDirectDequeSize
    IN  IF dir >= n THEN Read(front, n) ELSE Read(front, dir) \o Read(0, n - dir)

Peek(n) ==
    /\ ~IsEmpty
    /\ out' = TwoPieces(Least(n, GetSizeUsed))
    /\ UNCHANGED <<buf, front, rear, src>>

(* More than there is would be a debugbreak.                               *)
Dequeue(n) ==
    /\ ~IsEmpty /\ n <= GetSizeUsed
    /\ out' = TwoPieces(n)
    /\ front' = IF GetDirectDequeSize >= n
                THEN (front + n) % Size
                ELSE (n - GetDirectDequeSize) % Size
    /\ UNCHANGED <<buf, rear, src>>

(* recv at GetRear, and MoveRear.                                          *)
MoveRear(s) ==
    /\ Len(s) <= GetDirectEnqueSize
    /\ buf' = Copied(buf, rear, s)
    /\ rear' = (rear + Len(s)) % Size
    /\ src' = s
    /\ UNCHANGED <<front, out>>

(* send from GetFront, and MoveFront.                                      *)
MoveFront(n) ==
    /\ n <= GetDirectDequeSize
    /\ out' = Read(front, n)
    /\ front' = (front + n) % Size
    /\ UNCHANGED <<buf, rear, src>>

BufferClear ==
    /\ front' = 0 /\ rear' = 0
    /\ UNCHANGED <<buf, src, out>>

Next ==
    \/ \E s \in Chunk : Enqueue(s) \/ MoveRear(s)
    \/ \E n \in 1 .. Size - 1 : Dequeue(n) \/ Peek(n) \/ MoveFront(n)
    \/ BufferClear

Spec == Init /\ [][Next]_vars

-----------------------------------------------------------------------------
(* Every variable has its type. *)
TypeOK ==
    /\ buf \in [0 .. Size - 1 -> Value]
    /\ {front, rear} \subseteq 0 .. Size - 1

Content == [i \in 1 .. GetSizeUsed |-> buf[(front + i - 1) % Size]]

Q == INSTANCE Fifo WITH q <- Content, Room <- Size - 1

(* Wherever _front and _rear are, full, empty or across the end of the        *)
(* buffer, every call does to the bytes what it would do to a queue of        *)
(* Size - 1 of them, and reads and writes inside the buffer only.            *)
IsFifo == Q!Spec

=============================================================================
