-------------------------------- MODULE Fifo --------------------------------
(***************************************************************************)
(* What the callers of RingBuffer count on: a queue of bytes of a bounded    *)
(* length.  An Enqueue puts in as much as there is room for, a Dequeue and a *)
(* Peek bring out the first bytes.                                         *)
(***************************************************************************)
EXTENDS Naturals, Sequences

CONSTANTS Value, Room

VARIABLES
    q,          \* the bytes in it
    src,        \* what the latest Enqueue was given
    out         \* what the latest Dequeue or Peek brought out

vars == <<q, src, out>>

Init == q = <<>> /\ src = <<>> /\ out = <<>>

First(n, s) == SubSeq(s, 1, IF n < Len(s) THEN n ELSE Len(s))

Put ==
    /\ q' = q \o First(Room - Len(q), src')
    /\ UNCHANGED out

Get ==
    /\ out' = First(Len(out'), q)
    /\ q' \in {q, SubSeq(q, Len(out') + 1, Len(q))}
    /\ UNCHANGED src

Clear == q' = <<>> /\ UNCHANGED <<src, out>>

Next == Put \/ Get \/ Clear

Spec == Init /\ [][Next]_vars

=============================================================================
