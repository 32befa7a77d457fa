------------------------------- MODULE Framing -------------------------------
(***************************************************************************)
(* From the bytes of a stream back to the messages a peer sent: what          *)
(* RecvCompletionRoutine does to the receive buffer of a session, in         *)
(* CWanManager, whose client messages have a header of five bytes and are    *)
(* looked at only when they are complete, and in CLanManager, whose header   *)
(* of two is taken off first and put back (_RecvBufRestorePacket) if the     *)
(* rest is missing.  Then what is left moves to a new buffer.               *)
(*                                                                         *)
(* A byte is the message it belongs to and its place there; the header's    *)
(* are at the places up to 0.  One receive at a time: one thread.           *)
(***************************************************************************)
EXTENDS Integers, Sequences, SequencesExt

CONSTANTS
    WanHeader, LanHeader,   \* sizeof(ClientHeader), sizeof(LanHeader)
    PAYLOAD_MAX,
    Capacity,   \* the bytes of a CPacket behind HEADER_SIZE
    Messages,   \* bound: messages the peer sends
    MaxLen      \* bound: bytes of a message

VARIABLES
    lan,        \* CLanManager, or CWanManager
    lens,       \* lens[k]: the length of message k
    got,        \* the bytes of the stream received so far
    front,      \* _front of the receive buffer, as an offset
    content,    \* its bytes from _front to _rear
    handed,     \* messages handed to _OnMessage
    last,       \* the latest one
    pc          \* "posted", "loop", "swap", or the session's end

vars == <<lan, lens, got, front, content, handed, last, pc>>

-----------------------------------------------------------------------------
Header == IF lan THEN LanHeader ELSE WanHeader

Bytes(k, from, to) == [j \in 1 .. to - from + 1 |-> <<k, from + j - 1>>]
Stream == FlattenSeq([k \in 1 .. Messages |-> Bytes(k, 1 - Header, lens[k])])

Init ==
    /\ lan \in BOOLEAN
    /\ lens \in [1 .. Messages -> 0 .. MaxLen]
    /\ got = 0 /\ front = 0 /\ content = <<>>
    /\ handed = 0 /\ last = <<>>
    /\ pc = "posted"

rear == front + Len(content)

(* GetBufferSize                                                           *)
Room(r) == Capacity - r

Pop(n) == content' = SubSeq(content, n + 1, Len(content)) /\ front' = front + n

-----------------------------------------------------------------------------
(* The receive completes with n bytes. *)
MoveRear(n) ==
    /\ pc = "posted"
    /\ n \in 1 .. Len(Stream) - got /\ n <= Room(rear)
    /\ got' = got + n
    /\ content' = content \o SubSeq(Stream, got + 1, got + n)
    /\ pc' = "loop"
    /\ UNCHANGED <<lan, lens, front, handed, last>>

Complete ==
    /\ Len(content) >= Header
    /\ Len(content) >= Header + lens[content[1][1]]

(* _DequePacket; the receive buffer of a client has been decoded in place,  *)
(* and a message that is too long ends the session.                        *)
DequePacket ==
    /\ pc = "loop" /\ Complete
    /\ IF ~lan /\ lens[content[1][1]] > PAYLOAD_MAX
       THEN pc' = "aborted" /\ UNCHANGED <<front, content, handed, last>>
       ELSE LET n == Header + lens[content[1][1]]
            IN  /\ last' = SubSeq(content, Header + 1, n)
                /\ Pop(n)
                /\ handed' = handed + 1
                /\ UNCHANGED pc
    /\ UNCHANGED <<lan, lens, got>>

(* _RecvBufRestorePacket: what is left goes behind itself, header first,     *)
(* PutData by PutData; one that has no room puts nothing and says so to      *)
(* nobody.                                                                 *)
RestorePacket_RestFirst ==
    /\ pc = "loop" /\ lan
    /\ ~Complete /\ Len(content) >= Header
    /\ front' = rear
    /\ content' = SubSeq(content, Header + 1, Len(content)) \o SubSeq(content, 1, Header)
    /\ pc' = IF Room(rear) < Len(content) THEN "lost" ELSE "swap"
    /\ UNCHANGED <<lan, lens, got, handed, last>>

RestorePacket ==
    /\ pc = "loop" /\ lan
    /\ ~Complete /\ Len(content) >= Header
    /\ front' = rear
    /\ content' = IF Room(rear) < Header
                  THEN SubSeq(content, Header + 1,
                              IF Room(rear) < Len(content) - Header THEN 0 ELSE Len(content))
                  ELSE SubSeq(content, 1,
                              IF Room(rear) < Len(content) THEN Header ELSE Len(content))
    /\ pc' = IF Room(rear) < Len(content) THEN "lost" ELSE "swap"
    /\ UNCHANGED <<lan, lens, got, handed, last>>

NothingMore ==
    /\ pc = "loop" /\ ~Complete
    /\ ~lan \/ Len(content) < Header
    /\ pc' = "swap"
    /\ UNCHANGED <<lan, lens, got, front, content, handed, last>>

(* SwapRecvBuffer, and _RecvPost, which has nothing to post without room.   *)
SwapRecvBuffer ==
    /\ pc = "swap"
    /\ front' = 0
    /\ pc' = IF Room(Len(content)) = 0 THEN "noreceive" ELSE "posted"
    /\ UNCHANGED <<lan, lens, got, content, handed, last>>

Next ==
    \/ \E n \in 1 .. Capacity : MoveRear(n)
    \/ DequePacket
    \/ RestorePacket
    \/ NothingMore
    \/ SwapRecvBuffer

Spec == Init /\ [][Next]_vars

-----------------------------------------------------------------------------
(* Every variable has its type. *)
TypeOK ==
    /\ got \in 0 .. Len(Stream) /\ handed \in 0 .. Messages
    /\ front \in 0 .. Capacity /\ rear <= Capacity
    /\ pc \in {"posted", "loop", "swap", "aborted", "lost", "noreceive"}

(* However the stream is cut into receives, the messages come out whole and *)
(* in order, and the buffer holds the rest of what came, nothing else: as    *)
(* long as _RecvBufRestorePacket finds the room to put things back.         *)
Reassembled ==
    LET before == FlattenSeq([k \in 1 .. handed |-> Bytes(k, 1 - Header, lens[k])])
    IN  /\ handed > 0 => last = Bytes(handed, 1, lens[handed])
        /\ pc # "lost" => content = SubSeq(Stream, Len(before) + 1, got)

(* A receive buffer fills up, so that _RecvPost posts nothing, only with a   *)
(* message announced longer than the buffer: DequePacket, which refuses it   *)
(* for its length once it is complete, never sees it so.                   *)
FullIsTooLong ==
    pc = "noreceive" /\ handed < Messages => Header + lens[handed + 1] > Capacity

=============================================================================
