------------------------------- MODULE Packet -------------------------------
(***************************************************************************)
(* CPacket (NetWorkLib/Buffer/SerializeBuf.cpp): one packet of the pool,     *)
(* its use count, and what the client's header and encoding do to it on its *)
(* way to several sessions.  The sender, the flushes and the completions    *)
(* are different threads; CWanManager::SendPacket encodes the packet the     *)
(* first time, and the sessions share the encoded bytes.                    *)
(*                                                                         *)
(* A byte has Radix values.  The header's code is left out.                 *)
(***************************************************************************)
EXTENDS Integers, Sequences, FiniteSets

CONSTANTS
    Receiver,   \* sessions
    Radix,      \* values of a byte: 256
    STICKYKEY,
    MaxPayload, \* bound: bytes of a payload
    MaxLives    \* bound: times the packet is allocated

Byte == 0 .. Radix - 1
Payload == UNION {[1 .. n -> Byte] : n \in 0 .. MaxPayload}

VARIABLES
    usage,      \* _usageCount, 0 in the pool
    encoded,    \* _encodeflag
    headed,     \* _headerFlag
    header,     \* the client header: length and key
    body,       \* from _checkSum on once encoded, the payload before
    payload,    \* what the contents put into it
    todo,       \* the sessions SendPacket has yet to be called for
    sending,    \* the session SendPacket is at work on
    queued,     \* the sessions with the packet in their _sendBuffer
    lives       \* allocations so far

vars == <<usage, encoded, headed, header, body, payload, todo, sending, queued, lives>>

NoHeader == [len |-> 0, key |-> 0]

Init ==
    /\ usage = 0 /\ encoded = FALSE /\ headed = FALSE
    /\ header = NoHeader /\ body = <<>> /\ payload = <<>>
    /\ todo = {} /\ sending = {} /\ queued = {} /\ lives = 0

-----------------------------------------------------------------------------
(* The check sum goes first; each byte is mixed with the key, its place and  *)
(* the result before it, then the same again with the key both sides know. *)
Sum(p) ==
    LET s[n \in 0 .. Len(p)] == IF n = 0 THEN 0 ELSE s[n - 1] + p[n]
    IN  s[Len(p)] % Radix

Xor[p \in Nat \X Nat] ==
    IF p = <<0, 0>> THEN 0
    ELSE ((p[1] + p[2]) % 2) + 2 * Xor[<<p[1] \div 2, p[2] \div 2>>]

Mixed(b, m) == Xor[<<b, m % Radix>>]

Cipher(p, key) ==
    LET plain == <<Sum(p)>> \o p
        one[i \in 0 .. Len(plain)] ==
          IF i = 0 THEN 0 ELSE Mixed(plain[i], key + i + one[i - 1])
        two[i \in 0 .. Len(plain)] ==
          IF i = 0 THEN 0 ELSE Mixed(one[i], STICKYKEY + i + two[i - 1])
    IN  [i \in 1 .. Len(plain) |-> two[i]]

(* _ClientDecodePacket; what does not check is INVALID_DATA_PACKET.        *)
Invalid == <<-1>>
Decoded(h, c) ==
    LET one(i) == Mixed(c[i], STICKYKEY + i + (IF i = 1 THEN 0 ELSE c[i - 1]))
        plain(i) == Mixed(one(i), h.key + i + (IF i = 1 THEN 0 ELSE one(i - 1)))
        p == [i \in 1 .. h.len |-> plain(i + 1)]
    IN  IF Len(c) = h.len + 1 /\ Sum(p) = plain(1) THEN p ELSE Invalid

-----------------------------------------------------------------------------
(* Alloc and Init, and the contents put the payload in.                    *)
Alloc(p) ==
    /\ usage = 0 /\ lives < MaxLives
    /\ usage' = 1 /\ encoded' = FALSE /\ headed' = FALSE
    /\ header' = NoHeader /\ body' = p /\ payload' = p
    /\ todo' = Receiver /\ lives' = lives + 1
    /\ UNCHANGED <<sending, queued>>

(* DecrementUseCount: the last one clears the packet and pools it.         *)
DecrementUseCount ==
    /\ usage' = usage - 1
    /\ IF usage' = 0
       THEN header' = NoHeader /\ body' = <<>>
       ELSE UNCHANGED <<header, body>>

(* SendPacket: the use count, and later ...                                *)
SendPacket(r) ==
    /\ r \in todo /\ sending = {}
    /\ usage' = usage + 1
    /\ todo' = todo \ {r} /\ sending' = {r}
    /\ UNCHANGED <<encoded, headed, header, body, payload, queued, lives>>

(* ... the session is gone ...                                             *)
SessionGone_Kept ==
    /\ sending # {} /\ sending' = {}
    /\ UNCHANGED <<usage, encoded, headed, header, body, payload, todo, queued, lives>>

SessionGone ==
    /\ sending # {} /\ sending' = {}
    /\ DecrementUseCount
    /\ UNCHANGED <<encoded, headed, payload, todo, queued, lives>>

(* ... or the packet is encoded, if it is not, and queued.  PutHeader does   *)
(* nothing the second time.                                                *)
ClientEncodePacket_EachTime(key) ==
    /\ encoded' = TRUE
    /\ headed' = TRUE
    /\ header' = IF headed THEN header ELSE [len |-> Len(body), key |-> key]
    /\ body' = Cipher(body, key)

ClientEncodePacket(key) ==
    \/ encoded /\ UNCHANGED <<encoded, headed, header, body>>
    \/ /\ ~encoded
       /\ encoded' = TRUE
       /\ headed' = TRUE
       /\ header' = IF headed THEN header ELSE [len |-> Len(body), key |-> key]
       /\ body' = Cipher(body, key)

EncodeAndEnqueue(key) ==
    /\ sending # {} /\ sending' = {}
    /\ ClientEncodePacket(key)
    /\ queued' = queued \cup sending
    /\ UNCHANGED <<usage, payload, todo, lives>>

(* Whoever built the packet gives it up after the last SendPacket.         *)
SenderDone ==
    /\ usage > 0 /\ todo = {} /\ sending = {}
    /\ usage > Cardinality(queued)
    /\ DecrementUseCount
    /\ UNCHANGED <<encoded, headed, payload, todo, sending, queued, lives>>

(* SendCompletionRoutine, or Session::clear with the packet unsent.        *)
SendCompletes(r) ==
    /\ r \in queued
    /\ queued' = queued \ {r}
    /\ DecrementUseCount
    /\ UNCHANGED <<encoded, headed, payload, todo, sending, lives>>

Next ==
    \/ \E p \in Payload : Alloc(p)
    \/ \E r \in Receiver : SendPacket(r) \/ SendCompletes(r)
    \/ SessionGone
    \/ \E key \in Byte : EncodeAndEnqueue(key)
    \/ SenderDone

Spec == Init /\ [][Next]_vars

-----------------------------------------------------------------------------
(* Every variable has its type. *)
TypeOK ==
    /\ usage \in 0 .. Cardinality(Receiver) + 2
    /\ {encoded, headed} \subseteq BOOLEAN
    /\ {todo, sending, queued} \subseteq SUBSET Receiver
    /\ header.len \in 0 .. MaxPayload /\ header.key \in Byte
    /\ lives \in 0 .. MaxLives

(* Whoever gets the packet decodes the payload, for every payload and key:  *)
(* also if it went to others before, which have sent it or not, and        *)
(* whatever it was in an earlier life.                                     *)
Delivered == queued # {} => Decoded(header, body) = payload

(* The packet is in the pool when nobody has it any more, and not before.   *)
UsedOrPooled ==
    LET users == Cardinality(queued) + Cardinality(sending)
    IN  /\ usage \in {users, users + 1}
        /\ todo \cup sending # {} => usage = users + 1

=============================================================================
