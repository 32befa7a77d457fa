----------------------------- MODULE ClientSide -----------------------------
(***************************************************************************)
(* What the two test clients share: which thread has which sessions, what is *)
(* on the way, and the chat server, which is external.  It takes the place a *)
(* message names, sends chat to everybody it has around the sender, and       *)
(* answers MoveStop and ChatEnd.  It never closes a connection.            *)
(*                                                                         *)
(* The map is one row of sectors.                                          *)
(***************************************************************************)
EXTENDS Integers, FiniteSets, Sequences

CONSTANTS
    SESSION_PER_THREAD,
    clientCount,
    MAX_SECTOR,
    Text,       \* the texts that are said
    MaxOnWay    \* bound: messages on the way to a session

VARIABLES
    sector,     \* the sector whose list a session is in, 0 for none
    inq,        \* messages on the way from the server, in order
    outq,       \* messages in the send queue or on the way to it
    at          \* where the server has the character, 0 for none

Session == 1 .. clientCount
threadCount == (clientCount + SESSION_PER_THREAD - 1) \div SESSION_PER_THREAD
Threads == 1 .. threadCount
Mine(t) == {s \in Session : (s - 1) \div SESSION_PER_THREAD = t - 1}
ThreadOf(s) == (s - 1) \div SESSION_PER_THREAD + 1
Around(p) == {q \in 1 .. MAX_SECTOR : q - p \in {-1, 0, 1}}

Msg(type) == [type |-> type, sector |-> 0, text |-> "none"]
Placed(type, p) == [Msg(type) EXCEPT !.sector = p]
Saying(type, text) == [Msg(type) EXCEPT !.text = text]

ClientsInit ==
    /\ sector = [s \in Session |-> 0]
    /\ inq = [s \in Session |-> <<>>]
    /\ outq = [s \in Session |-> <<>>]
    /\ at = [s \in Session |-> 0]

(* Each session s of S sends Messages(s).                                  *)
Sent(S, Messages(_)) ==
    outq' = [s \in Session |-> IF s \in S THEN outq[s] \o Messages(s) ELSE outq[s]]

(* The client closes the connections of S, and the server takes their        *)
(* characters off the map.                                                 *)
Closed(S) ==
    /\ sector' = [s \in Session |-> IF s \in S THEN 0 ELSE sector[s]]
    /\ inq' = [s \in Session |-> IF s \in S THEN <<>> ELSE inq[s]]
    /\ outq' = [s \in Session |-> IF s \in S THEN <<>> ELSE outq[s]]
    /\ at' = [s \in Session |-> IF s \in S THEN 0 ELSE at[s]]

Tell(R, msg) == inq' = [r \in Session |-> IF r \in R THEN Append(inq[r], msg) ELSE inq[r]]

ServerAccepts(s) ==
    /\ at[s] = 0
    /\ \E p \in 1 .. MAX_SECTOR : /\ at' = [at EXCEPT ![s] = p]
                                  /\ Tell({s}, Placed("CreateCharacter", p))
    /\ UNCHANGED <<sector, outq>>

(* A message there is no room to answer waits.                             *)
ServerAnswers(s) ==
    LET msg == Head(outq[s])
        near == {r \in Session \ {s} : at[r] \in Around(at[s])}
        R == CASE msg.type = "LocalChat" -> near
               [] msg.type \in {"MoveStop", "ChatEnd"} -> {s}
               [] OTHER -> {}
        answer == CASE msg.type = "LocalChat" -> msg
                    [] msg.type = "MoveStop" -> Msg("MoveStopComplete")
                    [] OTHER -> Msg("ChatComplete")
    IN  /\ outq[s] # <<>>
        /\ \A r \in R : Len(inq[r]) < MaxOnWay
        /\ outq' = [outq EXCEPT ![s] = Tail(@)]
        /\ at' = IF msg.sector # 0 THEN [at EXCEPT ![s] = msg.sector] ELSE at
        /\ Tell(R, answer)
        /\ UNCHANGED sector

On(queue, type) == Cardinality({i \in DOMAIN queue : queue[i].type = type})

=============================================================================
