--------------------------- MODULE SessionContract ---------------------------
(***************************************************************************)
(* What the network library promises to the server programs built on it,   *)
(* whatever its threads do: a session ID is accepted once and disconnected  *)
(* at most once, in that order; two sessions that are open at the same     *)
(* time never share an index of the session array; a packet handed to      *)
(* SendPacket for an ID is queued on the connection of that ID or nowhere; *)
(* and what is queued goes away with the connection.                        *)
(*                                                                         *)
(* SessionPool, the model of the code, is shown to implement this module.  *)
(***************************************************************************)
EXTENDS Naturals

CONSTANTS
    Index,      \* the indices of CSessionManager::_sessionList
    NoIndex,    \* "no index": the ID was not given out yet
    MaxID       \* bound on the session ids given out

VARIABLES
    phase,      \* phase[k]: what the contents know of id k
    home,       \* home[k]: the index in the top 16 bits of session ID k
    queued      \* queued[k]: the ids named by the packets on k's connection

vars == <<phase, home, queued>>

Id == 1 .. MaxID

Init ==
    /\ phase = [k \in Id |-> "none"]
    /\ home = [k \in Id |-> NoIndex]
    /\ queued = [k \in Id |-> {}]

(* An ID is given out, on an index no open session is using. *)
Open(k, i) ==
    /\ phase[k] = "none"
    /\ \A other \in Id : phase[other] = "open" => home[other] # i
    /\ phase' = [phase EXCEPT ![k] = "open"]
    /\ home' = [home EXCEPT ![k] = i]
    /\ UNCHANGED queued

(* A packet for k joins the packets waiting on the connection of k. *)
Queue(k) ==
    /\ phase[k] = "open"
    /\ queued' = [queued EXCEPT ![k] = @ \cup {k}]
    /\ UNCHANGED <<phase, home>>

(* What was waiting has been sent. *)
Sent(k) ==
    /\ phase[k] = "open"
    /\ queued' = [queued EXCEPT ![k] = {}]
    /\ UNCHANGED <<phase, home>>

(* The one disconnection of k. *)
Close(k) ==
    /\ phase[k] = "open"
    /\ phase' = [phase EXCEPT ![k] = "gone"]
    /\ queued' = [queued EXCEPT ![k] = {}]
    /\ UNCHANGED home

Next ==
    \E k \in Id :
        \/ \E i \in Index : Open(k, i)
        \/ Queue(k)
        \/ Sent(k)
        \/ Close(k)

Spec == Init /\ [][Next]_vars

==============================================================================
