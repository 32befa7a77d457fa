--------------------------- MODULE ServerSessions ---------------------------
(***************************************************************************)
(* What ChatSingleServer, LoginServer and MonitoringServer see of their       *)
(* CWanManager: sessions come, with a new ID and the index of a free slot,   *)
(* and _OnAccept before any message of theirs; they go, with _OnDisConnect   *)
(* when nobody is at work on them any more, and only then is the slot free.  *)
(* That the library keeps this is SessionPool's theorem and SessionContract. *)
(*                                                                         *)
(* "server" is the session ConnectServer makes towards the monitoring        *)
(* server: it has no _OnAccept but an _OnDisConnect like the others.        *)
(***************************************************************************)
EXTENDS Naturals, FiniteSets, Sequences

CONSTANTS
    Slot,       \* indices of the session array
    MaxIds      \* bound: sessions

VARIABLES
    slot,       \* slot[s]: the session in it
    lastId      \* the latest session ID

sessionVars == <<slot, lastId>>

NoSession == [id |-> 0, phase |-> "free", kind |-> "client"]

SessionsInit ==
    /\ slot = [s \in Slot |-> NoSession]
    /\ lastId = 0

Opened(s, kind) ==
    /\ slot[s].phase = "free" /\ lastId < MaxIds
    /\ lastId' = lastId + 1
    /\ slot' = [slot EXCEPT ![s] = [id |-> lastId', phase |-> "open", kind |-> kind]]

(* The peer goes, or RequestSessionAbort has cancelled the receive; a worker   *)
(* that has messages of the session yet goes on to handle them.             *)
Leaves(s) ==
    /\ slot[s].phase = "open"
    /\ slot' = [slot EXCEPT ![s].phase = "left"]
    /\ UNCHANGED lastId

(* _DisconnectSession: _OnDisConnect, and later the index goes back.        *)
Disconnected(s) ==
    /\ slot[s].phase = "left"
    /\ slot' = [slot EXCEPT ![s].phase = "closing"]
    /\ UNCHANGED lastId

Freed(s) ==
    /\ slot[s].phase = "closing"
    /\ slot' = [slot EXCEPT ![s] = NoSession]
    /\ UNCHANGED lastId

(* DisconnectSession with the ID of a session.                             *)
Aborted(s, id) ==
    IF slot[s].id = id /\ slot[s].phase = "open"
    THEN [slot EXCEPT ![s].phase = "left"]
    ELSE slot

(* Sessions that have been accepted and not been taken leave of.           *)
Here(s) == slot[s].phase \in {"open", "left"}

SessionsTypeOK ==
    /\ slot \in [Slot -> [id : 0 .. MaxIds, kind : {"client", "server"},
                          phase : {"free", "open", "left", "closing"}]]
    /\ lastId \in 0 .. MaxIds

=============================================================================
