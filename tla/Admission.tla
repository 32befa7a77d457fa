------------------------------ MODULE Admission ------------------------------
(***************************************************************************)
(* NetWorkLib: how many sessions there are, which index the next one gets,  *)
(* and how the server stops (NetworkManager/NetWorkManager.cpp,             *)
(* Session/Session.cpp).                                                    *)
(*                                                                         *)
(* _sessionLoginCount is raised before a session is made and lowered while  *)
(* one is unmade; it admits a session when it stays below _sessionMaxCount, *)
(* the length of the session array.  The index comes from a stack of its    *)
(* own, longer than the array, and goes back after the count went down: the *)
(* two are never changed together.  ExitNetWorkManager waits for the count  *)
(* to reach zero.                                                           *)
(***************************************************************************)
EXTENDS Integers, Sequences, FiniteSets

CONSTANTS
    Worker,         \* the threads that may find ioCount zero and close
    MaxCount,       \* _sessionMaxCount, the length of _sessionList
    StackSize,      \* how many indices _InitIndexStack pushes
    MaxConnections  \* bound: connections that arrive

(* The two threads that make sessions: the accept thread, and the one that  *)
(* calls ConnectServer.                                                     *)
Maker == {"accept", "connect"}

(* The stack is longer than the array by more indices than there are        *)
(* closers: twenty thousand, for an array of at most ten thousand sessions. *)
ASSUME AdmissionAssumption ==
    /\ IsFiniteSet(Worker)
    /\ Maker \cap Worker = {}
    /\ MaxCount \in Nat \ {0}
    /\ StackSize \in Nat \ {0}
    /\ StackSize >= MaxCount - 1 + Cardinality(Worker)
    /\ MaxConnections \in Nat

Index == 0 .. StackSize - 1

VARIABLES
    stack,          \* CSessionManager::_indexStack, top first
    loginCount,     \* _sessionLoginCount
    session,        \* session[i]: what is in slot i
    arrived,        \* connections so far
    rejected,       \* those refused by the accept thread
    stage,          \* ExitNetWorkManager
    scanned,        \* the loop variable of DisconnectAllSessions
    calm,           \* Exit began with both makers outside _makeNewSession, and
                    \* every session inside the array
    pc, cur         \* where each thread is, and the index it works on

vars == <<stack, loginCount, session, arrived, rejected, stage, scanned, calm,
          pc, cur>>

-----------------------------------------------------------------------------
(* _InitIndexStack pushes 19999 first and 0 last. *)
Init ==
    /\ stack = [n \in 1 .. StackSize |-> n - 1]
    /\ loginCount = 0
    /\ session = [i \in Index |-> "free"]
    /\ arrived = 0 /\ rejected = 0
    /\ stage = "running" /\ scanned = 0 /\ calm = FALSE
    /\ pc = [t \in Maker \cup Worker |-> "idle"]
    /\ cur = [t \in Maker \cup Worker |-> 0]

Goto(t, place) == pc' = [pc EXCEPT ![t] = place]

(* InterlockedIncrement(&_sessionLoginCount) >= _sessionMaxCount *)
Full(n) == n >= MaxCount

-----------------------------------------------------------------------------
(* AcceptThread counts the connection.  One too many is closed at once, and *)
(* its count stays.                                                         *)
CountAccepted ==
    /\ pc["accept"] = "idle"
    /\ stage = "running"
    /\ arrived < MaxConnections
    /\ arrived' = arrived + 1
    /\ loginCount' = loginCount + 1
    /\ IF Full(loginCount')
       THEN rejected' = rejected + 1 /\ UNCHANGED pc
       ELSE Goto("accept", "pop") /\ UNCHANGED rejected
    /\ UNCHANGED <<stack, session, stage, scanned, calm, cur>>

(* ConnectServer counts its own, and takes the count back if it is too many. *)
CountConnecting_LooksFirst ==
    /\ pc["connect"] = "idle"
    /\ stage = "running"
    /\ arrived < MaxConnections
    /\ arrived' = arrived + 1
    /\ loginCount' = IF Full(loginCount + 1) THEN loginCount ELSE loginCount + 1
    /\ Goto("connect", IF Full(loginCount + 1) THEN "takeback" ELSE "pop")
    /\ UNCHANGED <<stack, session, rejected, stage, scanned, calm, cur>>

CountConnecting ==
    /\ pc["connect"] = "idle"
    /\ stage = "running"
    /\ arrived < MaxConnections
    /\ arrived' = arrived + 1
    /\ loginCount' = loginCount + 1
    /\ Goto("connect", IF Full(loginCount') THEN "takeback" ELSE "pop")
    /\ UNCHANGED <<stack, session, rejected, stage, scanned, calm, cur>>

TakeBack ==
    /\ pc["connect"] = "takeback"
    /\ loginCount' = loginCount - 1
    /\ Goto("connect", "idle")
    /\ UNCHANGED <<stack, session, arrived, rejected, stage, scanned, calm,
                   cur>>

(* _makeNewSession: LFreeStack::Alloc, which returns 0 from an empty stack. *)
Pop(m) ==
    /\ pc[m] = "pop"
    /\ IF stack = <<>>
       THEN cur' = [cur EXCEPT ![m] = 0] /\ UNCHANGED stack
       ELSE cur' = [cur EXCEPT ![m] = Head(stack)] /\ stack' = Tail(stack)
    /\ Goto(m, "open")
    /\ UNCHANGED <<loginCount, session, arrived, rejected, stage, scanned,
                   calm>>

(* Session::init, the ID, and the first receive. *)
Open(m) ==
    /\ pc[m] = "open"
    /\ session' = [session EXCEPT ![cur[m]] = "open"]
    /\ Goto(m, "idle")
    /\ UNCHANGED <<stack, loginCount, arrived, rejected, stage, scanned, calm,
                   cur>>

-----------------------------------------------------------------------------
(* _DisconnectSession: the compare-and-swap, once the client is gone or the *)
(* session was aborted; ...                                                 *)
Close(t, i) ==
    /\ pc[t] = "idle"
    /\ session[i] \in {"open", "marked"}
    /\ session' = [session EXCEPT ![i] = "closing"]
    /\ cur' = [cur EXCEPT ![t] = i]
    /\ Goto(t, "uncount")
    /\ UNCHANGED <<stack, loginCount, arrived, rejected, stage, scanned, calm>>

(* ... the count down; ... *)
Uncount_AsInLan(t) ==
    /\ pc[t] = "uncount"
    /\ Goto(t, "push")
    /\ UNCHANGED <<stack, loginCount, session, arrived, rejected, stage,
                   scanned, calm, cur>>

Uncount(t) ==
    /\ pc[t] = "uncount"
    /\ loginCount' = loginCount - 1
    /\ Goto(t, "push")
    /\ UNCHANGED <<stack, session, arrived, rejected, stage, scanned, calm,
                   cur>>

(* ... and CSessionManager::Delete. *)
Push_Bottom(t) ==
    /\ pc[t] = "push"
    /\ session' = [session EXCEPT ![cur[t]] = "free"]
    /\ stack' = Append(stack, cur[t])
    /\ Goto(t, "idle")
    /\ UNCHANGED <<loginCount, arrived, rejected, stage, scanned, calm, cur>>

Push(t) ==
    /\ pc[t] = "push"
    /\ session' = [session EXCEPT ![cur[t]] = "free"]
    /\ stack' = <<cur[t]>> \o stack
    /\ Goto(t, "idle")
    /\ UNCHANGED <<loginCount, arrived, rejected, stage, scanned, calm, cur>>

-----------------------------------------------------------------------------
(* ExitNetWorkManager: the listen socket is closed, ... *)
Exit ==
    /\ stage = "running"
    /\ stage' = "scanning"
    /\ calm' = /\ \A m \in Maker : pc[m] = "idle"
               /\ \A i \in Index : session[i] # "free" => i < MaxCount
    /\ UNCHANGED <<stack, loginCount, session, arrived, rejected, scanned, pc,
                   cur>>

(* ... each slot in use has its session aborted, ... *)
DisconnectAllSessions_SkipsLast ==
    /\ stage = "scanning"
    /\ IF scanned < MaxCount - 2
       THEN /\ session' = [session EXCEPT ![scanned] =
                            IF @ = "open" THEN "marked" ELSE @]
            /\ scanned' = scanned + 1
            /\ UNCHANGED stage
       ELSE /\ stage' = "waiting"
            /\ UNCHANGED <<session, scanned>>
    /\ UNCHANGED <<stack, loginCount, arrived, rejected, calm, pc, cur>>

DisconnectAllSessions ==
    /\ stage = "scanning"
    /\ IF scanned < MaxCount
       THEN /\ session' = [session EXCEPT ![scanned] =
                            IF @ = "open" THEN "marked" ELSE @]
            /\ scanned' = scanned + 1
            /\ UNCHANGED stage
       ELSE /\ stage' = "waiting"
            /\ UNCHANGED <<session, scanned>>
    /\ UNCHANGED <<stack, loginCount, arrived, rejected, calm, pc, cur>>

(* ... and the caller spins until nobody is counted. *)
Stop ==
    /\ stage = "waiting"
    /\ loginCount = 0
    /\ stage' = "stopped"
    /\ UNCHANGED <<stack, loginCount, session, arrived, rejected, scanned,
                   calm, pc, cur>>

-----------------------------------------------------------------------------
Making == CountAccepted \/ CountConnecting \/ TakeBack
          \/ \E m \in Maker : Pop(m) \/ Open(m)

Unmaking == \E t \in Worker :
    Uncount(t) \/ Push(t) \/ \E i \in Index : Close(t, i)

(* A count on the session is never given back, so that nobody will find it  *)
(* at zero: after a malformed packet (RecvCompletionRoutine returns at      *)
(* once), a receive or a send that could not be posted, or an abort before  *)
(* the first receive.                                                       *)
Lose(i) ==
    /\ session[i] \in {"open", "marked"}
    /\ session' = [session EXCEPT ![i] = "stuck"]
    /\ UNCHANGED <<stack, loginCount, arrived, rejected, stage, scanned, calm,
                   pc, cur>>

Losing == \E i \in Index : Lose(i)

Exiting == Exit \/ DisconnectAllSessions \/ Stop

Next == Making \/ Unmaking \/ Losing \/ Exiting

(* A thread inside a function returns from it, an aborted session whose      *)
(* counts are all given back is closed by some worker, the thread that stops *)
(* the server runs.  No client has to leave on its own, and a session that   *)
(* is stuck never closes.                                                    *)
Fairness ==
    /\ WF_vars(TakeBack)
    /\ \A m \in Maker : WF_vars(Pop(m) \/ Open(m))
    /\ \A t \in Worker : WF_vars(Uncount(t) \/ Push(t))
    /\ WF_vars(\E t \in Worker, i \in Index :
                session[i] = "marked" /\ Close(t, i))
    /\ WF_vars(DisconnectAllSessions \/ Stop)

Spec == Init /\ [][Next]_vars /\ Fairness

-----------------------------------------------------------------------------
InHand == {m \in Maker : pc[m] = "open"}
Used == {i \in Index : session[i] # "free"} \cup {cur[m] : m \in InHand}

(* Every variable has its type; in particular no count goes below zero.     *)
TypeOK ==
    /\ stack \in Seq(Index)
    /\ loginCount \in Nat
    /\ session \in [Index -> {"free", "open", "marked", "stuck", "closing"}]
    /\ arrived \in 0 .. MaxConnections
    /\ rejected \in 0 .. MaxConnections
    /\ stage \in {"running", "scanning", "waiting", "stopped"}
    /\ scanned \in 0 .. MaxCount
    /\ calm \in BOOLEAN
    /\ pc \in [Maker \cup Worker -> {"idle", "pop", "open", "takeback",
                                     "uncount", "push"}]
    /\ cur \in [Maker \cup Worker -> Index]

(* Admission keeps the stack within the array, up to the closers that have  *)
(* lowered the count and not yet given their index back: with one of them   *)
(* the index of a new session is always inside the array, with two it may   *)
(* be one past its end.                                                     *)
IndexBound == \A i \in Used : i < MaxCount - 1 + Cardinality(Worker)

(* The count is the sessions being made, there, or being unmade up to the   *)
(* decrement, and every connection ever refused: nothing else moves it.     *)
Counted ==
    {i \in Index : session[i] \in {"open", "marked", "stuck"}}
Closers == {t \in Worker : pc[t] = "uncount"}
Makers == {m \in Maker : pc[m] # "idle"}

CountAccounts ==
    loginCount = Cardinality(Counted) + Cardinality(Closers)
                 + Cardinality(Makers) + rejected

(* ExitNetWorkManager comes to an end if no connection was ever refused,    *)
(* none was in the middle of being accepted when it began, no session had   *)
(* got an index past the end of the array, and none is stuck: the loop that *)
(* aborts, the closers and the wait for the count then finish, in whatever  *)
(* order.                                                                   *)
Stuck == \E i \in Index : session[i] = "stuck"

CalmExitStops == calm /\ rejected = 0 ~> stage = "stopped" \/ Stuck

(* Every session is sent away and waited for (the comment on that loop),    *)
(* at least from a calm beginning and when none is stuck.                   *)
ExitStops == calm ~> stage = "stopped" \/ Stuck

==============================================================================
