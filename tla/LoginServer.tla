---------------------------- MODULE LoginServer ----------------------------
(***************************************************************************)
(* LoginServer: the workers handle login requests by themselves, several at  *)
(* a time; a user per slot, a counter of users, the tokens in Redis, and a   *)
(* tick thread that reports to the monitoring server.                      *)
(*                                                                         *)
(* The database answers every request with the same data: it is left out.    *)
(* Redis keeps the latest token of an account; it is external.             *)
(***************************************************************************)
EXTENDS ServerSessions, Integers

CONSTANTS
    Worker,     \* IOCP_WorkerThread
    Account,
    Wrap,       \* bound: the values of a DWORD
    MaxLogins   \* bound: login requests

VARIABLES
    user,       \* userArr
    currentUserCount,
    token,      \* token[a]: in Redis, the session that brought it, 0 for none
    th,         \* th[w]: the request worker w is at
    logins,     \* requests so far
    answered,   \* answers so far
    loginSuccessCount,
    reported,   \* what the monitoring server was told in all
    lost        \* connections to it that were lost

loginVars == <<user, currentUserCount, token, th, logins, answered,
               loginSuccessCount, reported, lost>>

NoUser == [alive |-> FALSE, sessionID |-> 0]

LoginInit(idle) ==
    /\ user = [s \in Slot |-> NoUser]
    /\ currentUserCount = 0
    /\ token = [a \in Account |-> 0]
    /\ th = [w \in Worker |-> idle]
    /\ logins = 0 /\ answered = 0 /\ loginSuccessCount = 0 /\ reported = 0 /\ lost = 0

AtWorkOn(s) == {w \in Worker : th[w].pc # "idle" /\ th[w].slot = s}

-----------------------------------------------------------------------------
(* InitUser; a session of ConnectServer has none.                          *)
OnAccept(s) ==
    /\ Opened(s, "client")
    /\ user' = [user EXCEPT ![s] = [alive |-> TRUE, sessionID |-> lastId']]
    /\ currentUserCount' = (currentUserCount + 1) % Wrap
    /\ UNCHANGED <<token, th, logins, answered, loginSuccessCount, reported, lost>>

(* Once, when the server has started to accept.                            *)
RegistMonitor(s) ==
    /\ lost = 0 /\ \A r \in Slot : slot[r].kind # "server"
    /\ Opened(s, "server")
    /\ UNCHANGED loginVars

PeerLeaves(s) == Leaves(s) /\ UNCHANGED loginVars

(* DeleteUser counts before it looks whose the user is.                    *)
DeleteUser_Kept(s) ==
    /\ UNCHANGED user
    /\ currentUserCount' = (currentUserCount - 1) % Wrap

DeleteUser(s) ==
    /\ currentUserCount' = (currentUserCount - 1) % Wrap
    /\ user' = IF user[s].sessionID = slot[s].id
               THEN [user EXCEPT ![s] = NoUser]
               ELSE user

OnDisConnect(s) ==
    /\ AtWorkOn(s) = {}
    /\ Disconnected(s)
    /\ DeleteUser(s)
    /\ lost' = IF slot[s].kind = "server" THEN lost + 1 ELSE lost
    /\ UNCHANGED <<token, th, logins, answered, loginSuccessCount, reported>>

Free(s) == Freed(s) /\ UNCHANGED loginVars

-----------------------------------------------------------------------------
(* HandleContentsMessage and HandleLoginREQMsg *)

Goto(w, pc) == th' = [th EXCEPT ![w].pc = pc]

OnMessage(w, s, a) ==
    /\ th[w].pc = "idle" /\ Here(s) /\ AtWorkOn(s) = {}
    /\ slot[s].kind = "client" /\ logins < MaxLogins
    /\ logins' = logins + 1
    /\ th' = [th EXCEPT ![w] = [pc |-> "check", slot |-> s, id |-> slot[s].id, account |-> a]]
    /\ UNCHANGED <<sessionVars, user, currentUserCount, token, answered,
                   loginSuccessCount, reported, lost>>

(* Both tests end in a debugbreak.  Then the size is looked at.            *)
IsUser(w) == user[th[w].slot] = [alive |-> TRUE, sessionID |-> th[w].id]

CheckUser(w) ==
    /\ th[w].pc = "check" /\ IsUser(w)
    /\ Goto(w, "token")
    /\ UNCHANGED <<sessionVars, user, currentUserCount, token, logins, answered,
                   loginSuccessCount, reported, lost>>

BadMessage(w) ==
    /\ th[w].pc = "check" /\ IsUser(w)
    /\ slot' = Aborted(th[w].slot, th[w].id)
    /\ Goto(w, "idle")
    /\ UNCHANGED <<lastId, user, currentUserCount, token, logins, answered,
                   loginSuccessCount, reported, lost>>

SetToken(w) ==
    /\ th[w].pc = "token"
    /\ token' = [token EXCEPT ![th[w].account] = th[w].id]
    /\ Goto(w, "send")
    /\ UNCHANGED <<sessionVars, user, currentUserCount, logins, answered,
                   loginSuccessCount, reported, lost>>

SendPacket(w) ==
    /\ th[w].pc = "send"
    /\ answered' = answered + 1
    /\ Goto(w, "count")
    /\ UNCHANGED <<sessionVars, user, currentUserCount, token, logins,
                   loginSuccessCount, reported, lost>>

CountSuccess(w) ==
    /\ th[w].pc = "count"
    /\ loginSuccessCount' = loginSuccessCount + 1
    /\ Goto(w, "idle")
    /\ UNCHANGED <<sessionVars, user, currentUserCount, token, logins, answered,
                   reported, lost>>

(* The tick thread's UpdateAllMonitorData: InterlockedExchange(&.., 0)     *)
UpdateAllMonitorData ==
    /\ loginSuccessCount > 0
    /\ reported' = reported + loginSuccessCount
    /\ loginSuccessCount' = 0
    /\ UNCHANGED <<sessionVars, user, currentUserCount, token, th, logins, answered, lost>>

LoginNext ==
    \/ \E s \in Slot :
          \/ OnAccept(s) \/ RegistMonitor(s) \/ PeerLeaves(s) \/ OnDisConnect(s) \/ Free(s)
          \/ \E w \in Worker, a \in Account : OnMessage(w, s, a)
    \/ \E w \in Worker :
          \/ CheckUser(w) \/ BadMessage(w) \/ SetToken(w) \/ SendPacket(w) \/ CountSuccess(w)
    \/ UpdateAllMonitorData

-----------------------------------------------------------------------------
LoginTypeOK ==
    /\ user \in [Slot -> [alive : BOOLEAN, sessionID : 0 .. MaxIds]]
    /\ currentUserCount \in 0 .. Wrap - 1
    /\ token \in [Account -> 0 .. MaxIds]

(* The users are the sessions, and are counted, but for one for each lost    *)
(* connection to the monitoring server, below zero around the DWORD.        *)
UsersAgree ==
    /\ \A s \in Slot : user[s] = IF Here(s) /\ slot[s].kind = "client"
                                 THEN [alive |-> TRUE, sessionID |-> slot[s].id]
                                 ELSE NoUser
    /\ currentUserCount =
         (Cardinality({s \in Slot : Here(s) /\ slot[s].kind = "client"}) - lost) % Wrap

(* No worker finds another session's user, and no answer goes out before     *)
(* the account has a token; successes are reported once.                   *)
LoginsAgree ==
    /\ \A w \in Worker :
          /\ th[w].pc = "check" => IsUser(w)
          /\ th[w].pc = "send" => token[th[w].account] # 0
    /\ reported + loginSuccessCount
         + Cardinality({w \in Worker : th[w].pc = "count"}) = answered

=============================================================================
