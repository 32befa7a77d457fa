------------------------------ MODULE Programs ------------------------------
(***************************************************************************)
(* The programs around NetWorkLib that run by themselves: the chat server     *)
(* with one thread for the contents, the login and the monitoring server, and *)
(* the two test clients.  A behaviour is one of the program chosen at its     *)
(* start.  The servers share what they see of the sessions (ServerSessions),  *)
(* the clients what they see of a chat server (ClientSide).                *)
(***************************************************************************)
EXTENDS Integers, FiniteSets

CONSTANTS
    Slot, MaxIds,                                           \* ServerSessions
    Right, Bottom, SECTOR_RATIO, SpeedX, SpeedY, Direction, StartX, StartY,
    MaxFrames, MaxMessages,                                 \* ChatSingle
    Worker, Account, Wrap, MaxLogins,                       \* LoginServer
    DataType, Value, MaxReports, MaxListed,                 \* Monitoring
    SESSION_PER_THREAD, clientCount, MAX_SECTOR, Text, MaxOnWay,    \* ClientSide
    Fresh, MaxChats                                         \* DummyClient, ChatDummy

ASSUME ProgramsAssumption ==
    /\ \A S \in {Slot, Worker, Account} : IsFiniteSet(S) /\ S # {}
    /\ IsFiniteSet(DataType) /\ IsFiniteSet(Text)
    /\ {MaxIds, MaxFrames, MaxMessages, Wrap, MaxLogins, MaxReports, MaxListed,
        MaxChats} \subseteq Nat
    /\ {Right, Bottom, SECTOR_RATIO, SpeedX, SpeedY, SESSION_PER_THREAD, clientCount,
        MAX_SECTOR, MaxOnWay} \subseteq Nat \ {0}
    /\ Right % SECTOR_RATIO = 0 /\ Bottom % SECTOR_RATIO = 0
    /\ StartX \subseteq 0 .. Right - 1 /\ StartY \subseteq 0 .. Bottom - 1
    /\ Wrap > Cardinality(Slot) + MaxIds
    /\ Value \subseteq Nat /\ Fresh \subseteq Int

VARIABLES
    part,       \* the program that runs
    slot, lastId,
    jobs, player, sector, playerCount, loginCount, received, lost, heard,
    user, currentUserCount, token, wTh, logins, answered, loginSuccessCount, reported, wLost,
    agent, clientList, serverList, average, reports, told, row, changed,
    place, inq, outq, at,
    trust, action, complete, pc, doing, next, dummyStatus, stringCounter, allMsgRecvd,
    trustMode, g_GlobalState, waitThreadCount, oldState, threadEnd, storing, conn,
    isMoving, isReadyForChat, moveStopRecv, chatSent, messageCount, moveStopCnt,
    chatPlayerCnt, chatCompleteCnt

C == INSTANCE ChatSingle
L == INSTANCE LoginServer WITH th <- wTh, lost <- wLost
M == INSTANCE Monitoring
D == INSTANCE DummyClient WITH sector <- place
O == INSTANCE ChatDummy WITH sector <- place

singleVars == <<jobs, player, sector, playerCount, loginCount, received, lost, heard>>
loginVars == <<user, currentUserCount, token, wTh, logins, answered, loginSuccessCount,
               reported, wLost>>
monitorVars == <<agent, clientList, serverList, average, reports, told, row, changed>>
sessionVars == <<slot, lastId>>
wayVars == <<place, inq, outq, at>>
dummyVars == <<trust, action, complete, pc, doing, next, dummyStatus, stringCounter,
               allMsgRecvd>>
chatVars == <<trustMode, g_GlobalState, waitThreadCount, oldState, threadEnd, storing,
              conn, isMoving, isReadyForChat, moveStopRecv, chatSent, messageCount,
              moveStopCnt, chatPlayerCnt, chatCompleteCnt>>
clientVars == <<wayVars, dummyVars, chatVars>>
serverVars == <<sessionVars, singleVars, loginVars, monitorVars>>
vars == <<part, serverVars, clientVars>>

-----------------------------------------------------------------------------
Idle == [pc |-> "idle", slot |-> CHOOSE s \in Slot : TRUE, id |-> 0,
         account |-> CHOOSE a \in Account : TRUE]

Init ==
    /\ part \in {"chat", "login", "monitor", "dummy", "older dummy"}
    /\ C!SessionsInit /\ C!SingleInit /\ L!LoginInit(Idle) /\ M!MonitorInit
    /\ D!DummyInit /\ O!ChatInit
    /\ part # "dummy" => ~trust /\ complete = [t \in D!Threads |-> 0]
    /\ part # "older dummy" => trustMode = 1

Chatting ==
    /\ part = "chat" /\ C!SingleNext
    /\ UNCHANGED <<part, loginVars, monitorVars, clientVars>>

LoggingIn ==
    /\ part = "login" /\ L!LoginNext
    /\ UNCHANGED <<part, singleVars, monitorVars, clientVars>>

Reporting ==
    /\ part = "monitor" /\ M!MonitorNext
    /\ UNCHANGED <<part, singleVars, loginVars, clientVars>>

Testing ==
    /\ part = "dummy" /\ D!DummyNext
    /\ UNCHANGED <<part, serverVars, chatVars>>

OlderTesting ==
    /\ part = "older dummy" /\ O!ChatNext
    /\ UNCHANGED <<part, serverVars, dummyVars>>

Next == Chatting \/ LoggingIn \/ Reporting \/ Testing \/ OlderTesting

(* The threads of the clients run, and the server they talk to answers.     *)
Fairness ==
    LET dummy == <<dummyVars, wayVars>>
        older == <<chatVars, wayVars>>
    IN  /\ \A t \in D!Threads :
              /\ WF_dummy(part = "dummy" /\ D!Start(t))
              /\ WF_dummy(part = "dummy" /\ D!TrustStep(t))
              /\ WF_older(part = "older dummy" /\ O!ThreadStep(t))
        /\ \A s \in D!Session :
              /\ WF_dummy(part = "dummy" /\ D!Receive(s))
              /\ WF_dummy(part = "dummy" /\ D!Accepts(s))
              /\ WF_dummy(part = "dummy" /\ D!Answers(s))
              /\ WF_older(part = "older dummy" /\ O!Receive(s))
              /\ WF_older(part = "older dummy" /\ O!Connects(s))
              /\ WF_older(part = "older dummy" /\ O!Answers(s))

Spec == Init /\ [][Next]_vars /\ Fairness

-----------------------------------------------------------------------------
(* Every variable has its type, and players stay on the map. *)
TypeOK ==
    /\ C!SessionsTypeOK /\ C!SingleTypeOK /\ L!LoginTypeOK /\ M!MonitorTypeOK
    /\ IF part = "older dummy" THEN O!ChatTypeOK ELSE D!DummyTypeOK

(* The chat server handles a session's messages between the creation and the *)
(* deletion of its player; a player is in the list of its sector, and chat    *)
(* goes to the players around; when the jobs are done the players are the     *)
(* sessions, and are counted (ChatSingleServer).                           *)
ChatAgrees ==
    part = "chat" =>
        C!JobsInOrder /\ C!InSector /\ C!HeardAround /\ C!Counted /\ C!PlayersAreSessions

(* The login server's users, and the monitoring server's lists, are the       *)
(* sessions that are here; a worker never finds another session's user, and a *)
(* login is counted once; averages lie between the extremes.               *)
ServersAgree ==
    /\ part = "login" => L!UsersAgree /\ L!LoginsAgree
    /\ part = "monitor" => M!AgentsAgree /\ M!AveragesBounded

(* The test clients: no thread is ahead of another, no __debugbreak is        *)
(* reached, the locks of a session and of a sector are not taken both ways,   *)
(* and the counters the threads wait for agree with what is on the way.     *)
ClientsAgree ==
    /\ part = "dummy" => D!NoDebugBreak /\ D!LocksApart /\ D!OneAnswer
    /\ part = "older dummy" => O!CountsAgree /\ O!InStep

(* With the trust mode the rounds of both clients go on for ever, however the *)
(* threads meet; those of ChatDummy unless somebody was there to hear a chat  *)
(* message, whose count nobody takes back.                                 *)
RoundsGoOn ==
    /\ part = "dummy" => D!RoundsGoOn
    /\ part = "older dummy" => O!StatesGoOn

=============================================================================
