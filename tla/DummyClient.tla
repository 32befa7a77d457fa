---------------------------- MODULE DummyClient ----------------------------
(***************************************************************************)
(* DummyClient: the test client.  Its threads own the sessions in turns of    *)
(* SESSION_PER_THREAD.  With g_trustMode = TRUST_MODE all threads go through  *)
(* the same round of actions, each waiting for the others before the next,   *)
(* and count every chat message that somebody must receive; otherwise each   *)
(* session does as it likes.                                               *)
(*                                                                         *)
(* outq is _sendQ with all that is on its way.  The client would not notice  *)
(* that the server closes a session (HandleReadSelect).                    *)
(***************************************************************************)
EXTENDS ClientSide

CONSTANT Fresh  \* what new long[] may hold in g_actionCompleteCount

(* DummyStatus; many tests compare them.                                   *)
Idle == 0
Created == 1
Connecting == 3
Connected == 4
SendingMove == 6
WaitingMoveEnd == 7
RecvdMoveEnd == 8
SendingChat == 9
WaitingChatEnd == 10
RecvdChatComplete == 11

VARIABLES
    trust,      \* g_trustMode = TRUST_MODE
    action,     \* g_currentAction
    complete,   \* g_actionCompleteCount
    pc,         \* where thread t is: "no" before it starts, "frame", "scan",
                \*   "change" and "reset"
    doing,      \* the action it has completed, in these three
    next,       \* the thread whose count it looks at next, in "scan"
    dummyStatus,
    stringCounter,  \* stringCounter[s][text]: how often s must still get it
    allMsgRecvd

round == <<action, complete, pc, doing, next>>
sessions == <<dummyStatus, sector, stringCounter, allMsgRecvd, inq, outq>>
dummyVars == <<trust, round, sessions, at>>

Nothing == [text \in Text |-> 0]

DummyInit ==
    /\ trust \in BOOLEAN
    /\ action = "CONNECT"
    /\ complete \in [Threads -> Fresh]
    /\ pc = [t \in Threads |-> "no"]
    /\ doing = [t \in Threads |-> "none"]
    /\ next = [t \in Threads |-> 1]
    /\ dummyStatus = [s \in Session |-> Idle]
    /\ stringCounter = [s \in Session |-> Nothing]
    /\ allMsgRecvd = [s \in Session |-> TRUE]
    /\ ClientsInit

Running(t) == pc[t] = "frame"
Goto(t, where) == pc' = [pc EXCEPT ![t] = where]

(* The constructor of CThreadNetworkManager.                               *)
Start(t) ==
    /\ pc[t] = "no"
    /\ Goto(t, "frame")
    /\ complete' = [complete EXCEPT ![t] = 0]
    /\ dummyStatus' = [s \in Session |-> IF s \in Mine(t) THEN Created ELSE dummyStatus[s]]
    /\ UNCHANGED <<trust, action, doing, next, sector, stringCounter, allMsgRecvd, inq, outq, at>>

-----------------------------------------------------------------------------
(* HandleNetworkEvent and HandleRecvData_All: a message of a session         *)

Received(s, type) ==
    /\ Running(ThreadOf(s)) /\ inq[s] # <<>> /\ Head(inq[s]).type = type
    /\ inq' = [inq EXCEPT ![s] = Tail(@)]
    /\ UNCHANGED <<trust, round, outq, at>>

CreateCharacter(s) ==
    /\ Received(s, "CreateCharacter")
    /\ sector' = [sector EXCEPT ![s] = Head(inq[s]).sector]
    /\ dummyStatus' = [dummyStatus EXCEPT ![s] = Connected]
    /\ UNCHANGED <<stringCounter, allMsgRecvd>>

(* A message nobody expected is a debugbreak.                              *)
HandleLocalChatMsg(s) ==
    LET text == Head(inq[s]).text IN
    /\ Received(s, "LocalChat")
    /\ IF trust
       THEN /\ stringCounter[s][text] > 0
            /\ stringCounter' = [stringCounter EXCEPT ![s][text] = @ - 1]
            /\ allMsgRecvd' = [allMsgRecvd EXCEPT ![s] = @ \/ stringCounter'[s] = Nothing]
       ELSE UNCHANGED <<stringCounter, allMsgRecvd>>
    /\ UNCHANGED <<dummyStatus, sector>>

HandleMoveStopCompleteMsg(s) ==
    /\ Received(s, "MoveStopComplete")
    /\ dummyStatus' = [dummyStatus EXCEPT ![s] = RecvdMoveEnd]
    /\ UNCHANGED <<sector, stringCounter, allMsgRecvd>>

HandleChatCompleteMsg(s) ==
    /\ Received(s, "ChatComplete")
    /\ dummyStatus' = [dummyStatus EXCEPT ![s] = RecvdChatComplete]
    /\ UNCHANGED <<sector, stringCounter, allMsgRecvd>>

-----------------------------------------------------------------------------
(* Move, and what the session sends: S is the set of sessions that do it     *)

(* Between MoveStart and MoveStop a frame moves a session, at most into the  *)
(* next sector.                                                            *)
Moves(t) ==
    {p \in [Session -> 0 .. MAX_SECTOR] : \A s \in Session :
        IF s \in Mine(t) /\ dummyStatus[s] = SendingMove
        THEN p[s] \in Around(sector[s]) ELSE p[s] = sector[s]}

(* Everybody around must receive what s says, but s.                       *)
CheckReceiversInSector_Here(S, said) ==
    LET Said(r, text) == {s \in S \ {r} : said[s] = text /\ sector[r] = sector[s]}
    IN  /\ stringCounter' = [r \in Session |-> [text \in Text |->
                                stringCounter[r][text] + Cardinality(Said(r, text))]]
        /\ allMsgRecvd' = [r \in Session |->
                              allMsgRecvd[r] /\ \A text \in Text : Said(r, text) = {}]

CheckReceiversInSector(S, said) ==
    LET Said(r, text) == {s \in S \ {r} : said[s] = text /\ sector[r] \in Around(sector[s])}
    IN  /\ stringCounter' = [r \in Session |-> [text \in Text |->
                                stringCounter[r][text] + Cardinality(Said(r, text))]]
        /\ allMsgRecvd' = [r \in Session |->
                              allMsgRecvd[r] /\ \A text \in Text : Said(r, text) = {}]

Status(S, status) ==
    dummyStatus' = [s \in Session |-> IF s \in S THEN status ELSE dummyStatus[s]]

SendMoveStart(S, p) ==
    /\ Status(S, SendingMove)
    /\ Sent(S, LAMBDA s : <<Placed("MoveStart", p[s])>>)
    /\ UNCHANGED <<stringCounter, allMsgRecvd>>

SendMoveStop(S, p) ==
    /\ Status(S, WaitingMoveEnd)
    /\ Sent(S, LAMBDA s : <<Placed("MoveStop", p[s]), Msg("HeartBeat")>>)
    /\ UNCHANGED <<stringCounter, allMsgRecvd>>

-----------------------------------------------------------------------------
(* With g_trustMode = TRUST_MODE: ContentsWork *)

(* A thread that has completed the action does not look at its sessions.    *)
Works(t, which) ==
    /\ Running(t) /\ trust /\ complete[t] = 0 /\ action = which
    /\ UNCHANGED <<trust, action, at>>

With(t, statuses) == {s \in Mine(t) : dummyStatus[s] \in statuses}
Online == Connected .. RecvdChatComplete

(* ThreadActionComplete: count, then look at the others without the lock.  *)
Complete(t) ==
    /\ complete' = [complete EXCEPT ![t] = 1]
    /\ doing' = [doing EXCEPT ![t] = action]
    /\ Goto(t, "scan")
    /\ UNCHANGED next
Going == UNCHANGED <<complete, pc, doing, next>>

HandleConnectAction(t) ==
    /\ Works(t, "CONNECT")
    /\ Status(With(t, {Created}), Connecting)
    /\ IF With(t, {Created, Connecting}) = {} THEN Complete(t) ELSE Going
    /\ UNCHANGED <<sector, stringCounter, allMsgRecvd, inq, outq>>

HandleMoveAction(t) ==
    /\ Works(t, "MOVE")
    /\ With(t, Online) = With(t, {Connected, SendingMove})
    /\ \E p \in Moves(t) : sector' = p /\ SendMoveStart(With(t, {Connected}), p)
    /\ IF With(t, {Connected}) = {} THEN Complete(t) ELSE Going
    /\ UNCHANGED inq

HandleMoveStopAction(t) ==
    /\ Works(t, "MOVESTOP")
    /\ With(t, Online) = With(t, {SendingMove, WaitingMoveEnd, RecvdMoveEnd})
    /\ \E p \in Moves(t) : sector' = p /\ SendMoveStop(With(t, {SendingMove}), p)
    /\ IF With(t, {SendingMove, WaitingMoveEnd}) = {} THEN Complete(t) ELSE Going
    /\ UNCHANGED inq

HandleSendChatMsgAction(t) ==
    /\ Works(t, "SENDCHATMSG")
    /\ \E said \in [With(t, {RecvdMoveEnd}) -> Text] :
          LET S == With(t, {RecvdMoveEnd})
              E == With(t, {SendingChat})
          IN  /\ dummyStatus' = [s \in Session |-> IF s \in S THEN SendingChat
                                                   ELSE IF s \in E THEN WaitingChatEnd
                                                   ELSE dummyStatus[s]]
              /\ Sent(S \cup E, LAMBDA s : <<IF s \in S THEN Saying("LocalChat", said[s])
                                                        ELSE Msg("ChatEnd")>>)
              /\ CheckReceiversInSector(S, said)
    /\ IF With(t, RecvdMoveEnd .. WaitingChatEnd) = {} THEN Complete(t) ELSE Going
    /\ UNCHANGED <<sector, inq>>

HandleCheckMsgAction(t) ==
    /\ Works(t, "CHECKCHATMSG")
    /\ \A s \in With(t, SendingChat .. RecvdChatComplete) : allMsgRecvd[s]
    /\ Status(With(t, Online), Connected)
    /\ Complete(t)
    /\ UNCHANGED <<sector, stringCounter, allMsgRecvd, inq, outq>>

(* Dummy_Clear; the server takes the character off the map.                *)
HandleCheckDisconnectAction(t) ==
    /\ Running(t) /\ trust /\ complete[t] = 0 /\ action = "CHECKDISCONNECT"
    /\ \E S \in SUBSET With(t, Online) :
          /\ Status(S, Created)
          /\ stringCounter' = [s \in Session |-> IF s \in S THEN Nothing
                                                 ELSE stringCounter[s]]
          /\ allMsgRecvd' = [s \in Session |-> s \in S \/ allMsgRecvd[s]]
          /\ Closed(S)
    /\ Complete(t)
    /\ UNCHANGED <<trust, action>>

(* ThreadActionComplete's loop.                                            *)
Scan(t) ==
    /\ pc[t] = "scan"
    /\ IF next[t] <= threadCount /\ complete[next[t]] # 0
       THEN next' = [next EXCEPT ![t] = @ + 1] /\ UNCHANGED pc
       ELSE /\ Goto(t, IF next[t] > threadCount THEN "change" ELSE "frame")
            /\ next' = [next EXCEPT ![t] = 1]
    /\ UNCHANGED <<trust, action, complete, doing, sessions, at>>

(* ChangeAction: the action first, then under the lock the counts, unless    *)
(* another thread has been here already.                                   *)
After == [CONNECT |-> "MOVE", MOVE |-> "MOVESTOP", MOVESTOP |-> "SENDCHATMSG",
          SENDCHATMSG |-> "CHECKCHATMSG", CHECKCHATMSG |-> "CHECKDISCONNECT",
          CHECKDISCONNECT |-> "CONNECT"]

SetAction(t) == action' = After[doing[t]] /\ UNCHANGED complete
ResetCounts(t) ==
    /\ complete' = IF complete[t] = 1 THEN [u \in Threads |-> 0] ELSE complete
    /\ UNCHANGED action

ChangeAction_ResetFirst(t) ==
    /\ \/ pc[t] = "change" /\ Goto(t, "reset") /\ ResetCounts(t)
       \/ pc[t] = "reset" /\ Goto(t, "frame") /\ SetAction(t)
    /\ UNCHANGED <<trust, doing, next, sessions, at>>

ChangeAction(t) ==
    /\ \/ pc[t] = "change" /\ Goto(t, "reset") /\ SetAction(t)
       \/ pc[t] = "reset" /\ Goto(t, "frame") /\ ResetCounts(t)
    /\ UNCHANGED <<trust, doing, next, sessions, at>>

(* A frame of a thread that waits for the others: only Move.               *)
WaitForOthers(t) ==
    /\ Running(t) /\ trust /\ complete[t] # 0
    /\ sector' \in Moves(t)
    /\ UNCHANGED <<trust, round, dummyStatus, stringCounter, allMsgRecvd, inq, outq, at>>

TrustStep(t) ==
    \/ HandleConnectAction(t) \/ HandleMoveAction(t) \/ HandleMoveStopAction(t)
    \/ HandleSendChatMsgAction(t) \/ HandleCheckMsgAction(t)
    \/ HandleCheckDisconnectAction(t) \/ Scan(t) \/ ChangeAction(t)

-----------------------------------------------------------------------------
(* Otherwise: Trust_ContentsWork, for one session *)

Freely(s, statuses) ==
    /\ Running(ThreadOf(s)) /\ ~trust /\ dummyStatus[s] \in statuses
    /\ UNCHANGED <<trust, round, stringCounter, allMsgRecvd, inq, at>>

Ready == {Connected, RecvdMoveEnd, RecvdChatComplete}

DoSessionConnect(s) ==
    /\ Freely(s, {Created})
    /\ Status({s}, Connecting)
    /\ UNCHANGED <<sector, outq>>

(* DoChatOrMoveStart; nothing is counted in this mode.                     *)
SendRandomChat(s) ==
    /\ Freely(s, Ready)
    /\ Status({s}, SendingChat)
    /\ \E text \in Text : Sent({s}, LAMBDA r : <<Saying("LocalChat", text)>>)
    /\ UNCHANGED sector

MoveStart(s) ==
    /\ Freely(s, Ready)
    /\ Status({s}, SendingMove)
    /\ Sent({s}, LAMBDA r : <<Placed("MoveStart", sector[r])>>)
    /\ UNCHANGED sector

Move(s) ==
    /\ Freely(s, {SendingMove})
    /\ \E p \in Around(sector[s]) : sector' = [sector EXCEPT ![s] = p]
    /\ UNCHANGED <<dummyStatus, outq>>

MoveStop(s) ==
    /\ Freely(s, {SendingMove})
    /\ Status({s}, WaitingMoveEnd)
    /\ Sent({s}, LAMBDA r : <<Placed("MoveStop", sector[r]), Msg("HeartBeat")>>)
    /\ UNCHANGED sector

ChatEnd(s) ==
    /\ Freely(s, {SendingChat})
    /\ Status({s}, WaitingChatEnd)
    /\ Sent({s}, LAMBDA r : <<Msg("ChatEnd"), Msg("HeartBeat")>>)
    /\ UNCHANGED sector

FreeStep(s) ==
    \/ DoSessionConnect(s) \/ SendRandomChat(s) \/ MoveStart(s) \/ Move(s)
    \/ MoveStop(s) \/ ChatEnd(s)

-----------------------------------------------------------------------------
(* The chat server *)

Accepts(s) ==
    /\ dummyStatus[s] = Connecting /\ ServerAccepts(s)
    /\ UNCHANGED <<trust, round, dummyStatus, stringCounter, allMsgRecvd>>

Answers(s) ==
    /\ ServerAnswers(s)
    /\ UNCHANGED <<trust, round, dummyStatus, stringCounter, allMsgRecvd>>

Receive(s) ==
    \/ CreateCharacter(s) \/ HandleLocalChatMsg(s)
    \/ HandleMoveStopCompleteMsg(s) \/ HandleChatCompleteMsg(s)

DummyNext ==
    \/ \E t \in Threads : Start(t) \/ TrustStep(t) \/ WaitForOthers(t)
    \/ \E s \in Session : FreeStep(s) \/ Receive(s) \/ Accepts(s) \/ Answers(s)

-----------------------------------------------------------------------------
DummyTypeOK ==
    /\ complete \in [Threads -> {0, 1} \cup Fresh]
    /\ sector \in [Session -> 0 .. MAX_SECTOR]
    /\ \A s \in Session : Len(inq[s]) <= MaxOnWay /\ stringCounter[s] \in [Text -> Nat]

(* No __debugbreak: every session is where the action expects it, whichever  *)
(* thread found the round complete first; and every chat message that comes  *)
(* has been counted for the session, also when the server's and the clients'  *)
(* ideas of who is around might differ.                                    *)
NoDebugBreak ==
    /\ \A t \in Threads :
          trust /\ Running(t) /\ complete[t] = 0 =>
             /\ action = "MOVE" => With(t, Online) = With(t, {Connected, SendingMove})
             /\ action = "MOVESTOP" =>
                   With(t, Online) = With(t, {SendingMove, WaitingMoveEnd, RecvdMoveEnd})
    /\ \A s \in Session :
          trust /\ inq[s] # <<>> /\ Head(inq[s]).type = "LocalChat" =>
             stringCounter[s][Head(inq[s]).text] > 0

(* CreateCharacter locks a session and then a sector, CheckReceiversInSector *)
(* a sector and then the sessions in it: only the round keeps them apart.    *)
LocksApart ==
    trust /\ (\E s \in Session : dummyStatus[s] = SendingChat) =>
        \A s \in Session : dummyStatus[s] >= Connected

(* A session that waits has its question or one answer on the way, and       *)
(* nobody else has.                                                        *)
OneAnswer ==
    \A s \in Session :
        /\ On(outq[s], "MoveStop") + On(inq[s], "MoveStopComplete")
             = IF dummyStatus[s] = WaitingMoveEnd THEN 1 ELSE 0
        /\ On(outq[s], "ChatEnd") + On(inq[s], "ChatComplete")
             = IF dummyStatus[s] = WaitingChatEnd THEN 1 ELSE 0

(* The rounds go on: every action comes again and again.                   *)
RoundsGoOn == trust => \A which \in DOMAIN After : []<>(action = which)

=============================================================================
