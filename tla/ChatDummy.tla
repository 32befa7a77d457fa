----------------------------- MODULE ChatDummy -----------------------------
(***************************************************************************)
(* The older test client, ChatDummy.  With trustMode = 0 its threads take     *)
(* STATE_MOVING, STATE_WAIT_STOP, STATE_CHATTING and STATE_WAIT_CHAT          *)
(* together: each counts itself in waitThreadCount when it is through, and    *)
(* thread 0 alone (here 1) goes on to the next.  Otherwise each session does  *)
(* as it likes.                                                            *)
(*                                                                         *)
(* The three seconds of moving and the second of chatting may end at any      *)
(* time.  Heartbeats, which nobody answers, are left out, and so is the       *)
(* statistics on the screen.                                               *)
(***************************************************************************)
EXTENDS ClientSide

CONSTANT MaxChats   \* bound: chat messages to be received in a round

VARIABLES
    trustMode,
    g_GlobalState,
    waitThreadCount,
    oldState,       \* oldState[t]: the state it has seen last
    threadEnd,      \* threadEnd[t]: it is through with it
    storing,        \* thread 0 has found them all through
    conn,           \* conn[s]: "none", "session", "connected", "active"
    isMoving, isReadyForChat, moveStopRecv, chatSent,
    messageCount,   \* messageCount[s][text]
    moveStopCnt, chatPlayerCnt, chatCompleteCnt

states == <<trustMode, g_GlobalState, waitThreadCount, oldState, threadEnd, storing>>
flags == <<isMoving, isReadyForChat, moveStopRecv, chatSent>>
counts == <<messageCount, moveStopCnt, chatPlayerCnt, chatCompleteCnt>>
chatVars == <<states, conn, flags, counts, sector, inq, outq, at>>

No == [s \in Session |-> FALSE]

ChatInit ==
    /\ ClientsInit
    /\ trustMode \in {0, 1}
    /\ g_GlobalState = "MOVING" /\ waitThreadCount = 0
    /\ oldState = [t \in Threads |-> "MOVING"]
    /\ threadEnd = [t \in Threads |-> FALSE]
    /\ storing = FALSE
    /\ conn = [s \in Session |-> "none"]
    /\ isMoving = No /\ isReadyForChat = No /\ moveStopRecv = No /\ chatSent = No
    /\ messageCount = [s \in Session |-> [text \in Text |-> 0]]
    /\ moveStopCnt = 0 /\ chatPlayerCnt = 0 /\ chatCompleteCnt = 0

Active(S) == {s \in S : conn[s] = "active"}
Total(f) == LET Sum[T \in SUBSET Text] ==
                  IF T = {} THEN 0
                  ELSE LET text == CHOOSE text \in T : TRUE IN f[text] + Sum[T \ {text}]
            IN  Sum[Text]

-----------------------------------------------------------------------------
(* ProcessNetwork: connections that are made, and netProc_Recv *)

Connects(s) ==
    /\ conn[s] = "session" /\ ServerAccepts(s)
    /\ conn' = [conn EXCEPT ![s] = "connected"]
    /\ UNCHANGED <<states, flags, counts>>

Answers(s) == ServerAnswers(s) /\ UNCHANGED <<states, conn, flags, counts>>

Received(s, type) ==
    /\ conn[s] \in {"connected", "active"}
    /\ inq[s] # <<>> /\ Head(inq[s]).type = type
    /\ inq' = [inq EXCEPT ![s] = Tail(@)]
    /\ UNCHANGED <<states, outq, at, isMoving, isReadyForChat, messageCount, chatCompleteCnt>>

Packet_CreateCharacter(s) ==
    /\ Received(s, "CreateCharacter")
    /\ conn' = [conn EXCEPT ![s] = "active"]
    /\ sector' = [sector EXCEPT ![s] = Head(inq[s]).sector]
    /\ UNCHANGED <<moveStopRecv, chatSent, moveStopCnt, chatPlayerCnt>>

(* All that looked at the message is commented out.                        *)
Packet_LocalChat(s) ==
    /\ Received(s, "LocalChat")
    /\ UNCHANGED <<conn, sector, moveStopRecv, chatSent, moveStopCnt, chatPlayerCnt>>

Packet_MoveStopOk(s) ==
    /\ Received(s, "MoveStopComplete")
    /\ moveStopRecv' = [moveStopRecv EXCEPT ![s] = FALSE]
    /\ moveStopCnt' = moveStopCnt - 1
    /\ UNCHANGED <<conn, sector, chatSent, chatPlayerCnt>>

Packet_ChatComplete(s) ==
    /\ Received(s, "ChatComplete")
    /\ chatPlayerCnt' = chatPlayerCnt - 1
    /\ chatSent' = [chatSent EXCEPT ![s] = FALSE]
    /\ UNCHANGED <<conn, sector, moveStopRecv, moveStopCnt>>

Receive(s) ==
    \/ Packet_CreateCharacter(s) \/ Packet_LocalChat(s)
    \/ Packet_MoveStopOk(s) \/ Packet_ChatComplete(s)

-----------------------------------------------------------------------------
(* Both kinds of threads *)

(* connectSession does not wait.                                           *)
Connect(s) ==
    /\ conn[s] = "none"
    /\ trustMode = 0 => oldState[ThreadOf(s)] = "MOVING" /\ ~threadEnd[ThreadOf(s)]
    /\ conn' = [conn EXCEPT ![s] = "session"]
    /\ UNCHANGED <<states, flags, counts, sector, inq, outq, at>>

(* What the session has had counted is taken back.                         *)
CloseSession_KeepsMoveStop(s) ==
    /\ Closed({s})
    /\ conn' = [conn EXCEPT ![s] = "none"]
    /\ isReadyForChat' = [isReadyForChat EXCEPT ![s] = FALSE]
    /\ isMoving' = [isMoving EXCEPT ![s] = FALSE]
    /\ chatSent' = [chatSent EXCEPT ![s] = FALSE]
    /\ chatPlayerCnt' = IF chatSent[s] THEN chatPlayerCnt - 1 ELSE chatPlayerCnt
    /\ messageCount' = [messageCount EXCEPT ![s] = [text \in Text |-> 0]]
    /\ chatCompleteCnt' = chatCompleteCnt - Total(messageCount[s])
    /\ moveStopRecv' = [moveStopRecv EXCEPT ![s] = FALSE]
    /\ UNCHANGED moveStopCnt

CloseSession(s) ==
    /\ Closed({s})
    /\ conn' = [conn EXCEPT ![s] = "none"]
    /\ isReadyForChat' = [isReadyForChat EXCEPT ![s] = FALSE]
    /\ isMoving' = [isMoving EXCEPT ![s] = FALSE]
    /\ chatSent' = [chatSent EXCEPT ![s] = FALSE]
    /\ chatPlayerCnt' = IF chatSent[s] THEN chatPlayerCnt - 1 ELSE chatPlayerCnt
    /\ messageCount' = [messageCount EXCEPT ![s] = [text \in Text |-> 0]]
    /\ chatCompleteCnt' = chatCompleteCnt - Total(messageCount[s])
    /\ moveStopRecv' = [moveStopRecv EXCEPT ![s] = FALSE]
    /\ moveStopCnt' = IF moveStopRecv[s] THEN moveStopCnt - 1 ELSE moveStopCnt

Room(s, n) == Len(outq[s]) + n <= MaxOnWay
OnlyMoves == UNCHANGED <<states, conn, counts, isReadyForChat, moveStopRecv, chatSent, inq, at>>

-----------------------------------------------------------------------------
(* ClientThread1.  g_GlobalState is read at the top of each frame.          *)

SeeState(t) ==
    /\ trustMode = 0 /\ oldState[t] # g_GlobalState
    /\ oldState' = [oldState EXCEPT ![t] = g_GlobalState]
    /\ threadEnd' = [threadEnd EXCEPT ![t] = FALSE]
    /\ UNCHANGED <<trustMode, g_GlobalState, waitThreadCount, storing, conn, flags,
                   counts, sector, inq, outq, at>>

In(t, state) == trustMode = 0 /\ oldState[t] = state /\ ~threadEnd[t]

EndOfThread_Uncounted(t) ==
    /\ threadEnd' = [threadEnd EXCEPT ![t] = TRUE]
    /\ UNCHANGED <<trustMode, g_GlobalState, waitThreadCount, oldState, storing>>

EndOfThread(t) ==
    /\ threadEnd' = [threadEnd EXCEPT ![t] = TRUE]
    /\ waitThreadCount' = waitThreadCount + 1
    /\ UNCHANGED <<trustMode, g_GlobalState, oldState, storing>>

(* UpdateContent: each character starts to move, or moves on, and may go.    *)
UpdateContent(s) ==
    /\ In(ThreadOf(s), "MOVING") /\ conn[s] = "active"
    /\ \/ CloseSession(s) /\ UNCHANGED states
       \/ /\ Room(s, 1)
          /\ isMoving' = [isMoving EXCEPT ![s] = TRUE]
          /\ IF isMoving[s] THEN UNCHANGED outq
             ELSE Sent({s}, LAMBDA r : <<Placed("MoveStart", sector[r])>>)
          /\ \E p \in Around(sector[s]) : sector' = [sector EXCEPT ![s] = p]
          /\ OnlyMoves

EndMoving(t) ==
    LET S == {s \in Active(Mine(t)) : isMoving[s]} IN
    /\ In(t, "MOVING") /\ \A s \in S : Room(s, 1)
    /\ Sent(S, LAMBDA s : <<Placed("MoveStop", sector[s])>>)
    /\ isMoving' = [s \in Session |-> isMoving[s] /\ s \notin S]
    /\ moveStopRecv' = [s \in Session |-> moveStopRecv[s] \/ s \in S]
    /\ moveStopCnt' = moveStopCnt + Cardinality(S)
    /\ EndOfThread(t)
    /\ UNCHANGED <<conn, isReadyForChat, chatSent, messageCount, chatPlayerCnt,
                   chatCompleteCnt, sector, inq, at>>

(* moveStopError counts who is still waiting.                              *)
AllStopped(t) ==
    /\ In(t, "WAIT_STOP") /\ moveStopCnt = 0
    /\ isReadyForChat' = [s \in Session |-> isReadyForChat[s] \/ s \in Active(Mine(t))]
    /\ EndOfThread(t)
    /\ UNCHANGED <<conn, isMoving, moveStopRecv, chatSent, counts, sector, inq, outq, at>>

(* UpdateChat: what is said is counted for everybody around who is ready.    *)
UpdateChat(s) ==
    LET to == {r \in Active(Session) \ {s} : isReadyForChat[r]
                                             /\ sector[r] \in Around(sector[s])}
    IN  /\ In(ThreadOf(s), "CHATTING") /\ conn[s] = "active" /\ isReadyForChat[s]
        /\ Room(s, 2) /\ chatCompleteCnt + Cardinality(to) <= MaxChats
        /\ \E text \in Text :
              /\ messageCount' = [r \in Session |-> IF r \in to
                                    THEN [messageCount[r] EXCEPT ![text] = @ + 1]
                                    ELSE messageCount[r]]
              /\ Sent({s}, LAMBDA r : <<Saying("LocalChat", text)>>)
        /\ chatCompleteCnt' = chatCompleteCnt + Cardinality(to)
        /\ chatSent' = [chatSent EXCEPT ![s] = TRUE]
        /\ chatPlayerCnt' = IF chatSent[s] THEN chatPlayerCnt ELSE chatPlayerCnt + 1
        /\ UNCHANGED <<states, conn, isMoving, isReadyForChat, moveStopRecv, moveStopCnt,
                       sector, inq, at>>

EndChatting(t) ==
    LET S == {s \in Active(Mine(t)) : chatSent[s]} IN
    /\ In(t, "CHATTING") /\ \A s \in S : Room(s, 1)
    /\ Sent(S, LAMBDA s : <<Msg("ChatEnd")>>)
    /\ EndOfThread(t)
    /\ UNCHANGED <<conn, flags, counts, sector, inq, at>>

AllHeard(t) ==
    /\ In(t, "WAIT_CHAT") /\ chatCompleteCnt = 0 /\ chatPlayerCnt = 0
    /\ LET Without(flag) == [s \in Session |-> flag[s] /\ s \notin Mine(t)]
       IN  /\ chatSent' = Without(chatSent)
           /\ moveStopRecv' = Without(moveStopRecv)
           /\ isReadyForChat' = Without(isReadyForChat)
    /\ EndOfThread(t)
    /\ UNCHANGED <<conn, isMoving, counts, sector, inq, outq, at>>

(* Thread 0: the InterlockedCompareExchange, and then the store.            *)
After == [MOVING |-> "WAIT_STOP", WAIT_STOP |-> "CHATTING", CHATTING |-> "WAIT_CHAT",
          WAIT_CHAT |-> "MOVING"]

AllThrough ==
    /\ threadEnd[1] /\ oldState[1] = g_GlobalState /\ waitThreadCount = threadCount
    /\ g_GlobalState = "WAIT_CHAT" => chatCompleteCnt = 0 /\ chatPlayerCnt = 0

GoOn_StoreFirst ==
    /\ storing' = ~storing
    /\ IF storing THEN waitThreadCount' = 0 /\ UNCHANGED g_GlobalState
       ELSE AllThrough /\ g_GlobalState' = After[g_GlobalState] /\ UNCHANGED waitThreadCount
    /\ UNCHANGED <<trustMode, oldState, threadEnd, conn, flags, counts, sector, inq, outq, at>>

GoOn ==
    /\ storing' = ~storing
    /\ IF storing THEN g_GlobalState' = After[g_GlobalState] /\ UNCHANGED waitThreadCount
       ELSE AllThrough /\ waitThreadCount' = 0 /\ UNCHANGED g_GlobalState
    /\ UNCHANGED <<trustMode, oldState, threadEnd, conn, flags, counts, sector, inq, outq, at>>

ThreadStep(t) ==
    \/ SeeState(t) \/ EndMoving(t) \/ AllStopped(t) \/ EndChatting(t) \/ AllHeard(t)
    \/ t = 1 /\ GoOn

-----------------------------------------------------------------------------
(* ClientThread2: UpdateContentAndChat, one session.  Where it is matters to  *)
(* nothing here, and does not change.                                      *)

Freely(s) == trustMode # 0 /\ conn[s] = "active" /\ UNCHANGED states

MoveStart(s) ==
    /\ Freely(s) /\ ~isMoving[s] /\ ~moveStopRecv[s] /\ Room(s, 1)
    /\ isMoving' = [isMoving EXCEPT ![s] = TRUE]
    /\ Sent({s}, LAMBDA r : <<Placed("MoveStart", sector[r])>>)
    /\ UNCHANGED sector /\ OnlyMoves

MoveStop(s) ==
    /\ Freely(s) /\ isMoving[s] /\ Room(s, 1)
    /\ Sent({s}, LAMBDA r : <<Placed("MoveStop", sector[r])>>)
    /\ isMoving' = [isMoving EXCEPT ![s] = FALSE]
    /\ moveStopRecv' = [moveStopRecv EXCEPT ![s] = TRUE]
    /\ moveStopCnt' = moveStopCnt + 1
    /\ UNCHANGED <<conn, isReadyForChat, chatSent, messageCount, chatPlayerCnt,
                   chatCompleteCnt, sector, inq, at>>

Chat(s) ==
    /\ Freely(s) /\ ~chatSent[s] /\ Room(s, 2)
    /\ \E text \in Text : Sent({s}, LAMBDA r : <<Saying("LocalChat", text), Msg("ChatEnd")>>)
    /\ chatSent' = [chatSent EXCEPT ![s] = TRUE]
    /\ chatPlayerCnt' = chatPlayerCnt + 1
    /\ UNCHANGED <<conn, isMoving, isReadyForChat, moveStopRecv, messageCount, moveStopCnt,
                   chatCompleteCnt, sector, inq, at>>

FreeStep(s) ==
    \/ MoveStart(s) \/ MoveStop(s) \/ Chat(s)
    \/ Freely(s) /\ CloseSession(s)

ChatNext ==
    \/ \E s \in Session :
          \/ Connect(s) \/ Connects(s) \/ Answers(s) \/ Receive(s)
          \/ UpdateContent(s) \/ UpdateChat(s) \/ FreeStep(s)
    \/ \E t \in Threads : ThreadStep(t)

-----------------------------------------------------------------------------
ChatTypeOK ==
    /\ waitThreadCount \in 0 .. threadCount
    /\ sector \in [Session -> 0 .. MAX_SECTOR]
    /\ {moveStopCnt, chatPlayerCnt, chatCompleteCnt} \subseteq Nat
    /\ \A s \in Session : Len(inq[s]) <= MaxOnWay /\ Len(outq[s]) <= MaxOnWay

(* The counters the threads wait for are sums over the sessions, also when   *)
(* sessions close in between, and a session that waits has one answer coming. *)
CountsAgree ==
    /\ moveStopCnt = Cardinality({s \in Session : moveStopRecv[s]})
    /\ chatPlayerCnt = Cardinality({s \in Session : chatSent[s]})
    /\ \A s \in Session :
          On(outq[s], "MoveStop") + On(inq[s], "MoveStopComplete")
            = IF moveStopRecv[s] THEN 1 ELSE 0

(* No thread is ahead of another: one that has not seen the state is through *)
(* with the one before, and thread 0 goes on when all are counted.         *)
InStep ==
    LET through == {t \in Threads : threadEnd[t] /\ oldState[t] = g_GlobalState}
    IN  /\ \A t \in Threads : oldState[t] # g_GlobalState =>
              threadEnd[t] /\ After[oldState[t]] = g_GlobalState
        /\ IF storing THEN through = Threads /\ waitThreadCount = 0
           ELSE waitThreadCount = Cardinality(through)

(* The states come again and again, unless somebody was around to hear what  *)
(* was said: what is counted for him is taken back by nobody.              *)
StatesGoOn ==
    trustMode = 0 => \/ \A state \in DOMAIN After : []<>(g_GlobalState = state)
                     \/ <>[](g_GlobalState = "WAIT_CHAT" /\ chatCompleteCnt > 0)

=============================================================================
