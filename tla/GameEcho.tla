------------------------------ MODULE GameEcho ------------------------------
(***************************************************************************)
(* GameEchoServer: the two Works a session goes through.  _OnAccept puts it *)
(* into Auth; the login message moves it to Game, whose answer lets the     *)
(* client play; every other message in the wrong place disconnects it.      *)
(*                                                                         *)
(* The move is the hard part: Auth has Game queue a create job first, and   *)
(* leaves the session only afterwards, so that for a while both works have  *)
(* the session, each with a count of its own; and a thread that aborts the  *)
(* session at any point of this leaves its delete job with one of them.     *)
(* Clients send what they like and leave when they like.                   *)
(***************************************************************************)
EXTENDS Work

CONSTANTS
    Auth,       \* CAuthThreadWork
    Game,       \* CGameThreadWork
    Asked,      \* what the clients send, of Message
    MaxAsked    \* bound: requests of all clients

(* What a client can send, as the works tell it apart: the login request,   *)
(* an echo request, one of the wrong size, a heartbeat, anything else.      *)
Message == {"login", "echo", "misfit", "heartbeat", "other"}

ASSUME GameEchoAssumption ==
    /\ WorkThread = {Auth, Game} /\ Auth # Game /\ NoWork \notin WorkThread
    /\ Worker \cap WorkThread = {} /\ Slot0 \in Slot
    /\ Asked \subseteq Message
    /\ MaxSessions \in Nat /\ MaxAsked \in Nat

VARIABLES
    players,    \* players[w]: playerList
    count,      \* count[w]: workPlayerCount
    asked       \* requests sent so far

vars == <<workVars, players, count, asked>>

Init ==
    /\ WorkInit
    /\ players = [w \in WorkThread |-> <<>>]
    /\ count = [w \in WorkThread |-> 0]
    /\ asked = 0

-----------------------------------------------------------------------------
(* The clients. *)
OnAccept(s) ==
    /\ Accept(s, Auth)
    /\ UNCHANGED <<players, count, asked>>

Ask(s) ==
    /\ asked < MaxAsked
    /\ asked' = asked + 1
    /\ \E m \in Asked : Receive(s, m, "asking")
    /\ UNCHANGED <<players, count>>

ClientLeaves(s) ==
    /\ sess[s].peer \in {"connected", "playing", "asking"}
    /\ Hangup(s)
    /\ UNCHANGED <<players, count, asked>>

-----------------------------------------------------------------------------
(* HandleThreadJob *)

(* SendPacket: only to the session the caller means. *)
Sent(s, id) ==
    IF sess[s].id = id /\ ~sess[s].released
    THEN [sess EXCEPT ![s].unsent = @ + 1]
    ELSE sess

(* HandleCreateSessionMsg and OnCreateSession; Game answers the login.     *)
HandleCreateSessionMsg(w) ==
    LET job == Head(threadQ[w])
    IN  /\ NextJob(w, "create")
        /\ list' = [list EXCEPT ![w] = Append(@, job.slot)]
        /\ players' = [players EXCEPT ![w] = Append(@, job.slot)]
        /\ count' = [count EXCEPT ![w] = @ + 1]
        /\ sess' = IF w = Game THEN Sent(job.slot, job.id) ELSE sess
        /\ UNCHANGED <<nextID, jobQ, rest, thread, tangled, asked>>

Break(w) == thread' = [thread EXCEPT ![w].pc = "break"]

Deleted_PlayerStays(w, s) ==
    /\ Remove(w, s)
    /\ count' = [count EXCEPT ![w] = @ - 1]
    /\ UNCHANGED players

(* HandleDeleteSessionMsg and OnDeleteSession.  A session that is not in    *)
(* the list loses a count, and the work a player, all the same.            *)
Deleted(w, s) ==
    /\ Remove(w, s)
    /\ players' = [players EXCEPT ![w] = Without(@, s)]
    /\ count' = [count EXCEPT ![w] = @ - 1]

HandleDeleteSessionMsg(w) ==
    LET s == Head(threadQ[w]).slot
    IN  /\ NextJob(w, "delete")
        /\ IF Twice(w, s)
           THEN Break(w) /\ UNCHANGED <<sess, list, players, count>>
           ELSE Deleted(w, s) /\ UNCHANGED thread
        /\ UNCHANGED <<nextID, jobQ, rest, tangled, asked>>

-----------------------------------------------------------------------------
(* HandleMessage *)

(* CAuthThreadWork::HandleLoginMessage: Game's CreateSession begins, if the *)
(* ID is still the one ...                                                 *)
Moved(s, n) ==
    /\ thread' = [thread EXCEPT ![Auth] =
                    [@ EXCEPT !.pc = IF sess[n].id = sess[s].id THEN "own" ELSE "remove",
                              !.slot = n, !.id = sess[s].id]]
    /\ tangled' = [tangled EXCEPT ![n] =
                     @ \/ sess[n].marked \/ n \notin Elements(list[Auth]) \/ n # s]

HandleLoginMessage_NotPinned ==
    LET s == Head(rest[Auth])
    IN  /\ TakePacket(Auth, "login")
        /\ Moved(s, Named(s))
        /\ UNCHANGED <<sess, nextID, works, players, count, asked>>

HandleLoginMessage ==
    LET s == Head(rest[Auth])
    IN  /\ TakePacket(Auth, "login")
        /\ sess' = Pinned(Named(s), sess[s].id)
        /\ Moved(s, Named(s))
        /\ UNCHANGED <<nextID, works, players, count, asked>>

MoveOwn == Own(Auth, Game) /\ UNCHANGED <<players, count, asked>>

MoveEnqueue == EnqueueCreate(Auth, Game) /\ UNCHANGED <<players, count, asked>>

(* ... and Auth leaves the session, without a job of its own.              *)
MoveLeave ==
    LET s == thread[Auth].slot
    IN  /\ thread[Auth].pc = "remove"
        /\ IF Twice(Auth, s)
           THEN Break(Auth) /\ UNCHANGED <<sess, list, players, count>>
           ELSE /\ Deleted(Auth, s)
                /\ thread' = [thread EXCEPT ![Auth].pc = "scan"]
        /\ UNCHANGED <<nextID, jobQ, threadQ, rest, tangled, asked>>

(* CGameThreadWork::HandleReqEchoMessage *)
HandleReqEchoMessage_Silent ==
    /\ TakePacket(Game, "echo")
    /\ UNCHANGED <<sess, nextID, works, thread, tangled, players, count, asked>>

HandleReqEchoMessage ==
    LET s == Head(rest[Game])
    IN  /\ TakePacket(Game, "echo")
        /\ sess' = Sent(s, sess[s].id)
        /\ UNCHANGED <<nextID, works, thread, tangled, players, count, asked>>

(* A heartbeat, and an echo request of the wrong size: __debugbreak.       *)
HandleBreakingMessage(w) ==
    /\ \E m \in IF w = Auth THEN {"heartbeat"} ELSE {"heartbeat", "misfit"} : TakePacket(w, m)
    /\ Break(w)
    /\ UNCHANGED <<sess, nextID, works, tangled, players, count, asked>>

(* A message of another type, or too short: DisconnectSession, which finds  *)
(* nothing to abort when the session is closed.                            *)
HandleOtherMessage(w) ==
    LET s == Head(rest[w])
    IN  /\ \E m \in IF w = Auth THEN {"echo", "misfit", "other"} ELSE {"login", "other"} :
              TakePacket(w, m)
        /\ IF sess[s].released THEN UNCHANGED <<sess, thread, tangled>>
           ELSE Aborting(w, s, sess[s])
        /\ UNCHANGED <<nextID, works, players, count, asked>>

-----------------------------------------------------------------------------
(* The steps of the library. *)
WorkLoop(w) ==
    /\ StartScan(w) \/ NextSession(w)
    /\ UNCHANGED <<players, count, asked>>

Abort(t) ==
    /\ Notify(t)
    /\ UNCHANGED <<players, count, asked>>

Completion(s) ==
    /\ \/ SendCompletes(s)
       \/ \E t \in Worker : TakeLate(t, s) \/ (\E op \in {"recv", "send"} : TakeFailed(t, s, op))
    /\ UNCHANGED <<players, count, asked>>

SendThread(s) == Flush(s) /\ UNCHANGED <<players, count, asked>>

WorkStep(w) ==
    \/ WorkLoop(w) \/ HandleCreateSessionMsg(w) \/ HandleDeleteSessionMsg(w)
    \/ HandleBreakingMessage(w) \/ HandleOtherMessage(w)
    \/ w = Game /\ HandleReqEchoMessage
    \/ w = Auth /\ (HandleLoginMessage \/ MoveOwn \/ MoveEnqueue \/ MoveLeave)

Next ==
    /\ Running
    /\ \/ \E s \in Slot : OnAccept(s) \/ Ask(s) \/ ClientLeaves(s)
       \/ \E s \in Slot : Completion(s) \/ SendThread(s)
       \/ \E t \in Thread : Abort(t)
       \/ \E w \in WorkThread : WorkStep(w)

(* The work threads, the workers and the send thread keep running, and what *)
(* is posted completes; clients may stay silent.                           *)
Fairness ==
    /\ \A w \in WorkThread : WF_vars(Running /\ (WorkStep(w) \/ Abort(w)))
    /\ \A t \in Worker : WF_vars(Running /\ Abort(t))
    /\ WF_vars(Running /\ \E s \in Slot : Completion(s))
    /\ WF_vars(Running /\ \E s \in Slot : SendThread(s))

Spec == Init /\ [][Next]_vars /\ Fairness

-----------------------------------------------------------------------------
(* Every variable has its type, and a work stands on a session exactly when *)
(* it is in its loop over the list, or in a step of handling a packet.     *)
TypeOK ==
    /\ \A s \in Slot :
          /\ sess[s].id \in 0 .. MaxSessions /\ sess[s].io \in Int
          /\ {sess[s].released, sess[s].marked, sess[s].flag} \subseteq BOOLEAN
          /\ sess[s].work \in WorkThread \cup {NoWork}
          /\ {sess[s].recv, sess[s].send} \subseteq {"none", "pending", "failed"}
          /\ sess[s].late \in Nat /\ sess[s].unsent \in Nat
    /\ jobQ \in [Slot -> Seq(Message)]
    /\ list \in [WorkThread -> Seq(Slot)] /\ rest \in [WorkThread -> Seq(Slot)]
    /\ \A w \in WorkThread : rest[w] = <<>> => thread[w].pc \in {"jobs", "break"}
    /\ players \in [WorkThread -> Seq(Slot)]
    /\ count \in [WorkThread -> Int] /\ tangled \in [Slot -> BOOLEAN]
    /\ asked \in 0 .. MaxAsked

(* The assertion of DecrementSessionIoCount: no count goes below zero.      *)
NoDebugBreak == \A s \in Slot : sess[s].io >= 0

(* Who has a count on the session in slot s: each work that lists it or has *)
(* its create job queued, the thread that is about to queue one, the posted *)
(* operations, and the threads that abort it.                              *)
Holders(s) ==
    {<<"list", w>> : w \in {w \in WorkThread : s \in Elements(list[w])}}
    \cup (UNION {{<<"job", w, i>> : i \in {i \in DOMAIN threadQ[w] :
            threadQ[w][i].type = "create" /\ threadQ[w][i].slot = s}} :
                w \in WorkThread})
    \cup {<<"move", t>> : t \in {t \in WorkThread :
            thread[t].pc \in {"own", "enqueue"} /\ thread[t].slot = s}}
    \cup {<<"op", op>> : op \in Posted(sess[s])}
    \cup UNION {{<<"abort", t, n>> : n \in 1 .. Counted(t)} :
            t \in {t \in Thread :
                thread[t].pc = "notify" /\ thread[t].slot = s}}

(* Through moves, aborts at any moment and the reuse of slots, the works'   *)
(* share of a session's ioCount is exactly one for each work that serves it *)
(* or will, so that a session is closed when and only when the last of them *)
(* lets go: as long as no session of the slot was aborted a second time, or *)
(* aborted while it moved, moved while its delete job waited, or was moved  *)
(* when Auth did not have it.                                              *)
CountedByWorks ==
    \A s \in Slot : ~tangled[s] => sess[s].io = Cardinality(Holders(s))

(* Whatever the counts do, a player is in a work's playerList exactly as    *)
(* long as its session is in the work's list; and until the first slot is   *)
(* tangled workPlayerCount, which the monitor shows, is their number.       *)
PlayersAreSessions ==
    \A w \in WorkThread :
        /\ players[w] = list[w]
        /\ (\A s \in Slot : ~tangled[s]) => count[w] = Len(list[w])

(* Every request of a client that stays is answered, across the move from   *)
(* Auth to Game, or the client is disconnected.                            *)
Answered ==
    \A s \in Slot : sess[s].peer = "asking" ~>
                        sess[s].peer # "asking" \/ tangled[s] \/ ~Running


==============================================================================
