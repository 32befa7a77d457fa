----------------------------- MODULE ChatSingle -----------------------------
(***************************************************************************)
(* ChatSingleServer: the workers put what happens to the sessions, and what  *)
(* they receive, into one job queue; one thread of the contents empties it,  *)
(* then moves the players, and is the only one to touch players and sectors. *)
(*                                                                         *)
(* A message's payload is chosen when it is handled.  TimeOutCheck does       *)
(* nothing (its body is commented out), and nobody puts a player into the    *)
(* waiting queue.  deltaX is a short: a frame of more than 32 seconds makes  *)
(* it negative, which is left out.                                         *)
(***************************************************************************)
EXTENDS ServerSessions, Integers

CONSTANTS
    Right, Bottom,  \* dfRANGE_MOVE_RIGHT and _BOTTOM
    SECTOR_RATIO,
    SpeedX, SpeedY, \* dfSPEED_PLAYER_X and _Y
    Direction,      \* those that clients use
    StartX, StartY, \* bound: where players are created
    MaxFrames,      \* bound: frames of one Move
    MaxMessages     \* bound: messages of all clients

VARIABLES
    jobs,       \* g_ContentsJobQ
    player,     \* g_PlayerArr
    sector,     \* Sector[x][y]: how often a player is in the list
    playerCount,    \* g_playerCount
    loginCount,     \* g_PlayerLogInCount
    received,   \* messages received so far
    lost,       \* connections to the monitoring server lost so far
    heard       \* the chat message just sent: who said it, who gets it

contents == <<player, sector, loginCount>>
quiet == <<jobs, contents, playerCount, received, lost>>
singleVars == <<quiet, heard>>

-----------------------------------------------------------------------------
SectorX == 0 .. Right \div SECTOR_RATIO - 1
SectorY == 0 .. Bottom \div SECTOR_RATIO - 1

NoPlayer == [status |-> "DELETED", id |-> 0, x |-> 0, y |-> 0, dir |-> "LL", move |-> FALSE]
NoMessage == [from |-> 0, to |-> {}]

SingleInit ==
    /\ jobs = <<>>
    /\ player = [s \in Slot |-> NoPlayer]
    /\ sector = [p \in SectorX \X SectorY |-> [s \in Slot |-> 0]]
    /\ playerCount = 0 /\ loginCount = 0
    /\ received = 0 /\ lost = 0
    /\ heard = NoMessage

Job(type, s) == [type |-> type, slot |-> s, id |-> slot[s].id]

-----------------------------------------------------------------------------
(* Network.cpp, on the workers and the accept thread *)

OnAccept(s) ==
    /\ Opened(s, "client")
    /\ jobs' = Append(jobs, [type |-> "Create", slot |-> s, id |-> lastId'])
    /\ playerCount' = playerCount + 1
    /\ UNCHANGED <<contents, received, lost>>

(* RegistMonitor: once, when the server starts, which may accept already.    *)
RegistMonitor(s) ==
    /\ lost = 0 /\ \A r \in Slot : slot[r].kind # "server"
    /\ Opened(s, "server")
    /\ UNCHANGED quiet

OnMessage_AfterDisConnect(s, type) ==
    /\ slot[s].phase # "free" /\ received < MaxMessages
    /\ slot[s].kind = "client"
    /\ jobs' = Append(jobs, Job(type, s))
    /\ received' = received + 1
    /\ UNCHANGED <<sessionVars, contents, playerCount, lost>>

OnMessage(s, type) ==
    /\ Here(s) /\ received < MaxMessages
    /\ slot[s].kind = "client"
    /\ jobs' = Append(jobs, Job(type, s))
    /\ received' = received + 1
    /\ UNCHANGED <<sessionVars, contents, playerCount, lost>>

PeerLeaves(s) == Leaves(s) /\ UNCHANGED quiet

OnDisConnect(s) ==
    /\ Disconnected(s)
    /\ jobs' = Append(jobs, Job("Delete", s))
    /\ playerCount' = playerCount - 1
    /\ lost' = IF slot[s].kind = "server" THEN lost + 1 ELSE lost
    /\ UNCHANGED <<contents, received>>

Free(s) == Freed(s) /\ UNCHANGED quiet

-----------------------------------------------------------------------------
(* Sector.cpp *)

SectorOf(x, y) == <<x \div SECTOR_RATIO, y \div SECTOR_RATIO>>
Around(p) == {q \in SectorX \X SectorY :
                 {q[1] - p[1], q[2] - p[2]} \subseteq {-1, 0, 1}}

SyncSector_FromNew(s, old, new) ==
    IF old = new THEN sector
    ELSE [sector EXCEPT ![new][s] = 1]

SyncSector(s, old, new) ==
    IF old = new THEN sector
    ELSE [sector EXCEPT ![old][s] = 0, ![new][s] = @ + 1]

(* The player in slot s is at x, y now.                                    *)
Placed(s, x, y, dir, move) ==
    /\ player' = [player EXCEPT ![s] =
         [status |-> player[s].status, id |-> player[s].id, x |-> x, y |-> y,
          dir |-> dir, move |-> move]]
    /\ sector' = SyncSector(s, SectorOf(player[s].x, player[s].y), SectorOf(x, y))

-----------------------------------------------------------------------------
(* HandleContentJob *)

IsAlive(s) == player[s].status = "ALIVE"
Speaks(job) == player[job.slot].id = job.id /\ IsAlive(job.slot)

(* Player::Init: somewhere on the map, and the client is told.             *)
HandleCreatePlayer(job) ==
    /\ job.type = "Create"
    /\ \E x \in StartX, y \in StartY, dir \in {"LL", "RR"} \cap Direction :
          /\ player' = [player EXCEPT ![job.slot] =
               [status |-> "ALIVE", id |-> job.id, x |-> x, y |-> y, dir |-> dir,
                move |-> FALSE]]
          /\ sector' = [sector EXCEPT ![SectorOf(x, y)][job.slot] = @ + 1]
    /\ loginCount' = loginCount + 1
    /\ UNCHANGED slot

(* The monitor's session has no player: a "Duplicate delete".              *)
HandleDeletePlayer_Unchecked(job) ==
    /\ job.type = "Delete"
    /\ sector' = [sector EXCEPT ![SectorOf(player[job.slot].x,
                                           player[job.slot].y)][job.slot] = 0]
    /\ player' = [player EXCEPT ![job.slot].status = "DELETED"]
    /\ loginCount' = loginCount - 1
    /\ UNCHANGED slot

HandleDeletePlayer(job) ==
    /\ job.type = "Delete"
    /\ IF Speaks(job)
       THEN /\ sector' = [sector EXCEPT ![SectorOf(player[job.slot].x,
                                                player[job.slot].y)][job.slot] = 0]
            /\ player' = [player EXCEPT ![job.slot].status = "DELETED"]
            /\ loginCount' = loginCount - 1
       ELSE UNCHANGED <<player, sector, loginCount>>
    /\ UNCHANGED slot

HandleMove(job) ==
    /\ job.type \in {"MoveStart", "MoveStop"}
    /\ IF Speaks(job)
       THEN \E x \in 0 .. Right - 1, y \in 0 .. Bottom - 1, dir \in Direction :
               Placed(job.slot, x, y, dir, job.type = "MoveStart")
       ELSE UNCHANGED <<player, sector>>
    /\ UNCHANGED <<slot, loginCount>>

(* MsgSectorBroadCasting: to everybody around but the sender.              *)
HandleLocalChatMsg(job) ==
    /\ job.type = "LocalChat"
    /\ LET me == player[job.slot]
           near == {s \in Slot : \E p \in Around(SectorOf(me.x, me.y)) : sector[p][s] > 0}
           to == {s \in near : IsAlive(s) /\ player[s].id # me.id}
       IN  heard' = IF Speaks(job)
                    THEN [from |-> me.id, to |-> {s \in to : slot[s].id = player[s].id}]
                    ELSE NoMessage
    /\ UNCHANGED <<slot, player, sector, loginCount>>

(* A message that is too short, too long or of no known type.              *)
HandleBadMessage(job) ==
    /\ job.type = "Bad"
    /\ slot' = Aborted(job.slot, job.id)
    /\ UNCHANGED <<player, sector, loginCount>>

HandleContentJob ==
    /\ jobs # <<>>
    /\ jobs' = Tail(jobs)
    /\ LET job == Head(jobs)
       IN  \/ HandleLocalChatMsg(job)
           \/ /\ heard' = NoMessage
              /\ \/ HandleCreatePlayer(job)
                 \/ HandleDeletePlayer(job)
                 \/ HandleMove(job)
                 \/ HandleBadMessage(job)
    /\ UNCHANGED <<lastId, playerCount, received, lost>>

-----------------------------------------------------------------------------
(* UpdateContentsLogic *)

StepX == [LL |-> -1, LU |-> -1, UU |-> 0, RU |-> 1, RR |-> 1, RD |-> 1, DD |-> 0, LD |-> -1]
StepY == [LL |-> 0, LU |-> -1, UU |-> -1, RU |-> -1, RR |-> 0, RD |-> 1, DD |-> 1, LD |-> 1]

(* Player::Move: a step that would leave the map is not made.              *)
Moved_OverTheEdge(p, frames) ==
    LET x == p.x + StepX[p.dir] * frames * SpeedX
        y == p.y + StepY[p.dir] * frames * SpeedY
    IN  IF p.status = "ALIVE" /\ p.move /\ x \in 0 .. Right /\ y \in 0 .. Bottom
        THEN [p EXCEPT !.x = x, !.y = y]
        ELSE p

Moved(p, frames) ==
    LET x == p.x + StepX[p.dir] * frames * SpeedX
        y == p.y + StepY[p.dir] * frames * SpeedY
    IN  IF p.status = "ALIVE" /\ p.move /\ x \in 0 .. Right - 1 /\ y \in 0 .. Bottom - 1
        THEN [p EXCEPT !.x = x, !.y = y]
        ELSE p

(* Player by player, in the order of the slots.                            *)
UpdateContentsLogic(frames) ==
    /\ jobs = <<>>
    /\ player' = [s \in Slot |-> Moved(player[s], frames)]
    /\ LET Old(s) == SectorOf(player[s].x, player[s].y)
           New(s) == SectorOf(player'[s].x, player'[s].y)
           movers == {s \in Slot : Old(s) # New(s)}
       IN  sector' = [p \in DOMAIN sector |-> [s \in Slot |->
                          IF s \notin movers THEN sector[p][s]
                          ELSE IF New(s) = p THEN 1 ELSE 0]]
    /\ UNCHANGED <<sessionVars, jobs, loginCount, playerCount, received, lost>>

-----------------------------------------------------------------------------
Others ==
    \/ \E s \in Slot :
          \/ OnAccept(s) \/ RegistMonitor(s) \/ PeerLeaves(s) \/ OnDisConnect(s) \/ Free(s)
          \/ \E type \in {"MoveStart", "MoveStop", "LocalChat", "Bad"} : OnMessage(s, type)
    \/ \E frames \in 1 .. MaxFrames : UpdateContentsLogic(frames)

SingleNext == HandleContentJob \/ (Others /\ heard' = NoMessage)

-----------------------------------------------------------------------------
SingleTypeOK ==
    /\ \A s \in Slot : /\ player[s].id \in 0 .. MaxIds
                       /\ player[s].x \in 0 .. Right - 1 /\ player[s].y \in 0 .. Bottom - 1
    /\ received \in 0 .. MaxMessages

(* Every message of a session is handled between the creation and the        *)
(* deletion of its player.                                                 *)
JobsInOrder ==
    \A i \in 1 .. Len(jobs) :
        LET job == jobs[i]
            earlier == {jobs[j] : j \in 1 .. i - 1}
            Of(type) == [job EXCEPT !.type = type]
        IN  job.type \notin {"Create", "Delete"} =>
               /\ Of("Create") \in earlier \/ Speaks(job)
               /\ Of("Delete") \notin earlier

(* A player that is alive is once in the list of the sector it is in, and   *)
(* nobody else is in any.                                                  *)
InSector ==
    \A p \in DOMAIN sector, s \in Slot :
        sector[p][s] =
          IF IsAlive(s) /\ SectorOf(player[s].x, player[s].y) = p THEN 1 ELSE 0

(* A chat message goes to the sessions whose players are around.           *)
HeardAround ==
    \A s \in Slot :
        heard.from # 0 /\ player[s].id = heard.from =>
            heard.to = {r \in Slot \ {s} :
                /\ IsAlive(r) /\ player[r].id = slot[r].id
                /\ SectorOf(player[r].x, player[r].y)
                      \in Around(SectorOf(player[s].x, player[s].y))}

(* The counters: g_playerCount loses one for each connection to the         *)
(* monitoring server that is lost, g_PlayerLogInCount is right.            *)
Counted ==
    /\ playerCount + lost = Cardinality({s \in Slot : Here(s) /\ slot[s].kind = "client"})
    /\ loginCount = Cardinality({s \in Slot : IsAlive(s)})

(* Once the jobs are done, the players are the sessions.                   *)
PlayersAreSessions ==
    jobs = <<>> => \A s \in Slot :
        IsAlive(s) <=> (Here(s) /\ slot[s].kind = "client" /\ player[s].id = slot[s].id)

=============================================================================
