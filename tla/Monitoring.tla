----------------------------- MODULE Monitoring -----------------------------
(***************************************************************************)
(* MonitoringServer: servers log in and report values, tools log in and are  *)
(* sent what is reported, and every half hour the averages go to the         *)
(* database.  One worker handles everything ("a completely single-threaded   *)
(* design", MonitoringServer.cpp): a message is one step.                   *)
(*                                                                         *)
(* Nothing stops a peer from logging in again, as the same or as the other    *)
(* kind: its ID is then in a list twice, or in both.  DeleteAgent takes every *)
(* copy out of the list of the kind it is now, so that the ID of one that     *)
(* changed its kind stays in the other list.  prevTime and dbSavetime only    *)
(* say when: it may be any time.  The database is external.                *)
(***************************************************************************)
EXTENDS ServerSessions, Integers

CONSTANTS
    DataType,
    Value,      \* bound: values that are reported
    MaxReports, \* bound: reports
    MaxListed   \* bound: entries of the two lists

VARIABLES
    agent,      \* AgentArr
    clientList, serverList, \* the IDs in them
    average,    \* average[s][d]: datatypeAverage_Map, {} or one entry
    reports,    \* reports so far
    told,       \* the sessions the latest report was sent to
    row,        \* the rows last written to the database
    changed     \* history: the IDs that have logged in as both kinds

monitorVars == <<agent, clientList, serverList, average, reports, told, row, changed>>

NoAgent == [Type |-> "IDLE", sessionID |-> 0]

MonitorInit ==
    /\ agent = [s \in Slot |-> NoAgent]
    /\ clientList = <<>> /\ serverList = <<>>
    /\ average = [s \in Slot |-> [d \in DataType |-> {}]]
    /\ reports = 0 /\ told = {} /\ row = {} /\ changed = {}

(* A session ID has the index of its slot in it.                            *)
ID(s) == <<s, slot[s].id>>
GetIndex(id) == id[1]

Ids(list) == {list[i] : i \in DOMAIN list}

-----------------------------------------------------------------------------
Accept(s) == Opened(s, "client") /\ UNCHANGED monitorVars

PeerLeaves(s) == Leaves(s) /\ UNCHANGED monitorVars

(* DeleteAgent.  Clear leaves the averages as they are.                    *)
DeleteAgent_ClearFirst(s) ==
    /\ agent' = [agent EXCEPT ![s].Type = "IDLE"]
    /\ UNCHANGED <<clientList, serverList>>

(* list::remove *)
Without(list, id) ==
    LET kept[i \in 0 .. Len(list)] ==
            IF i = 0 THEN <<>>
            ELSE IF list[i] = id THEN kept[i - 1] ELSE Append(kept[i - 1], list[i])
    IN  kept[Len(list)]

DeleteAgent(s) ==
    LET Others(list) == Without(list, ID(s))
    IN  /\ agent' = [agent EXCEPT ![s].Type = "IDLE"]
        /\ clientList' = IF agent[s].Type = "Client" THEN Others(clientList) ELSE clientList
        /\ serverList' = IF agent[s].Type = "Server" THEN Others(serverList) ELSE serverList

OnDisConnect(s) ==
    /\ Disconnected(s)
    /\ DeleteAgent(s)
    /\ UNCHANGED <<average, reports, told, row, changed>>

Free(s) == Freed(s) /\ UNCHANGED monitorVars

-----------------------------------------------------------------------------
LogsIn(s, type) ==
    /\ Here(s) /\ Len(clientList) + Len(serverList) < MaxListed
    /\ agent' = [agent EXCEPT ![s] = [Type |-> type, sessionID |-> slot[s].id]]
    /\ changed' = IF agent[s].Type \in {"IDLE", type} THEN changed
                  ELSE changed \cup {ID(s)}
    /\ UNCHANGED <<sessionVars, average, reports, told, row>>

(* HandleServerLoginMsg *)
ServerLogin(s) ==
    /\ LogsIn(s, "Server")
    /\ serverList' = Append(serverList, ID(s))
    /\ UNCHANGED clientList

(* HandeClientLoginMsg, with the right token ...                           *)
ClientLogin(s) ==
    /\ LogsIn(s, "Client")
    /\ clientList' = Append(clientList, ID(s))
    /\ UNCHANGED serverList

(* ... or a wrong one, or a message nobody knows, or a bad report.         *)
BadMessage(s) ==
    /\ Here(s)
    /\ slot' = Aborted(s, slot[s].id)
    /\ UNCHANGED <<lastId, monitorVars>>

(* An entry with another value: the average of whole numbers is rounded down *)
(* each time.                                                              *)
Averaged_ByTheOldCount(e, v) ==
    [max |-> IF e.max < v THEN v ELSE e.max,
     min |-> IF e.max >= v /\ e.min > v THEN v ELSE e.min,
     count |-> e.count + 1,
     average |-> (e.count * e.average + v) \div (IF e.count = 0 THEN 1 ELSE e.count)]

Averaged(e, v) ==
    [max |-> IF e.max < v THEN v ELSE e.max,
     min |-> IF e.max >= v /\ e.min > v THEN v ELSE e.min,
     count |-> e.count + 1,
     average |-> (e.count * e.average + v) \div (e.count + 1)]

First(v) == [max |-> v, min |-> v, count |-> 1, average |-> v]
Saved(e) == [max |-> 0, min |-> 0, count |-> 0, average |-> 0]

Updated(s, d, v) ==
    [average EXCEPT ![s][d] = IF average[s][d] = {} THEN {First(v)}
                               ELSE {Averaged(e, v) : e \in average[s][d]}]

(* DBSaveData: a row for each entry of the agent at the index of each ID in   *)
(* the server list; the entry starts anew, and a second ID of that index      *)
(* gives a row of zeros.                                                   *)
At(s) == {i \in DOMAIN serverList : GetIndex(serverList[i]) = s}
Walked == {s \in Slot : At(s) # {}}
WalkedAgain == {s \in Slot : \E i, j \in At(s) : i # j}

SaveData(now) ==
    /\ average' = [s \in Slot |-> [d \in DataType |->
                     IF s \in Walked THEN {Saved(e) : e \in now[s][d]} ELSE now[s][d]]]
    /\ row' = (UNION {now[s][d] : s \in Walked, d \in DataType})
                \cup (UNION {{Saved(e) : e \in now[s][d]} : s \in WalkedAgain, d \in DataType})

(* HandleDataUpdateMsg: whoever sends it.  SendAllClient goes through the    *)
(* list.                                                                   *)
HandleDataUpdateMsg(s, d, v) ==
    /\ Here(s) /\ reports < MaxReports
    /\ reports' = reports + 1
    /\ told' = Ids(clientList)
    /\ \/ average' = Updated(s, d, v) /\ UNCHANGED row
       \/ SaveData(Updated(s, d, v))
    /\ UNCHANGED <<sessionVars, agent, clientList, serverList, changed>>

MonitorNext ==
    \E s \in Slot :
        \/ Accept(s) \/ PeerLeaves(s) \/ OnDisConnect(s) \/ Free(s)
        \/ ServerLogin(s) \/ ClientLogin(s) \/ BadMessage(s)
        \/ \E d \in DataType, v \in Value : HandleDataUpdateMsg(s, d, v)

-----------------------------------------------------------------------------
MonitorTypeOK ==
    /\ agent \in [Slot -> [Type : {"IDLE", "Server", "Client"}, sessionID : 0 .. MaxIds]]
    /\ Ids(clientList) \cup Ids(serverList) \cup told \cup changed \subseteq
         Slot \X (1 .. MaxIds)

(* An agent that is here is in the list of its kind.  A list has nobody else,  *)
(* however often they logged in, but those that have changed their kind: no   *)
(* report is sent, and no row written, for another session that is gone.    *)
AgentsAgree ==
    LET Of(type) == {ID(s) : s \in {r \in Slot : Here(r) /\ agent[r].Type = type}}
        Lists(list, type) == /\ Of(type) \subseteq Ids(list)
                             /\ Ids(list) \subseteq Of(type) \cup changed
    IN  /\ Lists(clientList, "Client") /\ Lists(serverList, "Server")
        /\ \A s \in Slot :
              IF Here(s) /\ agent[s].Type # "IDLE" THEN agent[s].sessionID = slot[s].id
              ELSE agent[s].Type = "IDLE"

(* What is saved is sane: the average lies between the extremes, although it *)
(* is rounded down at each step and entries start again from zero.         *)
AveragesBounded ==
    \A e \in row \cup UNION {average[s][d] : s \in Slot, d \in DataType} :
        e.min <= e.average /\ e.average <= e.max

=============================================================================
