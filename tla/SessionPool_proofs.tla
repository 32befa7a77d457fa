-------------------------- MODULE SessionPool_proofs --------------------------
(***************************************************************************)
(* Proofs about SessionPool: for any number of slots, threads and session   *)
(* ids.                                                                     *)
(*                                                                         *)
(* The argument.  ioCount is at least the number of threads and operations *)
(* that count on the slot (Counted), so whoever wins the compare-and-swap   *)
(* at ioCount zero finds nobody there; after that the release flag keeps    *)
(* everybody out until the slot has a new session (Owned), whose ID no      *)
(* stale ID equals (Named, Clean).                                          *)
(***************************************************************************)
EXTENDS SessionPool, FiniteSetTheorems, TLAPS

InCall == {"pin", "flag", "id", "use"}
Accepts == {"init", "unlock", "setid", "onaccept", "firstrecv"}
Fresh == {"init", "unlock", "setid", "onaccept"}

(* Where a thread is fixes what it works on. *)
Shape ==
    /\ \A t \in Thread :
        /\ pc[t] \notin {"idle", "recvd"} => cur[t] \in Index
        /\ pc[t] = "recvd" => base[t] \in Index
        /\ pc[t] \in {"idle", "peek"} => base[t] = NoIndex
        /\ pc[t] = "peek" => op[t] = "flush"
        /\ pc[t] \in InCall => op[t] \in {"send", "abort", "flush"}
        /\ pc[t] \in InCall /\ op[t] # "flush" =>
            arg[t] \in Id /\ life[arg[t]] # "none"
        /\ pc[t] \in Accepts => t = Acceptor
    /\ base[Acceptor] = NoIndex
    /\ pc[Acceptor] \in Accepts \cup Owning \cup {"idle", "release", "close"}

(* ioCount covers everybody who counts on the slot. *)
Covered(i) ==
    io[i] >= Cardinality(Callers(i)) + Cardinality(Handlers(i))
             + Cardinality(posted[i])

Counted == \A i \in Index : Covered(i)

(* What is in use is open; what is not open has one owner. *)
Owned ==
    /\ \A t \in Thread :
        /\ pc[t] \in {"id", "use", "setid", "onaccept", "firstrecv"} =>
            flag[cur[t]] = 0
        /\ base[t] # NoIndex => flag[base[t]] = 0
        /\ pc[t] \in Owning => flag[cur[t]] = 1 /\ cur[t] \notin free
    /\ \A t, u \in Thread :
        pc[t] \in Owning /\ pc[u] \in Owning /\ cur[t] = cur[u] => t = u
    /\ \A i \in Index :
        /\ posted[i] # {} => flag[i] = 0
        /\ i \in free => flag[i] = 1
        /\ flag[i] = 1 /\ i \notin free =>
            \E t \in Thread : pc[t] \in Owning /\ cur[t] = i

(* Which session a slot holds. *)
Named ==
    /\ \A k \in Id :
        /\ life[k] # "none" => k < nextId /\ slot[k] \in Index
        /\ life[k] = "open" => sid[slot[k]] = k
    /\ \A i \in Index :
        flag[i] = 0 /\ ~(pc[Acceptor] \in {"setid", "onaccept"}
                         /\ cur[Acceptor] = i) =>
            sid[i] \in Id /\ life[sid[i]] = "open" /\ slot[sid[i]] = i
    /\ \A t \in Thread :
        pc[t] = "ondisconnect" =>
            /\ sid[cur[t]] \in Id
            /\ life[sid[cur[t]]] = "open"
            /\ slot[sid[cur[t]]] = cur[t]
    /\ \A t \in Thread :
        pc[t] = "clear" =>
            /\ sid[cur[t]] \in Id
            /\ life[sid[cur[t]]] = "gone"
    /\ \A t \in Thread :
        pc[t] = "use" /\ op[t] # "flush" => sid[cur[t]] = arg[t]
    /\ pc[Acceptor] \in Fresh =>
        /\ arg[Acceptor] \in Id
        /\ arg[Acceptor] < nextId
        /\ life[arg[Acceptor]] = "none"
        /\ slot[arg[Acceptor]] = cur[Acceptor]
    /\ pc[Acceptor] = "onaccept" => sid[cur[Acceptor]] = arg[Acceptor]

(* A slot without a session carries nothing over to the next one. *)
Empty(i) ==
    /\ sid[i] = Cleared
    /\ sendBuf[i] = {}
    /\ status[i] = "Active"

Clean ==
    /\ \A i \in free : Empty(i)
    /\ \A t \in Thread :
        pc[t] \in {"push", "init", "unlock", "setid"} => Empty(cur[t])
    /\ pc[Acceptor] \in Fresh =>
        /\ sendBuf[cur[Acceptor]] = {}
        /\ status[cur[Acceptor]] = "Active"
        /\ posted[cur[Acceptor]] = {}
        /\ \A t \in Thread : base[t] # cur[Acceptor]

IInv ==
    /\ TypeOK
    /\ Shape
    /\ Counted
    /\ Owned
    /\ Named
    /\ Clean
    /\ NoForeignPacket
    /\ NoForeignAbort
    /\ NoOrphan

-----------------------------------------------------------------------------
(* Types *)

(* A jump, a return and the posting of an operation keep the types.         *)
LEMMA GotoType ==
    ASSUME TypeOK, NEW t \in Thread, NEW place \in Place, Goto(t, place)
    PROVE  pc' \in [Thread -> Place]
  BY DEF TypeOK, Goto

LEMMA ReturnType ==
    ASSUME TypeOK, NEW t \in Thread, Return(t)
    PROVE  /\ pc' \in [Thread -> Place]
           /\ op' \in [Thread -> {"none", "send", "abort", "flush"}]
           /\ arg' \in [Thread -> Id \cup {Cleared}]
           /\ cur' \in [Thread -> Index \cup {NoIndex}]
  <1>1. Goto(t, "idle") \/ Goto(t, "recvd")
    BY DEF Return
  <1>2. {"idle", "recvd"} \subseteq Place
    BY DEF Place
  <1> QED
    BY <1>1, <1>2, GotoType DEF Return, TypeOK

LEMMA PostType ==
    ASSUME TypeOK, NEW i \in Index, NEW kind \in IoKind, Post(i, kind)
    PROVE  /\ io' \in [Index -> Nat]
           /\ posted' \in [Index -> SUBSET IoKind]
           /\ status' \in [Index -> {"Active", "MarkForDeletion"}]
           /\ asked' \subseteq Id \cup {Cleared}
  <1>1. io' \in [Index -> Nat]
    BY DEF TypeOK, Post
  <1>2. CASE posted' = [posted EXCEPT ![i] = @ \cup {kind}]
             /\ UNCHANGED <<status, asked>>
    BY <1>1, <1>2 DEF TypeOK
  <1>3. CASE status' = [status EXCEPT ![i] = "MarkForDeletion"]
             /\ asked' = asked \cup {sid[i]}
             /\ UNCHANGED posted
    BY <1>1, <1>3 DEF TypeOK
  <1> QED
    BY <1>2, <1>3 DEF Post

-----------------------------------------------------------------------------
(* Counting *)

(* Threads and kinds of operation are finitely many.                        *)
LEMMA ThreadsFinite == IsFiniteSet(Thread)
  BY SessionPoolAssumption, FS_AddElement DEF Thread

LEMMA KindsFinite == IsFiniteSet(IoKind)
  <1>1. IsFiniteSet({"recv"})
    BY FS_Singleton
  <1>2. IsFiniteSet({"recv"} \cup {"send"})
    BY <1>1, FS_AddElement
  <1>3. IoKind = {"recv"} \cup {"send"}
    BY DEF IoKind
  <1> QED
    BY <1>2, <1>3

(* The three groups that count on a slot are finite.                        *)
LEMMA GroupsFinite ==
    ASSUME TypeOK, NEW i \in Index
    PROVE  /\ IsFiniteSet(Callers(i)) /\ Cardinality(Callers(i)) \in Nat
           /\ IsFiniteSet(Handlers(i)) /\ Cardinality(Handlers(i)) \in Nat
           /\ IsFiniteSet(posted[i]) /\ Cardinality(posted[i]) \in Nat
  <1>1. Callers(i) \subseteq Thread /\ Handlers(i) \subseteq Thread
    BY DEF Callers, Handlers
  <1>2. posted[i] \subseteq IoKind
    BY DEF TypeOK
  <1> QED
    BY <1>1, <1>2, ThreadsFinite, KindsFinite, FS_Subset, FS_CardinalityType

(* A slot that somebody counts on has a positive ioCount.                   *)
LEMMA CountedIsPositive ==
    ASSUME TypeOK, Counted, NEW i \in Index,
           Callers(i) # {} \/ Handlers(i) # {} \/ posted[i] # {}
    PROVE  io[i] >= 1
  <1>1. \/ Cardinality(Callers(i)) # 0
        \/ Cardinality(Handlers(i)) # 0
        \/ Cardinality(posted[i]) # 0
    BY GroupsFinite, FS_EmptySet
  <1>2. io[i] \in Nat
    BY DEF TypeOK
  <1>3. io[i] >= Cardinality(Callers(i)) + Cardinality(Handlers(i))
                 + Cardinality(posted[i])
    BY DEF Counted, Covered
  <1> QED
    BY <1>1, <1>2, <1>3, GroupsFinite

(* A thread that holds a count on its slot finds it counted.                *)
LEMMA CallerCounts ==
    ASSUME TypeOK, Counted, NEW t \in Thread, cur[t] \in Index,
           pc[t] \in Pinned
    PROVE  io[cur[t]] >= 1
  <1>1. t \in Callers(cur[t])
    BY DEF Callers
  <1> QED
    BY <1>1, CountedIsPositive

(* A set with at most one more element, and one with one element less.      *)
LEMMA OneMore ==
    ASSUME NEW S, IsFiniteSet(S), NEW x, NEW T \in SUBSET (S \cup {x})
    PROVE  Cardinality(T) <= Cardinality(S) + 1
  <1>0. Cardinality(S) \in Nat
    BY FS_CardinalityType
  <1>1. /\ IsFiniteSet(S \cup {x})
        /\ Cardinality(S \cup {x}) <= Cardinality(S) + 1
    <2>1. /\ IsFiniteSet(S \cup {x})
          /\ \/ Cardinality(S \cup {x}) = Cardinality(S)
             \/ Cardinality(S \cup {x}) = Cardinality(S) + 1
      BY FS_AddElement
    <2> QED
      BY <1>0, <2>1
  <1>2. IsFiniteSet(T) /\ Cardinality(T) <= Cardinality(S \cup {x})
    BY <1>1, FS_Subset
  <1>3. /\ Cardinality(S) \in Nat
        /\ Cardinality(S \cup {x}) \in Nat
        /\ Cardinality(T) \in Nat
    BY <1>1, <1>2, FS_CardinalityType
  <1> QED
    BY <1>1, <1>2, <1>3

LEMMA OneLess ==
    ASSUME NEW S, IsFiniteSet(S), NEW x \in S, NEW T \in SUBSET (S \ {x})
    PROVE  Cardinality(T) <= Cardinality(S) - 1
  <1>1. /\ IsFiniteSet(S \ {x})
        /\ Cardinality(S \ {x}) = Cardinality(S) - 1
    BY FS_RemoveElement
  <1> QED
    BY <1>1, FS_Subset

(* In a step, nobody new counts on slot i, and its ioCount does not go down. *)
Calmer(i) ==
    /\ Callers(i)' \subseteq Callers(i)
    /\ Handlers(i)' \subseteq Handlers(i)
    /\ posted'[i] \subseteq posted[i]
    /\ io'[i] >= io[i]

(* The sizes of the groups before and after a step are numbers.             *)
LEMMA SlotSizes ==
    ASSUME TypeOK, TypeOK', Counted, NEW i \in Index
    PROVE  /\ Cardinality(Callers(i)) \in Nat
           /\ Cardinality(Callers(i)') \in Nat
           /\ Cardinality(Handlers(i)) \in Nat
           /\ Cardinality(Handlers(i)') \in Nat
           /\ Cardinality(posted[i]) \in Nat
           /\ Cardinality(posted'[i]) \in Nat
           /\ io[i] \in Nat
           /\ io'[i] \in Nat
           /\ io[i] >= Cardinality(Callers(i)) + Cardinality(Handlers(i))
                        + Cardinality(posted[i])
  <1>1. Callers(i)' \subseteq Thread /\ Handlers(i)' \subseteq Thread
    BY DEF Callers, Handlers
  <1>2. posted'[i] \subseteq IoKind
    BY DEF TypeOK
  <1>3. /\ IsFiniteSet(Callers(i)')
        /\ IsFiniteSet(Handlers(i)')
        /\ IsFiniteSet(posted'[i])
    BY <1>1, <1>2, ThreadsFinite, KindsFinite, FS_Subset
  <1>4. /\ Cardinality(Callers(i)') \in Nat
        /\ Cardinality(Handlers(i)') \in Nat
        /\ Cardinality(posted'[i]) \in Nat
    BY <1>3, FS_CardinalityType
  <1>5. io[i] \in Nat /\ io'[i] \in Nat
    BY DEF TypeOK
  <1> QED
    BY <1>4, <1>5, GroupsFinite DEF Counted, Covered

(* A step on which nobody new counts, and no ioCount goes down.             *)
LEMMA NobodyNew ==
    ASSUME TypeOK, TypeOK', Counted, NEW i \in Index, Calmer(i)
    PROVE  Covered(i)'
  <1>1. /\ Cardinality(Callers(i)') <= Cardinality(Callers(i))
        /\ Cardinality(Handlers(i)') <= Cardinality(Handlers(i))
        /\ Cardinality(posted'[i]) <= Cardinality(posted[i])
    BY GroupsFinite, FS_Subset DEF Calmer
  <1> QED
    BY <1>1, SlotSizes DEF Calmer, Covered

(* Every step keeps the types: ioCount stays a natural number because a     *)
(* thread only takes back a count it has (CallerCounts).                    *)
LEMMA TypeStep == IInv /\ [Next]_vars => TypeOK'
<1> SUFFICES ASSUME IInv, [Next]_vars PROVE TypeOK'
  OBVIOUS
<1> USE DEF IInv, TypeOK
<1>1. ASSUME Accept PROVE TypeOK'
  BY <1>1, SessionPoolAssumption DEF Accept, Goto, slots, ids, threads,
       Thread, Id, IoKind, Place, Pinned, Owning, Cleared, Shape
<1>2. ASSUME InitCount PROVE TypeOK'
  BY <1>2, SessionPoolAssumption DEF InitCount, Goto, slots, ids, threads,
       Thread, Id, IoKind, Place, Pinned, Owning, Cleared, Shape
<1>3. ASSUME InitUnlock PROVE TypeOK'
  BY <1>3, SessionPoolAssumption DEF InitUnlock, Goto, slots, ids, threads,
       Thread, Id, IoKind, Place, Pinned, Owning, Cleared, Shape
<1>4. ASSUME SetID PROVE TypeOK'
  BY <1>4, SessionPoolAssumption DEF SetID, Goto, slots, ids, threads, Thread,
       Id, IoKind, Place, Pinned, Owning, Cleared, Shape
<1>5. ASSUME OnAccept PROVE TypeOK'
  BY <1>5, SessionPoolAssumption DEF OnAccept, Goto, slots, ids, threads,
       Thread, Id, IoKind, Place, Pinned, Owning, Cleared, Shape
<1>6. ASSUME FirstRecv PROVE TypeOK'
  <2>1. cur[Acceptor] \in Index /\ Acceptor \in Thread
    BY <1>6 DEF FirstRecv, Shape, Thread
  <2>2. pc' \in [Thread -> Place]
    BY <1>6, <2>1, GotoType DEF FirstRecv, Place, Pinned
  <2> QED
    BY <1>6, <2>1, <2>2, PostType DEF FirstRecv, IoKind
<1>7. ASSUME NEW t \in Worker, NEW k \in Id, NEW f \in {"send", "abort"},
             Call(t, k, f)
      PROVE  TypeOK'
  BY <1>7, SessionPoolAssumption DEF Call, Goto, slots, ids, threads, Thread,
       Id, IoKind, Place, Pinned, Owning, Cleared, Shape
<1>8. ASSUME NEW t \in Worker, NEW i \in Index, Scan(t, i) PROVE TypeOK'
  BY <1>8, SessionPoolAssumption DEF Scan, Goto, slots, ids, threads, Thread,
       Id, IoKind, Place, Pinned, Owning, Cleared, Shape
<1>9. ASSUME NEW t \in Worker, Peek(t) PROVE TypeOK'
  <2>1. t \in Thread
    BY DEF Thread
  <2>2. CASE Return(t)
    BY <1>9, <2>1, <2>2, ReturnType DEF Peek, slots, ids
  <2>3. CASE Goto(t, "pin") /\ UNCHANGED <<op, arg, cur>>
    BY <1>9, <2>1, <2>3, GotoType DEF Peek, slots, ids, Place
  <2> QED
    BY <1>9, <2>2, <2>3 DEF Peek
<1>10. ASSUME NEW t \in Worker, Pin(t) PROVE TypeOK'
  <2>1. cur[t] \in Index /\ t \in Thread
    BY <1>10 DEF Pin, Shape, Thread
  <2>2. pc' \in [Thread -> Place]
    BY <1>10, <2>1, GotoType DEF Pin, Place, Pinned
  <2>3. io' \in [Index -> Nat]
    BY <1>10, <2>1 DEF Pin
  <2> QED
    BY <1>10, <2>2, <2>3 DEF Pin, ids
<1>11. ASSUME NEW t \in Worker, CheckFlag(t) PROVE TypeOK'
  BY <1>11, SessionPoolAssumption DEF CheckFlag, Goto, Released, slots, ids,
       threads, Thread, Id, IoKind, Place, Pinned, Owning, Cleared, Shape
<1>12. ASSUME NEW t \in Worker, CheckId(t) PROVE TypeOK'
  BY <1>12, SessionPoolAssumption DEF CheckId, Goto, Matches, slots, ids,
       threads, Thread, Id, IoKind, Place, Pinned, Owning, Cleared, Shape
<1>13. ASSUME NEW t \in Worker, Enqueue(t) PROVE TypeOK'
  BY ZenonT(40), <1>13, SessionPoolAssumption DEF Enqueue, Goto, slots, ids,
     threads,
       Thread, Id, IoKind, Place, Pinned, Owning, Cleared, Shape
<1>14. ASSUME NEW t \in Worker, MarkForDeletion(t) PROVE TypeOK'
  BY <1>14, SessionPoolAssumption DEF MarkForDeletion, Goto, slots, ids,
       threads, Thread, Id, IoKind, Place, Pinned, Owning, Cleared, Shape
<1>15. ASSUME NEW t \in Worker, TrySend(t) PROVE TypeOK'
  <2>1. cur[t] \in Index /\ t \in Thread
    BY <1>15 DEF TrySend, Shape, Thread
  <2>2. pc' \in [Thread -> Place]
    BY <1>15, <2>1, GotoType DEF TrySend, Place, Pinned
  <2>3. sendFlag' \in [Index -> {0, 1}]
    BY <1>15, <2>1 DEF TrySend
  <2> QED
    BY <1>15, <2>1, <2>2, <2>3, PostType DEF TrySend, IoKind
<1>16. ASSUME NEW t \in Worker, NothingToSend(t) PROVE TypeOK'
  BY <1>16, SessionPoolAssumption DEF NothingToSend, Goto, slots, ids,
       threads, Thread, Id, IoKind, Place, Pinned, Owning, Cleared, Shape
<1>17. ASSUME NEW t \in Worker, NEW i \in Index, NEW kind \in IoKind,
              CompleteBad(t, i, kind)
       PROVE  TypeOK'
  BY <1>17, SessionPoolAssumption DEF CompleteBad, Goto, slots, ids, threads,
       Thread, Id, IoKind, Place, Pinned, Owning, Cleared, Shape
<1>18. ASSUME NEW t \in Worker, NEW i \in Index,
              CompleteSend(t, i)
       PROVE  TypeOK'
  BY <1>18, SessionPoolAssumption DEF CompleteSend, Goto, slots, ids, threads,
       Thread, Id, IoKind, Place, Pinned, Owning, Cleared, Shape
<1>19. ASSUME NEW t \in Worker, NEW i \in Index,
              CompleteRecv(t, i)
       PROVE  TypeOK'
  BY <1>19, SessionPoolAssumption DEF CompleteRecv, Goto, slots, ids, threads,
       Thread, Id, IoKind, Place, Pinned, Owning, Cleared, Shape
<1>20. ASSUME NEW t \in Worker, FinishRecv(t) PROVE TypeOK'
  <2>1. base[t] \in Index /\ t \in Thread
    BY <1>20 DEF FinishRecv, Shape, Thread
  <2>2. pc' \in [Thread -> Place]
    BY <1>20, <2>1, GotoType DEF FinishRecv, Place, Pinned
  <2>3. /\ cur' \in [Thread -> Index \cup {NoIndex}]
        /\ base' \in [Thread -> Index \cup {NoIndex}]
    BY <1>20, <2>1 DEF FinishRecv
  <2>4. CASE Post(base[t], "recv")
    BY <1>20, <2>1, <2>2, <2>3, <2>4, PostType DEF FinishRecv, IoKind
  <2>5. CASE UNCHANGED <<io, posted, status, asked>>
    BY <1>20, <2>1, <2>2, <2>3, <2>5 DEF FinishRecv
  <2> QED
    BY <1>20, <2>4, <2>5 DEF FinishRecv
<1>21. ASSUME NEW t \in Worker, BadPacket(t) PROVE TypeOK'
  <2>1. base[t] \in Index /\ t \in Thread
    BY <1>21 DEF BadPacket, Shape, Thread
  <2>2. pc' \in [Thread -> Place]
    BY <1>21, <2>1, GotoType DEF BadPacket, Place
  <2> QED
    BY <1>21, <2>1, <2>2 DEF BadPacket
<1>22. ASSUME NEW t \in Thread, Release(t) PROVE TypeOK'
  <2>1. cur[t] \in Index
    BY <1>22 DEF Release, Shape
  <2>2. io[cur[t]] >= 1
    BY <1>22, <2>1, CallerCounts DEF Release, Pinned
  <2>3. io' \in [Index -> Nat]
    BY <1>22, <2>1, <2>2 DEF Release
  <2>4. CASE Return(t)
    BY <1>22, <2>3, <2>4, ReturnType DEF Release, ids
  <2>5. CASE Goto(t, "close") /\ UNCHANGED <<op, arg, cur>>
    BY <1>22, <2>3, <2>5, GotoType DEF Release, ids, Place
  <2> QED
    BY <1>22, <2>4, <2>5 DEF Release
<1>23. ASSUME NEW t \in Thread, TryClose(t) PROVE TypeOK'
  <2>1. cur[t] \in Index
    BY <1>23 DEF TryClose, Shape
  <2>2. flag' \in [Index -> {0, 1}]
    BY <1>23, <2>1 DEF TryClose
  <2>4. CASE Return(t)
    BY <1>23, <2>2, <2>4, ReturnType DEF TryClose, ids
  <2>5. CASE Goto(t, "ondisconnect") /\ UNCHANGED <<op, arg, cur>>
    BY <1>23, <2>2, <2>5, GotoType DEF TryClose, ids, Place, Owning
  <2> QED
    BY <1>23, <2>4, <2>5 DEF TryClose
<1>24. ASSUME NEW t \in Thread, OnDisconnect(t) PROVE TypeOK'
  BY <1>24, SessionPoolAssumption DEF OnDisconnect, Goto, slots, ids, threads,
       Thread, Id, IoKind, Place, Pinned, Owning, Cleared, Shape
<1>25. ASSUME NEW t \in Thread, Clear(t) PROVE TypeOK'
  BY <1>25, SessionPoolAssumption DEF Clear, Goto, slots, ids, threads,
       Thread, Id, IoKind, Place, Pinned, Owning, Cleared, Shape
<1>26. ASSUME NEW t \in Thread, Push(t) PROVE TypeOK'
  BY <1>26, SessionPoolAssumption DEF Push, Goto, Return, slots, ids, threads,
       Thread, Id, IoKind, Place, Pinned, Owning, Cleared, Shape
<1>27. CASE UNCHANGED vars
  BY <1>27 DEF vars, slots, ids, threads, slots, ids, threads, Thread, Id,
       IoKind, Place, Pinned, Owning, Cleared, Shape
<1> QED
  BY <1>1, <1>2, <1>3, <1>4, <1>5, <1>6, <1>7, <1>8, <1>9, <1>10, <1>11,
     <1>12, <1>13, <1>14, <1>15, <1>16, <1>17, <1>18, <1>19, <1>20, <1>21,
     <1>22, <1>23, <1>24, <1>25, <1>26, <1>27 DEF Next, Accepting, Using,
     Completing, Closing

(* Every step keeps ioCount at least as large as the groups that count.     *)
LEMMA CountStep == IInv /\ TypeOK' /\ [Next]_vars => Counted'
<1> SUFFICES ASSUME IInv, TypeOK', [Next]_vars PROVE Counted'
  OBVIOUS
<1> USE DEF IInv, TypeOK
<1>1. ASSUME Accept PROVE Counted'
  <2>1. ASSUME NEW i \in Index PROVE Calmer(i)
    BY <1>1 DEF Accept, Goto, Calmer, Callers, Handlers, Pinned, Owning,
         slots, ids
  <2> QED
    BY <2>1, NobodyNew DEF Counted
<1>2. ASSUME InitCount PROVE Counted'
  <2>1. Acceptor \in Thread /\ cur[Acceptor] \in Index
    BY <1>2 DEF InitCount, Shape, Thread
  <2>2. ASSUME NEW i \in Index, i # cur[Acceptor] PROVE Calmer(i)
    BY <1>2, <2>1, <2>2 DEF InitCount, Goto, Calmer, Callers, Handlers, Pinned
  <2>3. ASSUME NEW i \in Index, i = cur[Acceptor] PROVE Covered(i)'
    <3>1. Cardinality(Callers(i)') <= Cardinality(Callers(i)) + 1
      <4>1. Callers(i)' \in SUBSET (Callers(i) \cup {Acceptor})
        BY <1>2, <2>1, <2>3 DEF InitCount, Goto, Callers, Pinned
      <4> QED
        BY <4>1, GroupsFinite, OneMore
    <3>2. Cardinality(Handlers(i)') <= Cardinality(Handlers(i))
      <4>1. Handlers(i)' \subseteq Handlers(i)
        BY <1>2, <2>1, <2>3 DEF InitCount, Goto, Handlers
      <4> QED
        BY <4>1, GroupsFinite, FS_Subset
    <3>3. Cardinality(posted'[i]) <= Cardinality(posted[i])
      <4>1. posted'[i] \subseteq posted[i]
        BY <1>2, <2>1, <2>3 DEF InitCount, Goto
      <4> QED
        BY <4>1, GroupsFinite, FS_Subset
    <3>4. io'[i] = io[i] + 1
      BY <1>2, <2>1, <2>3 DEF InitCount, Goto
    <3> QED
      BY <3>1, <3>2, <3>3, <3>4, SlotSizes DEF Covered
  <2> QED
    BY <2>2, <2>3, NobodyNew DEF Counted
<1>3. ASSUME InitUnlock PROVE Counted'
  <2>1. ASSUME NEW i \in Index PROVE Calmer(i)
    BY <1>3 DEF InitUnlock, Goto, Calmer, Callers, Handlers, Pinned, Owning,
         slots, ids
  <2> QED
    BY <2>1, NobodyNew DEF Counted
<1>4. ASSUME SetID PROVE Counted'
  <2>1. ASSUME NEW i \in Index PROVE Calmer(i)
    BY <1>4 DEF SetID, Goto, Calmer, Callers, Handlers, Pinned, Owning, slots,
         ids
  <2> QED
    BY <2>1, NobodyNew DEF Counted
<1>5. ASSUME OnAccept PROVE Counted'
  <2>1. ASSUME NEW i \in Index PROVE Calmer(i)
    BY <1>5 DEF OnAccept, Goto, Calmer, Callers, Handlers, Pinned, Owning,
         slots, ids
  <2> QED
    BY <2>1, NobodyNew DEF Counted
<1>6. ASSUME FirstRecv PROVE Counted'
  <2>1. Acceptor \in Thread /\ cur[Acceptor] \in Index
    BY <1>6 DEF FirstRecv, Shape, Thread
  <2>2. ASSUME NEW i \in Index, i # cur[Acceptor] PROVE Calmer(i)
    BY <1>6, <2>1, <2>2 DEF FirstRecv, Goto, Post, Calmer, Callers, Handlers,
         Pinned
  <2>3. ASSUME NEW i \in Index, i = cur[Acceptor] PROVE Covered(i)'
    <3>1. Cardinality(Callers(i)') <= Cardinality(Callers(i))
      <4>1. Callers(i)' \subseteq Callers(i)
        BY <1>6, <2>1, <2>3 DEF FirstRecv, Goto, Post, Callers, Pinned
      <4> QED
        BY <4>1, GroupsFinite, FS_Subset
    <3>2. Cardinality(Handlers(i)') <= Cardinality(Handlers(i))
      <4>1. Handlers(i)' \subseteq Handlers(i)
        BY <1>6, <2>1, <2>3 DEF FirstRecv, Goto, Post, Handlers
      <4> QED
        BY <4>1, GroupsFinite, FS_Subset
    <3>3. Cardinality(posted'[i]) <= Cardinality(posted[i]) + 1
      <4>1. posted'[i] \in SUBSET (posted[i] \cup {"recv"})
        BY <1>6, <2>1, <2>3 DEF FirstRecv, Goto, Post
      <4> QED
        BY <4>1, GroupsFinite, OneMore
    <3>4. io'[i] = io[i] + 1
      BY <1>6, <2>1, <2>3 DEF FirstRecv, Goto, Post
    <3> QED
      BY <3>1, <3>2, <3>3, <3>4, SlotSizes DEF Covered
  <2> QED
    BY <2>2, <2>3, NobodyNew DEF Counted
<1>7. ASSUME NEW t \in Worker, NEW k \in Id, NEW f \in {"send", "abort"},
             Call(t, k, f)
      PROVE  Counted'
  <2>1. ASSUME NEW i \in Index PROVE Calmer(i)
    BY <1>7 DEF Call, Goto, Calmer, Callers, Handlers, Pinned, Owning, slots,
         ids
  <2> QED
    BY <2>1, NobodyNew DEF Counted
<1>8. ASSUME NEW t \in Worker, NEW i0 \in Index, Scan(t, i0) PROVE Counted'
  <2>1. ASSUME NEW i \in Index PROVE Calmer(i)
    BY <1>8 DEF Scan, Goto, Calmer, Callers, Handlers, Pinned, Owning, slots,
         ids
  <2> QED
    BY <2>1, NobodyNew DEF Counted
<1>9. ASSUME NEW t \in Worker, Peek(t) PROVE Counted'
  <2>1. ASSUME NEW i \in Index PROVE Calmer(i)
    BY <1>9 DEF Peek, Goto, Return, Calmer, Callers, Handlers, Pinned, Owning,
         slots, ids
  <2> QED
    BY <2>1, NobodyNew DEF Counted
<1>10. ASSUME NEW t \in Worker, Pin(t) PROVE Counted'
  <2>1. t \in Thread /\ cur[t] \in Index
    BY <1>10 DEF Pin, Shape, Thread
  <2>2. ASSUME NEW i \in Index, i # cur[t] PROVE Calmer(i)
    BY <1>10, <2>1, <2>2 DEF Pin, Goto, Calmer, Callers, Handlers, Pinned
  <2>3. ASSUME NEW i \in Index, i = cur[t] PROVE Covered(i)'
    <3>1. Cardinality(Callers(i)') <= Cardinality(Callers(i)) + 1
      <4>1. Callers(i)' \in SUBSET (Callers(i) \cup {t})
        BY <1>10, <2>1, <2>3 DEF Pin, Goto, Callers, Pinned
      <4> QED
        BY <4>1, GroupsFinite, OneMore
    <3>2. Cardinality(Handlers(i)') <= Cardinality(Handlers(i))
      <4>1. Handlers(i)' \subseteq Handlers(i)
        BY <1>10, <2>1, <2>3 DEF Pin, Goto, Handlers
      <4> QED
        BY <4>1, GroupsFinite, FS_Subset
    <3>3. Cardinality(posted'[i]) <= Cardinality(posted[i])
      <4>1. posted'[i] \subseteq posted[i]
        BY <1>10, <2>1, <2>3 DEF Pin, Goto
      <4> QED
        BY <4>1, GroupsFinite, FS_Subset
    <3>4. io'[i] = io[i] + 1
      BY <1>10, <2>1, <2>3 DEF Pin, Goto
    <3> QED
      BY <3>1, <3>2, <3>3, <3>4, SlotSizes DEF Covered
  <2> QED
    BY <2>2, <2>3, NobodyNew DEF Counted
<1>11. ASSUME NEW t \in Worker, CheckFlag(t) PROVE Counted'
  <2>1. ASSUME NEW i \in Index PROVE Calmer(i)
    BY <1>11 DEF CheckFlag, Goto, Released, Calmer, Callers, Handlers, Pinned,
         Owning, slots, ids
  <2> QED
    BY <2>1, NobodyNew DEF Counted
<1>12. ASSUME NEW t \in Worker, CheckId(t) PROVE Counted'
  <2>1. ASSUME NEW i \in Index PROVE Calmer(i)
    BY <1>12 DEF CheckId, Goto, Matches, Calmer, Callers, Handlers, Pinned,
         Owning, slots, ids
  <2> QED
    BY <2>1, NobodyNew DEF Counted
<1>13. ASSUME NEW t \in Worker, Enqueue(t) PROVE Counted'
  <2>1. ASSUME NEW i \in Index PROVE Calmer(i)
    BY <1>13 DEF Enqueue, Goto, Calmer, Callers, Handlers, Pinned, Owning,
         slots, ids
  <2> QED
    BY <2>1, NobodyNew DEF Counted
<1>14. ASSUME NEW t \in Worker, MarkForDeletion(t) PROVE Counted'
  <2>1. ASSUME NEW i \in Index PROVE Calmer(i)
    BY <1>14 DEF MarkForDeletion, Goto, Calmer, Callers, Handlers, Pinned,
         Owning, slots, ids
  <2> QED
    BY <2>1, NobodyNew DEF Counted
<1>15. ASSUME NEW t \in Worker, TrySend(t) PROVE Counted'
  <2>1. t \in Thread /\ cur[t] \in Index
    BY <1>15 DEF TrySend, Shape, Thread
  <2>2. ASSUME NEW i \in Index, i # cur[t] PROVE Calmer(i)
    BY <1>15, <2>1, <2>2 DEF TrySend, Goto, Post, Calmer, Callers, Handlers,
         Pinned
  <2>3. ASSUME NEW i \in Index, i = cur[t] PROVE Covered(i)'
    <3>1. Cardinality(Callers(i)') <= Cardinality(Callers(i))
      <4>1. Callers(i)' \subseteq Callers(i)
        BY <1>15, <2>1, <2>3 DEF TrySend, Goto, Post, Callers, Pinned
      <4> QED
        BY <4>1, GroupsFinite, FS_Subset
    <3>2. Cardinality(Handlers(i)') <= Cardinality(Handlers(i))
      <4>1. Handlers(i)' \subseteq Handlers(i)
        BY <1>15, <2>1, <2>3 DEF TrySend, Goto, Post, Handlers
      <4> QED
        BY <4>1, GroupsFinite, FS_Subset
    <3>3. Cardinality(posted'[i]) <= Cardinality(posted[i]) + 1
      <4>1. posted'[i] \in SUBSET (posted[i] \cup {"send"})
        BY <1>15, <2>1, <2>3 DEF TrySend, Goto, Post
      <4> QED
        BY <4>1, GroupsFinite, OneMore
    <3>4. io'[i] = io[i] + 1
      BY <1>15, <2>1, <2>3 DEF TrySend, Goto, Post
    <3> QED
      BY <3>1, <3>2, <3>3, <3>4, SlotSizes DEF Covered
  <2> QED
    BY <2>2, <2>3, NobodyNew DEF Counted
<1>16. ASSUME NEW t \in Worker, NothingToSend(t) PROVE Counted'
  <2>1. ASSUME NEW i \in Index PROVE Calmer(i)
    BY <1>16 DEF NothingToSend, Goto, Calmer, Callers, Handlers, Pinned,
         Owning, slots, ids
  <2> QED
    BY <2>1, NobodyNew DEF Counted
<1>17. ASSUME NEW t \in Worker, NEW i0 \in Index, NEW kind \in IoKind,
              CompleteBad(t, i0, kind) PROVE Counted'
  <2>1. t \in Thread /\ i0 \in Index
    BY <1>17 DEF CompleteBad, Shape, Thread
  <2>2. ASSUME NEW i \in Index, i # i0 PROVE Calmer(i)
    BY <1>17, <2>1, <2>2 DEF CompleteBad, Goto, Calmer, Callers, Handlers,
         Pinned
  <2>3. ASSUME NEW i \in Index, i = i0 PROVE Covered(i)'
    <3>1. Cardinality(Callers(i)') <= Cardinality(Callers(i)) + 1
      <4>1. Callers(i)' \in SUBSET (Callers(i) \cup {t})
        BY <1>17, <2>1, <2>3 DEF CompleteBad, Goto, Callers, Pinned
      <4> QED
        BY <4>1, GroupsFinite, OneMore
    <3>2. Cardinality(Handlers(i)') <= Cardinality(Handlers(i))
      <4>1. Handlers(i)' \subseteq Handlers(i)
        BY <1>17, <2>1, <2>3 DEF CompleteBad, Goto, Handlers
      <4> QED
        BY <4>1, GroupsFinite, FS_Subset
    <3>3. Cardinality(posted'[i]) <= Cardinality(posted[i]) - 1
      <4>1. kind \in posted[i] /\ posted'[i] \in SUBSET (posted[i] \ {kind})
        BY <1>17, <2>1, <2>3 DEF CompleteBad, Goto
      <4> QED
        BY <4>1, GroupsFinite, OneLess
    <3>4. io'[i] = io[i]
      BY <1>17, <2>1, <2>3 DEF CompleteBad, Goto
    <3> QED
      BY <3>1, <3>2, <3>3, <3>4, SlotSizes DEF Covered
  <2> QED
    BY <2>2, <2>3, NobodyNew DEF Counted
<1>18. ASSUME NEW t \in Worker, NEW i0 \in Index,
              CompleteSend(t, i0)
       PROVE  Counted'
  <2>1. t \in Thread /\ i0 \in Index
    BY <1>18 DEF CompleteSend, Shape, Thread
  <2>2. ASSUME NEW i \in Index, i # i0 PROVE Calmer(i)
    BY <1>18, <2>1, <2>2 DEF CompleteSend, Goto, Calmer, Callers, Handlers,
         Pinned
  <2>3. ASSUME NEW i \in Index, i = i0 PROVE Covered(i)'
    <3>1. Cardinality(Callers(i)') <= Cardinality(Callers(i)) + 1
      <4>1. Callers(i)' \in SUBSET (Callers(i) \cup {t})
        BY <1>18, <2>1, <2>3 DEF CompleteSend, Goto, Callers, Pinned
      <4> QED
        BY <4>1, GroupsFinite, OneMore
    <3>2. Cardinality(Handlers(i)') <= Cardinality(Handlers(i))
      <4>1. Handlers(i)' \subseteq Handlers(i)
        BY <1>18, <2>1, <2>3 DEF CompleteSend, Goto, Handlers
      <4> QED
        BY <4>1, GroupsFinite, FS_Subset
    <3>3. Cardinality(posted'[i]) <= Cardinality(posted[i]) - 1
      <4>1. "send" \in posted[i] /\ posted'[i] \in SUBSET (posted[i] \ {"send"})
        BY <1>18, <2>1, <2>3 DEF CompleteSend, Goto
      <4> QED
        BY <4>1, GroupsFinite, OneLess
    <3>4. io'[i] = io[i]
      BY <1>18, <2>1, <2>3 DEF CompleteSend, Goto
    <3> QED
      BY <3>1, <3>2, <3>3, <3>4, SlotSizes DEF Covered
  <2> QED
    BY <2>2, <2>3, NobodyNew DEF Counted
<1>19. ASSUME NEW t \in Worker, NEW i0 \in Index,
              CompleteRecv(t, i0)
       PROVE  Counted'
  <2>1. t \in Thread /\ i0 \in Index
    BY <1>19 DEF CompleteRecv, Shape, Thread
  <2>2. ASSUME NEW i \in Index, i # i0 PROVE Calmer(i)
    BY <1>19, <2>1, <2>2 DEF CompleteRecv, Goto, Calmer, Callers, Handlers,
         Pinned
  <2>3. ASSUME NEW i \in Index, i = i0 PROVE Covered(i)'
    <3>1. Cardinality(Callers(i)') <= Cardinality(Callers(i))
      <4>1. Callers(i)' \subseteq Callers(i)
        BY <1>19, <2>1, <2>3 DEF CompleteRecv, Goto, Callers, Pinned
      <4> QED
        BY <4>1, GroupsFinite, FS_Subset
    <3>2. Cardinality(Handlers(i)') <= Cardinality(Handlers(i)) + 1
      <4>1. Handlers(i)' \in SUBSET (Handlers(i) \cup {t})
        BY <1>19, <2>1, <2>3 DEF CompleteRecv, Goto, Handlers
      <4> QED
        BY <4>1, GroupsFinite, OneMore
    <3>3. Cardinality(posted'[i]) <= Cardinality(posted[i]) - 1
      <4>1. "recv" \in posted[i] /\ posted'[i] \in SUBSET (posted[i] \ {"recv"})
        BY <1>19, <2>1, <2>3 DEF CompleteRecv, Goto
      <4> QED
        BY <4>1, GroupsFinite, OneLess
    <3>4. io'[i] = io[i]
      BY <1>19, <2>1, <2>3 DEF CompleteRecv, Goto
    <3> QED
      BY <3>1, <3>2, <3>3, <3>4, SlotSizes DEF Covered
  <2> QED
    BY <2>2, <2>3, NobodyNew DEF Counted
<1>20. ASSUME NEW t \in Worker, FinishRecv(t) PROVE Counted'
  <2>1. t \in Thread /\ base[t] \in Index /\ base[t] # NoIndex
    BY <1>20, SessionPoolAssumption DEF FinishRecv, Shape, Thread
  <2>2. ASSUME NEW i \in Index, i # base[t] PROVE Calmer(i)
    BY <1>20, <2>1, <2>2, SessionPoolAssumption
       DEF FinishRecv, Goto, Post, Calmer, Callers, Handlers, Pinned
  <2>3. ASSUME NEW i \in Index, i = base[t] PROVE Covered(i)'
    <3>1. Cardinality(Callers(i)') <= Cardinality(Callers(i)) + 1
      <4>1. Callers(i)' \in SUBSET (Callers(i) \cup {t})
        BY <1>20, <2>1, <2>3 DEF FinishRecv, Goto, Callers, Pinned
      <4> QED
        BY <4>1, GroupsFinite, OneMore
    <3>2. Cardinality(Handlers(i)') <= Cardinality(Handlers(i)) - 1
      <4>1. t \in Handlers(i) /\ Handlers(i)' \in SUBSET (Handlers(i) \ {t})
        BY <1>20, <2>1, <2>3, SessionPoolAssumption DEF FinishRecv, Handlers
      <4> QED
        BY <4>1, GroupsFinite, OneLess
    <3>3. \/ Cardinality(posted'[i]) <= Cardinality(posted[i])
             /\ io'[i] >= io[i]
          \/ Cardinality(posted'[i]) <= Cardinality(posted[i]) + 1
             /\ io'[i] = io[i] + 1
      <4>1. \/ posted'[i] \in SUBSET posted[i] /\ io'[i] >= io[i]
            \/ posted'[i] \in SUBSET (posted[i] \cup {"recv"})
               /\ io'[i] = io[i] + 1
        BY <1>20, <2>1, <2>3 DEF FinishRecv, Post
      <4>2. posted'[i] \in SUBSET posted[i] =>
              Cardinality(posted'[i]) <= Cardinality(posted[i])
        BY GroupsFinite, FS_Subset
      <4>3. posted'[i] \in SUBSET (posted[i] \cup {"recv"}) =>
              Cardinality(posted'[i]) <= Cardinality(posted[i]) + 1
        BY GroupsFinite, OneMore
      <4> QED
        BY <4>1, <4>2, <4>3
    <3> QED
      BY <3>1, <3>2, <3>3, SlotSizes DEF Covered
  <2> QED
    BY <2>2, <2>3, NobodyNew DEF Counted
<1>21. ASSUME NEW t \in Worker, BadPacket(t) PROVE Counted'
  <2>0. t \in Thread
    BY DEF Thread
  <2>1. ASSUME NEW i \in Index PROVE Calmer(i)
    BY <1>21, SessionPoolAssumption, <2>0 DEF BadPacket, Goto, Calmer,
         Callers, Handlers, Pinned, Owning, slots, ids
  <2> QED
    BY <2>1, NobodyNew DEF Counted
<1>22. ASSUME NEW t \in Thread, Release(t) PROVE Counted'
  <2>1. t \in Thread /\ cur[t] \in Index
    BY <1>22 DEF Release, Shape, Thread
  <2>2. ASSUME NEW i \in Index, i # cur[t] PROVE Calmer(i)
    BY <1>22, <2>1, <2>2 DEF Release, Goto, Return, Calmer, Callers, Handlers,
         Pinned
  <2>3. ASSUME NEW i \in Index, i = cur[t] PROVE Covered(i)'
    <3>1. Cardinality(Callers(i)') <= Cardinality(Callers(i)) - 1
      <4>1. t \in Callers(i) /\ Callers(i)' \in SUBSET (Callers(i) \ {t})
        BY <1>22, <2>1, <2>3 DEF Release, Goto, Return, Callers, Pinned
      <4> QED
        BY <4>1, GroupsFinite, OneLess
    <3>2. Cardinality(Handlers(i)') <= Cardinality(Handlers(i))
      <4>1. Handlers(i)' \subseteq Handlers(i)
        BY <1>22, <2>1, <2>3 DEF Release, Goto, Return, Handlers
      <4> QED
        BY <4>1, GroupsFinite, FS_Subset
    <3>3. Cardinality(posted'[i]) <= Cardinality(posted[i])
      <4>1. posted'[i] \subseteq posted[i]
        BY <1>22, <2>1, <2>3 DEF Release, Goto, Return
      <4> QED
        BY <4>1, GroupsFinite, FS_Subset
    <3>4. io'[i] = io[i] - 1
      BY <1>22, <2>1, <2>3 DEF Release, Goto, Return
    <3> QED
      BY <3>1, <3>2, <3>3, <3>4, SlotSizes DEF Covered
  <2> QED
    BY <2>2, <2>3, NobodyNew DEF Counted
<1>23. ASSUME NEW t \in Thread, TryClose(t) PROVE Counted'
  <2>1. ASSUME NEW i \in Index PROVE Calmer(i)
    BY <1>23 DEF TryClose, Goto, Return, Closable, Calmer, Callers, Handlers,
         Pinned, Owning, slots, ids
  <2> QED
    BY <2>1, NobodyNew DEF Counted
<1>24. ASSUME NEW t \in Thread, OnDisconnect(t) PROVE Counted'
  <2>1. ASSUME NEW i \in Index PROVE Calmer(i)
    BY <1>24 DEF OnDisconnect, Goto, Calmer, Callers, Handlers, Pinned,
         Owning, slots, ids
  <2> QED
    BY <2>1, NobodyNew DEF Counted
<1>25. ASSUME NEW t \in Thread, Clear(t) PROVE Counted'
  <2>1. ASSUME NEW i \in Index PROVE Calmer(i)
    BY <1>25 DEF Clear, Goto, Calmer, Callers, Handlers, Pinned, Owning,
         slots, ids
  <2> QED
    BY <2>1, NobodyNew DEF Counted
<1>26. ASSUME NEW t \in Thread, Push(t) PROVE Counted'
  <2>1. ASSUME NEW i \in Index PROVE Calmer(i)
    BY <1>26 DEF Push, Goto, Return, Calmer, Callers, Handlers, Pinned,
         Owning, slots, ids
  <2> QED
    BY <2>1, NobodyNew DEF Counted
<1>27. CASE UNCHANGED vars
  BY <1>27 DEF vars, slots, ids, threads, Counted, Covered, Callers, Handlers
<1> QED
  BY <1>1, <1>2, <1>3, <1>4, <1>5, <1>6, <1>7, <1>8, <1>9, <1>10, <1>11,
     <1>12, <1>13, <1>14, <1>15, <1>16, <1>17, <1>18, <1>19, <1>20, <1>21,
     <1>22, <1>23, <1>24, <1>25, <1>26, <1>27 DEF Next, Accepting, Using,
     Completing, Closing

-----------------------------------------------------------------------------
(* The other parts of the invariant *)

(* Every step leaves each thread with the slot and the arguments its next   *)
(* place needs.                                                             *)
LEMMA ShapeStep == IInv /\ [Next]_vars => Shape'
<1> SUFFICES ASSUME IInv, [Next]_vars PROVE Shape'
  OBVIOUS
<1> USE DEF IInv, TypeOK, Shape, Owning, InCall, Accepts, slots, ids, Thread
<1>1. ASSUME Accept PROVE Shape'
  BY <1>1, SessionPoolAssumption DEF Accept, Goto
<1>2. ASSUME InitCount PROVE Shape'
  BY <1>2, SessionPoolAssumption DEF InitCount, Goto
<1>3. ASSUME InitUnlock PROVE Shape'
  BY <1>3, SessionPoolAssumption DEF InitUnlock, Goto
<1>4. ASSUME SetID PROVE Shape'
  BY <1>4, SessionPoolAssumption DEF SetID, Goto
<1>5. ASSUME OnAccept PROVE Shape'
  BY <1>5, SessionPoolAssumption DEF OnAccept, Goto
<1>6. ASSUME FirstRecv PROVE Shape'
  BY <1>6, SessionPoolAssumption DEF FirstRecv, Goto, Post
<1>7. ASSUME NEW t \in Worker, NEW k \in Id, NEW f \in {"send", "abort"},
             Call(t, k, f)
      PROVE  Shape'
  <2>1. slot[k] \in Index /\ t \in Thread
    BY <1>7 DEF Call, Named, Thread
  <2> QED
    BY <1>7, <2>1, SessionPoolAssumption DEF Call, Goto, Shape, slots, ids,
         threads, Thread,
       Pinned, Owning, InCall, Accepts
<1>8. ASSUME NEW t \in Worker, NEW i \in Index, Scan(t, i) PROVE Shape'
  BY <1>8, SessionPoolAssumption DEF Scan, Goto
<1>9. ASSUME NEW t \in Worker, Peek(t) PROVE Shape'
  <2>1. t \in Thread /\ t # Acceptor
    BY SessionPoolAssumption DEF Thread
  <2>2. CASE Return(t)
    BY <1>9, <2>1, <2>2 DEF Peek, Return, Goto, Shape, slots, ids, InCall,
         Accepts
  <2>3. CASE Goto(t, "pin") /\ UNCHANGED <<op, arg, cur>>
    BY <1>9, <2>1, <2>3 DEF Peek, Goto, Shape, slots, ids, InCall, Accepts
  <2> QED
    BY <1>9, <2>2, <2>3 DEF Peek
<1>10. ASSUME NEW t \in Worker, Pin(t) PROVE Shape'
  BY <1>10, SessionPoolAssumption DEF Pin, Goto
<1>11. ASSUME NEW t \in Worker, CheckFlag(t) PROVE Shape'
  BY <1>11, SessionPoolAssumption DEF CheckFlag, Goto, Released
<1>12. ASSUME NEW t \in Worker, CheckId(t) PROVE Shape'
  BY <1>12, SessionPoolAssumption DEF CheckId, Goto, Matches
<1>13. ASSUME NEW t \in Worker, Enqueue(t) PROVE Shape'
  BY <1>13, SessionPoolAssumption DEF Enqueue, Goto
<1>14. ASSUME NEW t \in Worker, MarkForDeletion(t) PROVE Shape'
  BY <1>14, SessionPoolAssumption DEF MarkForDeletion, Goto
<1>15. ASSUME NEW t \in Worker, TrySend(t) PROVE Shape'
  BY <1>15, SessionPoolAssumption DEF TrySend, Goto, Post
<1>16. ASSUME NEW t \in Worker, NothingToSend(t) PROVE Shape'
  BY <1>16, SessionPoolAssumption DEF NothingToSend, Goto
<1>17. ASSUME NEW t \in Worker, NEW i \in Index, NEW kind \in IoKind,
              CompleteBad(t, i, kind)
       PROVE  Shape'
  BY <1>17, SessionPoolAssumption DEF CompleteBad, Goto
<1>18. ASSUME NEW t \in Worker, NEW i \in Index,
              CompleteSend(t, i)
       PROVE  Shape'
  BY <1>18, SessionPoolAssumption DEF CompleteSend, Goto
<1>19. ASSUME NEW t \in Worker, NEW i \in Index,
              CompleteRecv(t, i)
       PROVE  Shape'
  BY <1>19, SessionPoolAssumption DEF CompleteRecv, Goto
<1>20. ASSUME NEW t \in Worker, FinishRecv(t) PROVE Shape'
  BY <1>20, SessionPoolAssumption DEF FinishRecv, Goto, Post
<1>21. ASSUME NEW t \in Worker, BadPacket(t) PROVE Shape'
  BY <1>21, SessionPoolAssumption DEF BadPacket, Goto
<1>22. ASSUME NEW t \in Thread, Release(t) PROVE Shape'
  BY <1>22, SessionPoolAssumption DEF Release, Goto, Return
<1>23. ASSUME NEW t \in Thread, TryClose(t) PROVE Shape'
  BY <1>23, SessionPoolAssumption DEF TryClose, Goto, Return, Closable
<1>24. ASSUME NEW t \in Thread, OnDisconnect(t) PROVE Shape'
  BY <1>24, SessionPoolAssumption DEF OnDisconnect, Goto
<1>25. ASSUME NEW t \in Thread, Clear(t) PROVE Shape'
  BY <1>25, SessionPoolAssumption DEF Clear, Goto
<1>26. ASSUME NEW t \in Thread, Push(t) PROVE Shape'
  BY <1>26, SessionPoolAssumption DEF Push, Goto, Return
<1>27. CASE UNCHANGED vars
  BY <1>27 DEF vars, threads
<1> QED
  BY SMTT(30), <1>1, <1>2, <1>3, <1>4, <1>5, <1>6, <1>7, <1>8, <1>9, <1>10,
     <1>11,
     <1>12, <1>13, <1>14, <1>15, <1>16, <1>17, <1>18, <1>19, <1>20, <1>21,
     <1>22, <1>23, <1>24, <1>25, <1>26, <1>27 DEF Next, Accepting, Using,
     Completing, Closing

(* Every step leaves what is in use open, and what is not open with one     *)
(* owner: the compare-and-swap succeeds when nobody counts on the slot.     *)
LEMMA OwnedStep == IInv /\ [Next]_vars => Owned'
<1> SUFFICES ASSUME IInv, [Next]_vars PROVE Owned'
  OBVIOUS
<1> USE DEF IInv, TypeOK, Owned, Shape, Owning, slots, ids, Thread
<1>1. ASSUME Accept PROVE Owned'
  BY <1>1, SessionPoolAssumption DEF Accept, Goto
<1>2. ASSUME InitCount PROVE Owned'
  BY <1>2, SessionPoolAssumption DEF InitCount, Goto
<1>3. ASSUME InitUnlock PROVE Owned'
  BY <1>3, SessionPoolAssumption DEF InitUnlock, Goto
<1>4. ASSUME SetID PROVE Owned'
  BY <1>4, SessionPoolAssumption DEF SetID, Goto
<1>5. ASSUME OnAccept PROVE Owned'
  BY <1>5, SessionPoolAssumption DEF OnAccept, Goto
<1>6. ASSUME FirstRecv PROVE Owned'
  BY <1>6, SessionPoolAssumption DEF FirstRecv, Goto, Post
<1>7. ASSUME NEW t \in Worker, NEW k \in Id, NEW f \in {"send", "abort"},
             Call(t, k, f)
      PROVE  Owned'
  BY <1>7, SessionPoolAssumption DEF Call, Goto
<1>8. ASSUME NEW t \in Worker, NEW i \in Index, Scan(t, i) PROVE Owned'
  BY <1>8, SessionPoolAssumption DEF Scan, Goto
<1>9. ASSUME NEW t \in Worker, Peek(t) PROVE Owned'
  BY SMTT(30), <1>9, SessionPoolAssumption DEF Peek, Goto, Return
<1>10. ASSUME NEW t \in Worker, Pin(t) PROVE Owned'
  BY <1>10, SessionPoolAssumption DEF Pin, Goto
<1>11. ASSUME NEW t \in Worker, CheckFlag(t) PROVE Owned'
  BY <1>11, SessionPoolAssumption DEF CheckFlag, Goto, Released
<1>12. ASSUME NEW t \in Worker, CheckId(t) PROVE Owned'
  BY <1>12, SessionPoolAssumption DEF CheckId, Goto, Matches
<1>13. ASSUME NEW t \in Worker, Enqueue(t) PROVE Owned'
  BY <1>13, SessionPoolAssumption DEF Enqueue, Goto
<1>14. ASSUME NEW t \in Worker, MarkForDeletion(t) PROVE Owned'
  BY <1>14, SessionPoolAssumption DEF MarkForDeletion, Goto
<1>15. ASSUME NEW t \in Worker, TrySend(t) PROVE Owned'
  BY <1>15, SessionPoolAssumption DEF TrySend, Goto, Post
<1>16. ASSUME NEW t \in Worker, NothingToSend(t) PROVE Owned'
  BY <1>16, SessionPoolAssumption DEF NothingToSend, Goto
<1>17. ASSUME NEW t \in Worker, NEW i \in Index, NEW kind \in IoKind,
              CompleteBad(t, i, kind)
       PROVE  Owned'
  BY <1>17, SessionPoolAssumption DEF CompleteBad, Goto
<1>18. ASSUME NEW t \in Worker, NEW i \in Index,
              CompleteSend(t, i)
       PROVE  Owned'
  BY <1>18, SessionPoolAssumption DEF CompleteSend, Goto
<1>19. ASSUME NEW t \in Worker, NEW i \in Index,
              CompleteRecv(t, i)
       PROVE  Owned'
  BY <1>19, SessionPoolAssumption DEF CompleteRecv, Goto
<1>20. ASSUME NEW t \in Worker, FinishRecv(t) PROVE Owned'
  <2>1. CASE status[base[t]] = "Active" /\ Post(base[t], "recv")
    BY <1>20, <2>1, SessionPoolAssumption DEF FinishRecv, Goto, Post
  <2>2. CASE UNCHANGED <<io, posted, status, asked>>
    BY <1>20, <2>2, SessionPoolAssumption DEF FinishRecv, Goto
  <2> QED
    BY <1>20, <2>1, <2>2 DEF FinishRecv
<1>21. ASSUME NEW t \in Worker, BadPacket(t) PROVE Owned'
  BY <1>21, SessionPoolAssumption DEF BadPacket, Goto
<1>22. ASSUME NEW t \in Thread, Release(t) PROVE Owned'
  <2>1. CASE Goto(t, "close") /\ UNCHANGED <<op, arg, cur>>
    BY <1>22, <2>1 DEF Release, Goto, Owned, Owning, ids
  <2>2. CASE Return(t)
    <3>1. /\ pc'[t] \in {"idle", "recvd"} /\ cur'[t] = NoIndex
          /\ \A u \in Thread : u # t => pc'[u] = pc[u] /\ cur'[u] = cur[u]
      BY <1>22, <2>2 DEF Return, Goto
    <3> QED
      BY <1>22, <3>1 DEF Release, Owned, Owning, ids
  <2> QED
    BY <1>22, <2>1, <2>2 DEF Release
<1>23. ASSUME NEW t \in Thread, TryClose(t) PROVE Owned'
  <2>1. CASE Closable(cur[t])
    <3>1. cur[t] \in Index /\ flag[cur[t]] = 0 /\ io[cur[t]] = 0
      BY <1>23, <2>1 DEF TryClose, Closable, Shape
    <3>2. /\ Callers(cur[t]) = {}
          /\ Handlers(cur[t]) = {}
          /\ posted[cur[t]] = {}
      BY <3>1, CountedIsPositive
    <3>3. /\ \A u \in Thread : pc[u] \in Pinned => cur[u] # cur[t]
          /\ \A u \in Thread : base[u] # cur[t]
      BY <3>2 DEF Callers, Handlers
    <3> QED
      BY <1>23, <2>1, <3>1, <3>2, <3>3 DEF TryClose, Goto, Owned, Shape,
           Pinned, Owning
  <2>2. CASE ~Closable(cur[t])
    <3>1. /\ flag' = flag /\ base' = base
          /\ pc'[t] \in {"idle", "recvd"} /\ cur'[t] = NoIndex
          /\ \A u \in Thread : u # t =>
                /\ pc'[u] = pc[u] /\ op'[u] = op[u]
                /\ arg'[u] = arg[u] /\ cur'[u] = cur[u]
      BY <1>23, <2>2 DEF TryClose, Return, Goto
    <3> QED
      BY <1>23, <3>1 DEF TryClose, Owned, Shape, Pinned, Owning, ids
  <2> QED
    BY <2>1, <2>2
<1>24. ASSUME NEW t \in Thread, OnDisconnect(t) PROVE Owned'
  BY <1>24, SessionPoolAssumption DEF OnDisconnect, Goto
<1>25. ASSUME NEW t \in Thread, Clear(t) PROVE Owned'
  BY <1>25, SessionPoolAssumption DEF Clear, Goto
<1>26. ASSUME NEW t \in Thread, Push(t) PROVE Owned'
  BY <1>26, SessionPoolAssumption DEF Push, Goto, Return
<1>27. CASE UNCHANGED vars
  BY <1>27 DEF vars, threads
<1> QED
  BY SMTT(30), <1>1, <1>2, <1>3, <1>4, <1>5, <1>6, <1>7, <1>8, <1>9, <1>10,
     <1>11,
     <1>12, <1>13, <1>14, <1>15, <1>16, <1>17, <1>18, <1>19, <1>20, <1>21,
     <1>22, <1>23, <1>24, <1>25, <1>26, <1>27 DEF Next, Accepting, Using,
     Completing, Closing

(* Every step keeps slots and ids paired.                                   *)
LEMMA NamedStep == IInv /\ [Next]_vars => Named'
<1> SUFFICES ASSUME IInv, [Next]_vars PROVE Named'
  OBVIOUS
<1> USE DEF IInv, TypeOK, Named, Owned, Shape, Owning, InCall, Fresh, slots,
      ids, Thread
<1>1. ASSUME Accept PROVE Named'
  BY <1>1, SessionPoolAssumption DEF Accept, Goto
<1>2. ASSUME InitCount PROVE Named'
  BY <1>2, SessionPoolAssumption DEF InitCount, Goto
<1>3. ASSUME InitUnlock PROVE Named'
  BY <1>3, SessionPoolAssumption DEF InitUnlock, Goto
<1>4. ASSUME SetID PROVE Named'
  <2>1. /\ Acceptor \in Thread
        /\ cur[Acceptor] \in Index
        /\ arg[Acceptor] \in Id
        /\ sid[cur[Acceptor]] = Cleared
    BY <1>4 DEF SetID, Thread, Shape, Named, Fresh, Clean, Empty
  <2>2. \A k \in Id : life[k] = "open" => slot[k] # cur[Acceptor]
    BY <2>1 DEF Named, Id, Cleared
  <2>3. \A t \in Thread :
          \/ pc[t] \in {"ondisconnect", "clear"}
          \/ pc[t] = "use" /\ op[t] # "flush"
          => cur[t] # cur[Acceptor]
    BY <2>1 DEF Named, Shape, InCall, Id, Cleared
  <2> QED
    BY <1>4, <2>1, <2>2, <2>3 DEF SetID, Goto, Named, Fresh, ids
<1>5. ASSUME OnAccept PROVE Named'
  BY <1>5, SessionPoolAssumption DEF OnAccept, Goto
<1>6. ASSUME FirstRecv PROVE Named'
  BY <1>6, SessionPoolAssumption DEF FirstRecv, Goto, Post
<1>7. ASSUME NEW t \in Worker, NEW k \in Id, NEW f \in {"send", "abort"},
             Call(t, k, f)
      PROVE  Named'
  BY <1>7, SessionPoolAssumption DEF Call, Goto
<1>8. ASSUME NEW t \in Worker, NEW i \in Index, Scan(t, i) PROVE Named'
  BY <1>8, SessionPoolAssumption DEF Scan, Goto
<1>9. ASSUME NEW t \in Worker, Peek(t) PROVE Named'
  BY <1>9, SessionPoolAssumption DEF Peek, Goto, Return
<1>10. ASSUME NEW t \in Worker, Pin(t) PROVE Named'
  BY <1>10, SessionPoolAssumption DEF Pin, Goto
<1>11. ASSUME NEW t \in Worker, CheckFlag(t) PROVE Named'
  BY <1>11, SessionPoolAssumption DEF CheckFlag, Goto, Released
<1>12. ASSUME NEW t \in Worker, CheckId(t) PROVE Named'
  BY <1>12, SessionPoolAssumption DEF CheckId, Goto, Matches
<1>13. ASSUME NEW t \in Worker, Enqueue(t) PROVE Named'
  BY <1>13, SessionPoolAssumption DEF Enqueue, Goto
<1>14. ASSUME NEW t \in Worker, MarkForDeletion(t) PROVE Named'
  BY <1>14, SessionPoolAssumption DEF MarkForDeletion, Goto
<1>15. ASSUME NEW t \in Worker, TrySend(t) PROVE Named'
  BY <1>15, SessionPoolAssumption DEF TrySend, Goto, Post
<1>16. ASSUME NEW t \in Worker, NothingToSend(t) PROVE Named'
  BY <1>16, SessionPoolAssumption DEF NothingToSend, Goto
<1>17. ASSUME NEW t \in Worker, NEW i \in Index, NEW kind \in IoKind,
              CompleteBad(t, i, kind)
       PROVE  Named'
  BY <1>17, SessionPoolAssumption DEF CompleteBad, Goto
<1>18. ASSUME NEW t \in Worker, NEW i \in Index,
              CompleteSend(t, i)
       PROVE  Named'
  BY <1>18, SessionPoolAssumption DEF CompleteSend, Goto
<1>19. ASSUME NEW t \in Worker, NEW i \in Index,
              CompleteRecv(t, i)
       PROVE  Named'
  BY <1>19, SessionPoolAssumption DEF CompleteRecv, Goto
<1>20. ASSUME NEW t \in Worker, FinishRecv(t) PROVE Named'
  BY <1>20, SessionPoolAssumption DEF FinishRecv, Goto, Post
<1>21. ASSUME NEW t \in Worker, BadPacket(t) PROVE Named'
  BY <1>21, SessionPoolAssumption DEF BadPacket, Goto
<1>22. ASSUME NEW t \in Thread, Release(t) PROVE Named'
  BY <1>22, SessionPoolAssumption DEF Release, Goto, Return
<1>23. ASSUME NEW t \in Thread, TryClose(t) PROVE Named'
  <2>1. CASE Closable(cur[t])
    <3>1. cur[t] \in Index /\ flag[cur[t]] = 0 /\ io[cur[t]] = 0
      BY <1>23, <2>1 DEF TryClose, Closable, Shape
    <3>2. /\ Callers(cur[t]) = {}
          /\ Handlers(cur[t]) = {}
          /\ posted[cur[t]] = {}
      BY <3>1, CountedIsPositive
    <3>3. /\ \A u \in Thread : pc[u] \in Pinned => cur[u] # cur[t]
          /\ \A u \in Thread : base[u] # cur[t]
      BY <3>2 DEF Callers, Handlers
    <3>4. /\ sid[cur[t]] \in Id
          /\ life[sid[cur[t]]] = "open"
          /\ slot[sid[cur[t]]] = cur[t]
      BY <3>1, <3>3 DEF Named, Pinned, Thread
    <3> QED
      BY <1>23, <2>1, <3>1, <3>4 DEF TryClose, Goto, Named, Fresh, Thread, ids
  <2>2. CASE ~Closable(cur[t])
    <3>1. /\ flag' = flag /\ base' = base
          /\ pc'[t] \in {"idle", "recvd"} /\ cur'[t] = NoIndex
          /\ \A u \in Thread : u # t =>
                /\ pc'[u] = pc[u] /\ op'[u] = op[u]
                /\ arg'[u] = arg[u] /\ cur'[u] = cur[u]
      BY <1>23, <2>2 DEF TryClose, Return, Goto
    <3> QED
      BY <1>23, <3>1 DEF TryClose, Named, Fresh, Thread, ids
  <2> QED
    BY <2>1, <2>2
<1>24. ASSUME NEW t \in Thread, OnDisconnect(t) PROVE Named'
  BY <1>24, SessionPoolAssumption DEF OnDisconnect, Goto
<1>25. ASSUME NEW t \in Thread, Clear(t) PROVE Named'
  BY <1>25, SessionPoolAssumption DEF Clear, Goto
<1>26. ASSUME NEW t \in Thread, Push(t) PROVE Named'
  BY <1>26, SessionPoolAssumption DEF Push, Goto, Return
<1>27. CASE UNCHANGED vars
  BY <1>27 DEF vars, threads
<1> QED
  BY SMTT(30), <1>1, <1>2, <1>3, <1>4, <1>5, <1>6, <1>7, <1>8, <1>9, <1>10,
     <1>11,
     <1>12, <1>13, <1>14, <1>15, <1>16, <1>17, <1>18, <1>19, <1>20, <1>21,
     <1>22, <1>23, <1>24, <1>25, <1>26, <1>27 DEF Next, Accepting, Using,
     Completing, Closing

(* Every step leaves a slot without a session empty: a thread that passed   *)
(* its checks works on a slot with a session the contents were told of.     *)
LEMMA CleanStep == IInv /\ [Next]_vars => Clean'
<1> SUFFICES ASSUME IInv, [Next]_vars PROVE Clean'
  OBVIOUS
<1> USE DEF IInv, TypeOK, Clean, Empty, Named, Owned, Shape, Owning, Accepts,
      Fresh, slots, ids, Thread
<1>1. ASSUME Accept PROVE Clean'
  BY <1>1, SessionPoolAssumption DEF Accept, Goto
<1>2. ASSUME InitCount PROVE Clean'
  BY <1>2, SessionPoolAssumption DEF InitCount, Goto
<1>3. ASSUME InitUnlock PROVE Clean'
  BY <1>3, SessionPoolAssumption DEF InitUnlock, Goto
<1>4. ASSUME SetID PROVE Clean'
  BY <1>4, SessionPoolAssumption DEF SetID, Goto
<1>5. ASSUME OnAccept PROVE Clean'
  BY <1>5, SessionPoolAssumption DEF OnAccept, Goto
<1>6. ASSUME FirstRecv PROVE Clean'
  BY <1>6, SessionPoolAssumption DEF FirstRecv, Goto, Post
<1>7. ASSUME NEW t \in Worker, NEW k \in Id, NEW f \in {"send", "abort"},
             Call(t, k, f)
      PROVE  Clean'
  BY <1>7, SessionPoolAssumption DEF Call, Goto
<1>8. ASSUME NEW t \in Worker, NEW i \in Index, Scan(t, i) PROVE Clean'
  BY <1>8, SessionPoolAssumption DEF Scan, Goto
<1>9. ASSUME NEW t \in Worker, Peek(t) PROVE Clean'
  BY <1>9, SessionPoolAssumption DEF Peek, Goto, Return
<1>10. ASSUME NEW t \in Worker, Pin(t) PROVE Clean'
  BY <1>10, SessionPoolAssumption DEF Pin, Goto
<1>11. ASSUME NEW t \in Worker, CheckFlag(t) PROVE Clean'
  BY <1>11, SessionPoolAssumption DEF CheckFlag, Goto, Released
<1>12. ASSUME NEW t \in Worker, CheckId(t) PROVE Clean'
  BY <1>12, SessionPoolAssumption DEF CheckId, Goto, Matches
<1>13. ASSUME NEW t \in Worker, Enqueue(t) PROVE Clean'
  <2>1. /\ t \in Thread /\ t # Acceptor /\ cur[t] \in Index
        /\ flag[cur[t]] = 0
        /\ life[sid[cur[t]]] # "none"
        /\ sid[cur[t]] \in Id
    BY <1>13, SessionPoolAssumption DEF Enqueue, Shape, Owned, Named, Thread,
         InCall
  <2>2. cur[t] \notin free
    BY <2>1 DEF Owned
  <2>3. \A u \in Thread :
          pc[u] \in {"push", "init", "unlock", "setid"} => cur[u] # cur[t]
    BY <2>1 DEF Clean, Empty, Id, Cleared
  <2>4. pc[Acceptor] \in Fresh => cur[Acceptor] # cur[t]
    BY <2>1, <2>3 DEF Named, Fresh, Thread
  <2> QED
    BY <1>13, <2>1, <2>2, <2>3, <2>4 DEF Enqueue, Goto, Clean, Empty, Fresh,
         Thread, ids
<1>14. ASSUME NEW t \in Worker, MarkForDeletion(t) PROVE Clean'
  <2>1. /\ t \in Thread /\ t # Acceptor /\ cur[t] \in Index
        /\ flag[cur[t]] = 0
        /\ life[sid[cur[t]]] # "none"
        /\ sid[cur[t]] \in Id
    BY <1>14, SessionPoolAssumption DEF MarkForDeletion, Shape, Owned, Named,
         Thread, InCall
  <2>2. cur[t] \notin free
    BY <2>1 DEF Owned
  <2>3. \A u \in Thread :
          pc[u] \in {"push", "init", "unlock", "setid"} => cur[u] # cur[t]
    BY <2>1 DEF Clean, Empty, Id, Cleared
  <2>4. pc[Acceptor] \in Fresh => cur[Acceptor] # cur[t]
    BY <2>1, <2>3 DEF Named, Fresh, Thread
  <2> QED
    BY <1>14, <2>1, <2>2, <2>3, <2>4 DEF MarkForDeletion, Goto, Clean, Empty,
         Fresh, Thread
<1>15. ASSUME NEW t \in Worker, TrySend(t) PROVE Clean'
  BY <1>15, SessionPoolAssumption DEF TrySend, Goto, Post
<1>16. ASSUME NEW t \in Worker, NothingToSend(t) PROVE Clean'
  BY <1>16, SessionPoolAssumption DEF NothingToSend, Goto
<1>17. ASSUME NEW t \in Worker, NEW i \in Index, NEW kind \in IoKind,
              CompleteBad(t, i, kind)
       PROVE  Clean'
  BY <1>17, SessionPoolAssumption DEF CompleteBad, Goto
<1>18. ASSUME NEW t \in Worker, NEW i \in Index,
              CompleteSend(t, i)
       PROVE  Clean'
  BY <1>18, SessionPoolAssumption DEF CompleteSend, Goto
<1>19. ASSUME NEW t \in Worker, NEW i \in Index,
              CompleteRecv(t, i)
       PROVE  Clean'
  BY <1>19, SessionPoolAssumption DEF CompleteRecv, Goto
<1>20. ASSUME NEW t \in Worker, FinishRecv(t) PROVE Clean'
  BY <1>20, SessionPoolAssumption DEF FinishRecv, Goto, Post
<1>21. ASSUME NEW t \in Worker, BadPacket(t) PROVE Clean'
  BY <1>21, SessionPoolAssumption DEF BadPacket, Goto
<1>22. ASSUME NEW t \in Thread, Release(t) PROVE Clean'
  BY <1>22, SessionPoolAssumption DEF Release, Goto, Return
<1>23. ASSUME NEW t \in Thread, TryClose(t) PROVE Clean'
  BY <1>23, SessionPoolAssumption DEF TryClose, Goto, Return, Closable
<1>24. ASSUME NEW t \in Thread, OnDisconnect(t) PROVE Clean'
  BY <1>24, SessionPoolAssumption DEF OnDisconnect, Goto
<1>25. ASSUME NEW t \in Thread, Clear(t) PROVE Clean'
  BY <1>25, SessionPoolAssumption DEF Clear, Goto
<1>26. ASSUME NEW t \in Thread, Push(t) PROVE Clean'
  BY <1>26, SessionPoolAssumption DEF Push, Goto, Return
<1>27. CASE UNCHANGED vars
  BY <1>27 DEF vars, threads
<1> HIDE DEF Clean, Empty, Named, Owned, Shape, Owning, Accepts, Fresh, slots,
      ids, Thread
<1> QED
  BY <1>1, <1>2, <1>3, <1>4, <1>5, <1>6, <1>7, <1>8, <1>9, <1>10, <1>11,
     <1>12, <1>13, <1>14, <1>15, <1>16, <1>17, <1>18, <1>19, <1>20, <1>21,
     <1>22, <1>23, <1>24, <1>25, <1>26, <1>27 DEF Next, Accepting, Using,
     Completing, Closing

(* Every step keeps foreign packets out of the send buffers.                *)
LEMMA NoForeignPacketStep == IInv /\ [Next]_vars => NoForeignPacket'
<1> SUFFICES ASSUME IInv, [Next]_vars PROVE NoForeignPacket'
  OBVIOUS
<1> USE DEF IInv, TypeOK, NoForeignPacket, Clean, Empty, Shape, slots, ids,
      Thread
<1>1. ASSUME Accept PROVE NoForeignPacket'
  BY <1>1, SessionPoolAssumption DEF Accept, Goto
<1>2. ASSUME InitCount PROVE NoForeignPacket'
  BY <1>2, SessionPoolAssumption DEF InitCount, Goto
<1>3. ASSUME InitUnlock PROVE NoForeignPacket'
  BY <1>3, SessionPoolAssumption DEF InitUnlock, Goto
<1>4. ASSUME SetID PROVE NoForeignPacket'
  BY <1>4, SessionPoolAssumption DEF SetID, Goto
<1>5. ASSUME OnAccept PROVE NoForeignPacket'
  BY <1>5, SessionPoolAssumption DEF OnAccept, Goto
<1>6. ASSUME FirstRecv PROVE NoForeignPacket'
  BY <1>6, SessionPoolAssumption DEF FirstRecv, Goto, Post
<1>7. ASSUME NEW t \in Worker, NEW k \in Id, NEW f \in {"send", "abort"},
             Call(t, k, f)
      PROVE  NoForeignPacket'
  BY <1>7, SessionPoolAssumption DEF Call, Goto
<1>8. ASSUME NEW t \in Worker, NEW i \in Index,
             Scan(t, i)
      PROVE  NoForeignPacket'
  BY <1>8, SessionPoolAssumption DEF Scan, Goto
<1>9. ASSUME NEW t \in Worker, Peek(t) PROVE NoForeignPacket'
  BY <1>9, SessionPoolAssumption DEF Peek, Goto, Return
<1>10. ASSUME NEW t \in Worker, Pin(t) PROVE NoForeignPacket'
  BY <1>10, SessionPoolAssumption DEF Pin, Goto
<1>11. ASSUME NEW t \in Worker, CheckFlag(t) PROVE NoForeignPacket'
  BY <1>11, SessionPoolAssumption DEF CheckFlag, Goto, Released
<1>12. ASSUME NEW t \in Worker, CheckId(t) PROVE NoForeignPacket'
  BY <1>12, SessionPoolAssumption DEF CheckId, Goto, Matches
<1>13. ASSUME NEW t \in Worker, Enqueue(t) PROVE NoForeignPacket'
  <2>1. cur[t] \in Index /\ t \in Thread /\ sid[cur[t]] = arg[t]
        /\ arg[t] \in Id
    BY <1>13 DEF Enqueue, Shape, Named, Thread, InCall
  <2>2. arg[t] # Cleared
    BY <2>1 DEF Id, Cleared
  <2> QED
    BY <1>13, <2>1, <2>2 DEF Enqueue, Goto, NoForeignPacket, ids
<1>14. ASSUME NEW t \in Worker, MarkForDeletion(t) PROVE NoForeignPacket'
  BY <1>14, SessionPoolAssumption DEF MarkForDeletion, Goto
<1>15. ASSUME NEW t \in Worker, TrySend(t) PROVE NoForeignPacket'
  BY <1>15, SessionPoolAssumption DEF TrySend, Goto, Post
<1>16. ASSUME NEW t \in Worker, NothingToSend(t) PROVE NoForeignPacket'
  BY <1>16, SessionPoolAssumption DEF NothingToSend, Goto
<1>17. ASSUME NEW t \in Worker, NEW i \in Index, NEW kind \in IoKind,
              CompleteBad(t, i, kind)
       PROVE  NoForeignPacket'
  BY <1>17, SessionPoolAssumption DEF CompleteBad, Goto
<1>18. ASSUME NEW t \in Worker, NEW i \in Index,
              CompleteSend(t, i)
       PROVE  NoForeignPacket'
  BY <1>18, SessionPoolAssumption DEF CompleteSend, Goto
<1>19. ASSUME NEW t \in Worker, NEW i \in Index,
              CompleteRecv(t, i)
       PROVE  NoForeignPacket'
  BY <1>19, SessionPoolAssumption DEF CompleteRecv, Goto
<1>20. ASSUME NEW t \in Worker, FinishRecv(t) PROVE NoForeignPacket'
  BY <1>20, SessionPoolAssumption DEF FinishRecv, Goto, Post
<1>21. ASSUME NEW t \in Worker, BadPacket(t) PROVE NoForeignPacket'
  BY <1>21, SessionPoolAssumption DEF BadPacket, Goto
<1>22. ASSUME NEW t \in Thread, Release(t) PROVE NoForeignPacket'
  BY <1>22, SessionPoolAssumption DEF Release, Goto, Return
<1>23. ASSUME NEW t \in Thread, TryClose(t) PROVE NoForeignPacket'
  BY <1>23, SessionPoolAssumption DEF TryClose, Goto, Return, Closable
<1>24. ASSUME NEW t \in Thread, OnDisconnect(t) PROVE NoForeignPacket'
  BY <1>24, SessionPoolAssumption DEF OnDisconnect, Goto
<1>25. ASSUME NEW t \in Thread, Clear(t) PROVE NoForeignPacket'
  BY <1>25, SessionPoolAssumption DEF Clear, Goto
<1>26. ASSUME NEW t \in Thread, Push(t) PROVE NoForeignPacket'
  BY <1>26, SessionPoolAssumption DEF Push, Goto, Return
<1>27. CASE UNCHANGED vars
  BY <1>27 DEF vars, threads
<1> QED
  BY <1>1, <1>2, <1>3, <1>4, <1>5, <1>6, <1>7, <1>8, <1>9, <1>10, <1>11,
     <1>12, <1>13, <1>14, <1>15, <1>16, <1>17, <1>18, <1>19, <1>20, <1>21,
     <1>22, <1>23, <1>24, <1>25, <1>26, <1>27 DEF Next, Accepting, Using,
     Completing, Closing

(* Every step keeps each mark owed to a request for that very session.      *)
LEMMA NoForeignAbortStep == IInv /\ [Next]_vars => NoForeignAbort'
<1> SUFFICES ASSUME IInv, [Next]_vars PROVE NoForeignAbort'
  OBVIOUS
<1> USE DEF IInv, TypeOK, NoForeignAbort, Clean, Empty, Named, Shape, Fresh,
      Owning, slots, ids, Thread
<1>1. ASSUME Accept PROVE NoForeignAbort'
  BY <1>1, SessionPoolAssumption DEF Accept, Goto
<1>2. ASSUME InitCount PROVE NoForeignAbort'
  BY <1>2, SessionPoolAssumption DEF InitCount, Goto
<1>3. ASSUME InitUnlock PROVE NoForeignAbort'
  BY <1>3, SessionPoolAssumption DEF InitUnlock, Goto
<1>4. ASSUME SetID PROVE NoForeignAbort'
  BY <1>4, SessionPoolAssumption DEF SetID, Goto
<1>5. ASSUME OnAccept PROVE NoForeignAbort'
  BY <1>5, SessionPoolAssumption DEF OnAccept, Goto
<1>6. ASSUME FirstRecv PROVE NoForeignAbort'
  BY <1>6, SessionPoolAssumption DEF FirstRecv, Goto, Post
<1>7. ASSUME NEW t \in Worker, NEW k \in Id, NEW f \in {"send", "abort"},
             Call(t, k, f)
      PROVE  NoForeignAbort'
  BY <1>7, SessionPoolAssumption DEF Call, Goto
<1>8. ASSUME NEW t \in Worker, NEW i \in Index,
             Scan(t, i)
      PROVE  NoForeignAbort'
  BY <1>8, SessionPoolAssumption DEF Scan, Goto
<1>9. ASSUME NEW t \in Worker, Peek(t) PROVE NoForeignAbort'
  BY <1>9, SessionPoolAssumption DEF Peek, Goto, Return
<1>10. ASSUME NEW t \in Worker, Pin(t) PROVE NoForeignAbort'
  BY <1>10, SessionPoolAssumption DEF Pin, Goto
<1>11. ASSUME NEW t \in Worker, CheckFlag(t) PROVE NoForeignAbort'
  BY <1>11, SessionPoolAssumption DEF CheckFlag, Goto, Released
<1>12. ASSUME NEW t \in Worker, CheckId(t) PROVE NoForeignAbort'
  BY <1>12, SessionPoolAssumption DEF CheckId, Goto, Matches
<1>13. ASSUME NEW t \in Worker, Enqueue(t) PROVE NoForeignAbort'
  BY <1>13, SessionPoolAssumption DEF Enqueue, Goto
<1>14. ASSUME NEW t \in Worker, MarkForDeletion(t) PROVE NoForeignAbort'
  BY <1>14, SessionPoolAssumption DEF MarkForDeletion, Goto
<1>15. ASSUME NEW t \in Worker, TrySend(t) PROVE NoForeignAbort'
  BY <1>15, SessionPoolAssumption DEF TrySend, Goto, Post
<1>16. ASSUME NEW t \in Worker, NothingToSend(t) PROVE NoForeignAbort'
  BY <1>16, SessionPoolAssumption DEF NothingToSend, Goto
<1>17. ASSUME NEW t \in Worker, NEW i \in Index, NEW kind \in IoKind,
              CompleteBad(t, i, kind)
       PROVE  NoForeignAbort'
  BY <1>17, SessionPoolAssumption DEF CompleteBad, Goto
<1>18. ASSUME NEW t \in Worker, NEW i \in Index,
              CompleteSend(t, i)
       PROVE  NoForeignAbort'
  BY <1>18, SessionPoolAssumption DEF CompleteSend, Goto
<1>19. ASSUME NEW t \in Worker, NEW i \in Index,
              CompleteRecv(t, i)
       PROVE  NoForeignAbort'
  BY <1>19, SessionPoolAssumption DEF CompleteRecv, Goto
<1>20. ASSUME NEW t \in Worker, FinishRecv(t) PROVE NoForeignAbort'
  BY <1>20, SessionPoolAssumption DEF FinishRecv, Goto, Post
<1>21. ASSUME NEW t \in Worker, BadPacket(t) PROVE NoForeignAbort'
  BY <1>21, SessionPoolAssumption DEF BadPacket, Goto
<1>22. ASSUME NEW t \in Thread, Release(t) PROVE NoForeignAbort'
  BY <1>22, SessionPoolAssumption DEF Release, Goto, Return
<1>23. ASSUME NEW t \in Thread, TryClose(t) PROVE NoForeignAbort'
  BY <1>23, SessionPoolAssumption DEF TryClose, Goto, Return, Closable
<1>24. ASSUME NEW t \in Thread, OnDisconnect(t) PROVE NoForeignAbort'
  BY <1>24, SessionPoolAssumption DEF OnDisconnect, Goto
<1>25. ASSUME NEW t \in Thread, Clear(t) PROVE NoForeignAbort'
  BY <1>25, SessionPoolAssumption DEF Clear, Goto
<1>26. ASSUME NEW t \in Thread, Push(t) PROVE NoForeignAbort'
  BY <1>26, SessionPoolAssumption DEF Push, Goto, Return
<1>27. CASE UNCHANGED vars
  BY <1>27 DEF vars, threads
<1> QED
  BY <1>1, <1>2, <1>3, <1>4, <1>5, <1>6, <1>7, <1>8, <1>9, <1>10, <1>11,
     <1>12, <1>13, <1>14, <1>15, <1>16, <1>17, <1>18, <1>19, <1>20, <1>21,
     <1>22, <1>23, <1>24, <1>25, <1>26, <1>27 DEF Next, Accepting, Using,
     Completing, Closing

(* Every step that leaves ioCount at zero on an open slot leaves a thread   *)
(* before the compare-and-swap.                                             *)
LEMMA NoOrphanStep == IInv /\ [Next]_vars => NoOrphan'
<1> SUFFICES ASSUME IInv, [Next]_vars PROVE NoOrphan'
  OBVIOUS
<1> USE DEF IInv, TypeOK, NoOrphan, Owned, Shape, Owning, slots, ids, Thread
<1>1. ASSUME Accept PROVE NoOrphan'
  BY <1>1, SessionPoolAssumption DEF Accept, Goto
<1>2. ASSUME InitCount PROVE NoOrphan'
  BY <1>2, SessionPoolAssumption DEF InitCount, Goto
<1>3. ASSUME InitUnlock PROVE NoOrphan'
  <2>1. /\ Acceptor \in Thread
        /\ cur[Acceptor] \in Index
        /\ io[cur[Acceptor]] >= 1
    BY <1>3, CallerCounts DEF InitUnlock, Thread, Shape, Pinned
  <2> QED
    BY <1>3, <2>1 DEF InitUnlock, Goto, NoOrphan, ids
<1>4. ASSUME SetID PROVE NoOrphan'
  BY <1>4, SessionPoolAssumption DEF SetID, Goto
<1>5. ASSUME OnAccept PROVE NoOrphan'
  BY <1>5, SessionPoolAssumption DEF OnAccept, Goto
<1>6. ASSUME FirstRecv PROVE NoOrphan'
  BY <1>6, SessionPoolAssumption DEF FirstRecv, Goto, Post
<1>7. ASSUME NEW t \in Worker, NEW k \in Id, NEW f \in {"send", "abort"},
             Call(t, k, f)
      PROVE  NoOrphan'
  BY <1>7, SessionPoolAssumption DEF Call, Goto
<1>8. ASSUME NEW t \in Worker, NEW i \in Index, Scan(t, i) PROVE NoOrphan'
  BY <1>8, SessionPoolAssumption DEF Scan, Goto
<1>9. ASSUME NEW t \in Worker, Peek(t) PROVE NoOrphan'
  BY <1>9, SessionPoolAssumption DEF Peek, Goto, Return
<1>10. ASSUME NEW t \in Worker, Pin(t) PROVE NoOrphan'
  BY <1>10, SessionPoolAssumption DEF Pin, Goto
<1>11. ASSUME NEW t \in Worker, CheckFlag(t) PROVE NoOrphan'
  BY <1>11, SessionPoolAssumption DEF CheckFlag, Goto, Released
<1>12. ASSUME NEW t \in Worker, CheckId(t) PROVE NoOrphan'
  BY <1>12, SessionPoolAssumption DEF CheckId, Goto, Matches
<1>13. ASSUME NEW t \in Worker, Enqueue(t) PROVE NoOrphan'
  BY <1>13, SessionPoolAssumption DEF Enqueue, Goto
<1>14. ASSUME NEW t \in Worker, MarkForDeletion(t) PROVE NoOrphan'
  BY <1>14, SessionPoolAssumption DEF MarkForDeletion, Goto
<1>15. ASSUME NEW t \in Worker, TrySend(t) PROVE NoOrphan'
  BY <1>15, SessionPoolAssumption DEF TrySend, Goto, Post
<1>16. ASSUME NEW t \in Worker, NothingToSend(t) PROVE NoOrphan'
  BY <1>16, SessionPoolAssumption DEF NothingToSend, Goto
<1>17. ASSUME NEW t \in Worker, NEW i \in Index, NEW kind \in IoKind,
              CompleteBad(t, i, kind)
       PROVE  NoOrphan'
  BY <1>17, SessionPoolAssumption DEF CompleteBad, Goto
<1>18. ASSUME NEW t \in Worker, NEW i \in Index,
              CompleteSend(t, i)
       PROVE  NoOrphan'
  BY <1>18, SessionPoolAssumption DEF CompleteSend, Goto
<1>19. ASSUME NEW t \in Worker, NEW i \in Index,
              CompleteRecv(t, i)
       PROVE  NoOrphan'
  BY <1>19, SessionPoolAssumption DEF CompleteRecv, Goto
<1>20. ASSUME NEW t \in Worker, FinishRecv(t) PROVE NoOrphan'
  BY <1>20, SessionPoolAssumption DEF FinishRecv, Goto, Post
<1>21. ASSUME NEW t \in Worker, BadPacket(t) PROVE NoOrphan'
  BY <1>21, SessionPoolAssumption DEF BadPacket, Goto
<1>22. ASSUME NEW t \in Thread, Release(t) PROVE NoOrphan'
  <2>1. cur[t] \in Index
    BY <1>22 DEF Release, Shape
  <2>2. CASE io[cur[t]] = 1
    <3>1. pc' = [pc EXCEPT ![t] = "close"] /\ cur' = cur
      BY <1>22, <2>2 DEF Release, Goto
    <3> QED
      BY <1>22, <2>1, <3>1 DEF Release, NoOrphan
  <2>3. CASE io[cur[t]] # 1
    <3>1. io'[cur[t]] # 0
      BY <1>22, <2>1, <2>3 DEF Release
    <3>2. \A u \in Thread : u # t => pc'[u] = pc[u] /\ cur'[u] = cur[u]
      BY <1>22, <2>3 DEF Release, Return, Goto
    <3> QED
      BY <1>22, <2>1, <3>1, <3>2 DEF Release, NoOrphan
  <2> QED
    BY <2>2, <2>3
<1>23. ASSUME NEW t \in Thread, TryClose(t) PROVE NoOrphan'
  <2>1. cur[t] \in Index
    BY <1>23 DEF TryClose, Shape
  <2>2. flag'[cur[t]] = 0 => io[cur[t]] # 0
    BY <1>23, <2>1 DEF TryClose, Closable
  <2>3. \A u \in Thread : u # t => pc'[u] = pc[u] /\ cur'[u] = cur[u]
    BY <1>23 DEF TryClose, Return, Goto
  <2>4. \A i \in Index : i # cur[t] => flag'[i] = flag[i]
    BY <1>23 DEF TryClose
  <2> QED
    BY <1>23, <2>1, <2>2, <2>3, <2>4 DEF TryClose, NoOrphan
<1>24. ASSUME NEW t \in Thread, OnDisconnect(t) PROVE NoOrphan'
  BY <1>24, SessionPoolAssumption DEF OnDisconnect, Goto
<1>25. ASSUME NEW t \in Thread, Clear(t) PROVE NoOrphan'
  BY <1>25, SessionPoolAssumption DEF Clear, Goto
<1>26. ASSUME NEW t \in Thread, Push(t) PROVE NoOrphan'
  BY <1>26, SessionPoolAssumption DEF Push, Goto, Return
<1>27. CASE UNCHANGED vars
  BY <1>27 DEF vars, threads
<1> QED
  BY <1>1, <1>2, <1>3, <1>4, <1>5, <1>6, <1>7, <1>8, <1>9, <1>10, <1>11,
     <1>12, <1>13, <1>14, <1>15, <1>16, <1>17, <1>18, <1>19, <1>20, <1>21,
     <1>22, <1>23, <1>24, <1>25, <1>26, <1>27 DEF Next, Accepting, Using,
     Completing, Closing

-----------------------------------------------------------------------------
(* The theorems *)

(* The inductive invariant holds of the initial state ...                   *)
LEMMA InitInv == Init => IInv
<1> SUFFICES ASSUME Init PROVE IInv
  OBVIOUS
<1>1. TypeOK
  BY SessionPoolAssumption
     DEF Init, TypeOK, Id, Cleared, Place, IoKind, Thread
<1>2. Shape
  BY SessionPoolAssumption DEF Init, Shape, Thread, InCall, Accepts, Owning
<1>3. Counted
  <2> SUFFICES ASSUME NEW i \in Index PROVE Covered(i)
    BY DEF Counted
  <2>1. Callers(i) = {} /\ Handlers(i) = {} /\ posted[i] = {}
    BY SessionPoolAssumption DEF Init, Callers, Handlers, Pinned
  <2>2. Cardinality(Callers(i)) = 0 /\ Cardinality(Handlers(i)) = 0
        /\ Cardinality(posted[i]) = 0 /\ io[i] = 0
    BY <2>1, FS_EmptySet DEF Init
  <2> QED
    BY <2>2 DEF Covered
<1>4. Owned
  BY SessionPoolAssumption DEF Init, Owned, Owning, Thread
<1>5. Named
  BY DEF Init, Named, Fresh, Thread
<1>6. Clean
  BY DEF Init, Clean, Empty, Fresh, Thread
<1>7. NoForeignPacket /\ NoForeignAbort /\ NoOrphan
  BY DEF Init, NoForeignPacket, NoForeignAbort, NoOrphan
<1> QED
  BY <1>1, <1>2, <1>3, <1>4, <1>5, <1>6, <1>7 DEF IInv

(* ... and every step keeps it.                                             *)
LEMMA NextInv == IInv /\ [Next]_vars => IInv'
  BY TypeStep, CountStep, ShapeStep, OwnedStep, NamedStep, CleanStep,
     NoForeignPacketStep, NoForeignAbortStep, NoOrphanStep DEF IInv

(* So it is an invariant of the pool.                                       *)
THEOREM Invariance == Spec => []IInv
  BY InitInv, NextInv, PTL DEF Spec

(* Every variable keeps its type, so DecrementSessionIoCount never meets    *)
(* the negative ioCount it breaks into the debugger for.                    *)
THEOREM TypeCorrect == Spec => []TypeOK
<1>1. IInv => TypeOK
  BY DEF IInv
<1> QED
  BY <1>1, Invariance, PTL

(* No slot is taken away from under a thread that uses it.                  *)
THEOREM UseIsSafe == Spec => []InUseStaysOpen
<1>1. IInv => InUseStaysOpen
  BY SessionPoolAssumption DEF IInv, InUseStaysOpen, Owned, Named, Handlers
<1> QED
  BY <1>1, Invariance, PTL

(* _OnMessage is only called between _OnAccept and _OnDisConnect.           *)
THEOREM MessagesAreInOrder == Spec => []MessagesOnlyWhileOpen
<1>1. IInv => MessagesOnlyWhileOpen
  <2> SUFFICES ASSUME IInv, NEW t \in Worker, base[t] # NoIndex
               PROVE  sid[base[t]] \in Id /\ life[sid[base[t]]] = "open"
    BY DEF MessagesOnlyWhileOpen
  <2>1. t \in Thread /\ base[t] \in Index /\ flag[base[t]] = 0
    BY DEF IInv, TypeOK, Owned, Thread
  <2>2. ~(pc[Acceptor] \in {"setid", "onaccept"} /\ cur[Acceptor] = base[t])
    BY <2>1 DEF IInv, Clean, Fresh
  <2> QED
    BY <2>1, <2>2 DEF IInv, Named
<1> QED
  BY <1>1, Invariance, PTL

(* No packet waits on a connection it was not meant for.                    *)
THEOREM PacketsStayHome == Spec => []NoForeignPacket
<1>1. IInv => NoForeignPacket
  BY DEF IInv
<1> QED
  BY <1>1, Invariance, PTL

(* No session is aborted in place of another.                               *)
THEOREM AbortsStayHome == Spec => []NoForeignAbort
<1>1. IInv => NoForeignAbort
  BY DEF IInv
<1> QED
  BY <1>1, Invariance, PTL

(* No index ever has two owners.                                            *)
THEOREM SlotsHaveOneOwner == Spec => []OneOwnerPerSlot
<1>1. IInv => OneOwnerPerSlot
  BY DEF IInv, Owned, OneOwnerPerSlot, TypeOK
<1> QED
  BY <1>1, Invariance, PTL

(* Whenever ioCount is zero on an open slot, somebody is about to close it. *)
THEOREM NobodyIsForgotten == Spec => []NoOrphan
<1>1. IInv => NoOrphan
  BY DEF IInv
<1> QED
  BY <1>1, Invariance, PTL

-----------------------------------------------------------------------------
(* The pool implements SessionContract *)

(* A step that touches neither life, nor slot, nor a send buffer is not     *)
(* seen by the contents.                                                    *)
LEMMA Unseen ==
    ASSUME UNCHANGED <<life, slot, sendBuf>>
    PROVE  UNCHANGED Contract!vars
  BY DEF Contract!vars

(* The slot of an open session is that session's alone.                     *)
LEMMA OpenSlots ==
    ASSUME IInv, NEW k \in Id, life[k] = "open"
    PROVE  slot[k] \in Index /\ sid[slot[k]] = k
  BY DEF IInv, Named

(* A slot with an operation in flight holds an open session, and so does    *)
(* one whose user passed both checks of SendPacket.                         *)
LEMMA InUseIsOpen ==
    ASSUME IInv, NEW i \in Index, flag[i] = 0,
           posted[i] # {} \/ \E k \in Id : sid[i] = k /\ life[k] # "none"
    PROVE  sid[i] \in Id /\ life[sid[i]] = "open" /\ slot[sid[i]] = i
  <1>1. ~(pc[Acceptor] \in {"setid", "onaccept"} /\ cur[Acceptor] = i)
    BY DEF IInv, Clean, Fresh, Named, Empty, Id, Cleared, Thread
  <1> QED
    BY <1>1 DEF IInv, Named

LEMMA ContractStep == IInv /\ [Next]_vars => [Contract!Next]_(Contract!vars)
<1> SUFFICES ASSUME IInv, [Next]_vars PROVE [Contract!Next]_(Contract!vars)
  OBVIOUS
<1>1. CASE Accept
  <2>1. PICK i \in free : slot' = [slot EXCEPT ![nextId] = i]
    BY <1>1 DEF Accept
  <2>2. life[nextId] = "none" /\ nextId \in Id
    BY <1>1 DEF Accept, IInv, TypeOK, Named
  <2>3. \A k \in Id : life[k] # "none" => slot'[k] = slot[k]
    BY <2>1, <2>2 DEF IInv, TypeOK
  <2>4. life' = life /\ sendBuf' = sendBuf
    BY <1>1 DEF Accept, slots
  <2> QED
    BY <2>3, <2>4 DEF Contract!vars
<1>2. CASE OnAccept
  <2>1. PICK i \in Index, k \in Id : i = cur[Acceptor] /\ k = arg[Acceptor]
    BY <1>2 DEF OnAccept, IInv, Shape, Named, Fresh, Thread
  <2>2. life[k] = "none" /\ slot[k] = i /\ sid[i] = k /\ sendBuf[i] = {}
    BY <1>2, <2>1 DEF OnAccept, IInv, Named, Clean, Fresh
  <2>3. /\ life' = [life EXCEPT ![k] = "open"]
        /\ slot' = slot /\ sendBuf' = sendBuf
    BY <1>2, <2>1, <2>2 DEF OnAccept, slots
  <2>4. \A other \in Id : life[other] = "open" => slot[other] # i
    BY <2>2, OpenSlots
  <2>5. \A other \in Id : other # k => life'[other] = life[other]
    BY <2>3 DEF IInv, TypeOK
  <2>6. life'[k] = "open"
    BY <2>3 DEF IInv, TypeOK
  <2>7. Contract!Open(k, i)
    BY <2>2, <2>3, <2>4, <2>5, <2>6 DEF Contract!Open, Contract!Id, Id
  <2> QED
    BY <2>7 DEF Contract!Next, Contract!Id, Id
<1>3. ASSUME NEW t \in Worker, Enqueue(t) PROVE Contract!Next
  <2>1. PICK k \in Id : k = arg[t]
    BY <1>3 DEF Enqueue, IInv, Shape, Thread, InCall
  <2>2. /\ cur[t] \in Index /\ sid[cur[t]] = k
        /\ flag[cur[t]] = 0 /\ life[k] # "none"
    BY <1>3, <2>1 DEF Enqueue, IInv, Shape, Owned, Named, Thread, InCall
  <2>3. life[k] = "open" /\ slot[k] = cur[t]
    BY <2>2, InUseIsOpen
  <2>4. /\ sendBuf' = [sendBuf EXCEPT ![slot[k]] = @ \cup {k}]
        /\ life' = life /\ slot' = slot
    BY <1>3, <2>1, <2>3 DEF Enqueue, ids
  <2>5. sendBuf'[slot[k]] = sendBuf[slot[k]] \cup {k}
    BY <2>2, <2>3, <2>4 DEF IInv, TypeOK
  <2>6. \A other \in Id : life[other] = "open" /\ other # k =>
          sendBuf'[slot[other]] = sendBuf[slot[other]]
    <3>1. \A other \in Id : life[other] = "open" /\ other # k =>
            slot[other] \in Index /\ slot[other] # slot[k]
      BY <2>3, OpenSlots
    <3> QED
      BY <2>4, <3>1 DEF IInv, TypeOK
  <2>7. Contract!Queue(k)
    BY <2>3, <2>4, <2>5, <2>6 DEF Contract!Queue, Contract!Id, Id
  <2> QED
    BY <2>7 DEF Contract!Next, Contract!Id, Id
<1>4. ASSUME NEW t \in Worker, NEW i \in Index, CompleteSend(t, i)
      PROVE  [Contract!Next]_(Contract!vars)
  <2>1. life' = life /\ slot' = slot
    BY <1>4 DEF CompleteSend, ids
  <2>2. CASE UNCHANGED sendBuf
    BY <2>1, <2>2, Unseen
  <2>3. CASE sendBuf' = [sendBuf EXCEPT ![i] = {}]
    <3>1. sid[i] \in Id /\ life[sid[i]] = "open" /\ slot[sid[i]] = i
      BY <1>4, InUseIsOpen DEF CompleteSend, IInv, Owned
    <3>2. PICK k \in Id : k = sid[i] /\ life[k] = "open" /\ slot[k] = i
      BY <3>1
    <3>3. sendBuf'[i] = {}
      BY <2>3 DEF IInv, TypeOK
    <3>4. \A other \in Id : life[other] = "open" /\ other # k =>
            sendBuf'[slot[other]] = sendBuf[slot[other]]
      <4>1. \A other \in Id : life[other] = "open" /\ other # k =>
              slot[other] \in Index /\ slot[other] # i
        BY <3>2, OpenSlots
      <4> QED
        BY <2>3, <4>1 DEF IInv, TypeOK
    <3>5. Contract!Sent(k)
      BY <2>1, <3>2, <3>3, <3>4 DEF Contract!Sent, Contract!Id, Id
    <3> QED
      BY <3>5 DEF Contract!Next, Contract!Id, Id
  <2> QED
    BY <1>4, <2>2, <2>3 DEF CompleteSend
<1>5. ASSUME NEW t \in Thread, OnDisconnect(t) PROVE Contract!Next
  <2>1. sid[cur[t]] \in Id /\ life[sid[cur[t]]] = "open"
    BY <1>5 DEF OnDisconnect, IInv, Named
  <2>2. PICK k \in Id : k = sid[cur[t]] /\ life[k] = "open"
    BY <2>1
  <2>3. /\ life' = [life EXCEPT ![k] = "gone"]
        /\ slot' = slot /\ sendBuf' = sendBuf
    BY <1>5, <2>2 DEF OnDisconnect, slots
  <2>4. \A other \in Id : other # k => life'[other] = life[other]
    BY <2>3 DEF IInv, TypeOK
  <2>5. life'[k] = "gone"
    BY <2>3 DEF IInv, TypeOK
  <2>6. Contract!Close(k)
    BY <2>2, <2>3, <2>4, <2>5 DEF Contract!Close, Contract!Id, Id
  <2> QED
    BY <2>6 DEF Contract!Next, Contract!Id, Id
<1>6. ASSUME NEW t \in Thread, Clear(t) PROVE UNCHANGED Contract!vars
  <2>1. /\ sendBuf' = [sendBuf EXCEPT ![cur[t]] = {}]
        /\ life' = life /\ slot' = slot
    BY <1>6 DEF Clear, ids
  <2>2. cur[t] \in Index /\ life[sid[cur[t]]] = "gone"
    BY <1>6 DEF Clear, IInv, Shape, Named
  <2>3. \A k \in Id : life[k] = "open" =>
          slot[k] \in Index /\ slot[k] # cur[t]
    BY <2>2, OpenSlots
  <2>4. \A k \in Id : life[k] = "open" => sendBuf'[slot[k]] = sendBuf[slot[k]]
    BY <2>1, <2>3 DEF IInv, TypeOK
  <2> QED
    BY <2>1, <2>4 DEF Contract!vars
<1>7. CASE InitCount \/ InitUnlock \/ SetID \/ FirstRecv
  BY <1>7, Unseen DEF InitCount, InitUnlock, SetID, FirstRecv, slots, ids
<1>8. ASSUME NEW t \in Worker,
             \/ \E k \in Id, f \in {"send", "abort"} : Call(t, k, f)
             \/ \E i \in Index : Scan(t, i)
             \/ Peek(t) \/ Pin(t) \/ CheckFlag(t) \/ CheckId(t)
             \/ MarkForDeletion(t) \/ TrySend(t) \/ NothingToSend(t)
      PROVE  UNCHANGED Contract!vars
  BY <1>8, Unseen DEF Call, Scan, Peek, Pin, CheckFlag, CheckId,
     MarkForDeletion, TrySend, NothingToSend, slots, ids
<1>9. ASSUME NEW t \in Worker,
             \/ \E i \in Index :
                 \/ \E kind \in IoKind : CompleteBad(t, i, kind)
                 \/ CompleteRecv(t, i)
             \/ FinishRecv(t)
             \/ BadPacket(t)
      PROVE  UNCHANGED Contract!vars
  BY <1>9, Unseen DEF CompleteBad, CompleteRecv, FinishRecv, BadPacket,
     slots, ids
<1>10. ASSUME NEW t \in Thread, Release(t) \/ TryClose(t) \/ Push(t)
       PROVE  UNCHANGED Contract!vars
  BY <1>10, Unseen DEF Release, TryClose, Push, slots, ids
<1>11. CASE UNCHANGED vars
  BY <1>11, Unseen DEF vars, slots, ids
<1> QED
  BY <1>1, <1>2, <1>3, <1>4, <1>5, <1>6, <1>7, <1>8, <1>9, <1>10, <1>11
     DEF Next, Accepting, Using, Completing, Closing

(* Whatever the threads do, the contents see the service of SessionContract. *)
THEOREM Implementation == Spec => ImplementsContract
<1>1. Init => Contract!Init
  BY DEF Init, Contract!Init, Contract!Id, Id
<1> QED
  BY <1>1, ContractStep, Invariance, PTL
     DEF Spec, ImplementsContract, Contract!Spec

=============================================================================
