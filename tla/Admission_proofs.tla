--------------------------- MODULE Admission_proofs ---------------------------
(***************************************************************************)
(* Proofs about Admission: for any length of the array and of the stack,   *)
(* any number of closers and of connections.                               *)
(*                                                                         *)
(* The argument.  Admission lets at most MaxCount - 1 sessions be there,    *)
(* being made, or being unmade with their count not yet lowered (Room); the *)
(* only other indices off the stack are those of closers, at most one each  *)
(* (Held).  The stack is some indices given back on top of an untouched     *)
(* rest k, k + 1, ... (Layout).  A pop reaches into the rest only when no   *)
(* index below k is on the stack, so when k indices are in use: k can be no *)
(* more than MaxCount - 2 plus the closers, and the stack is not empty.     *)
(***************************************************************************)
EXTENDS Admission, FiniteSetTheorems, SequenceTheorems, TLAPS

Unmakers == {t \in Worker : pc[t] \in {"uncount", "push"}}
Admitted == {m \in Maker : pc[m] \in {"pop", "open"}}

(* Which thread is in which function; the accept thread refuses no more     *)
(* than came.                                                               *)
Places ==
    /\ pc["accept"] \in {"idle", "pop", "open"}
    /\ pc["connect"] \in {"idle", "pop", "open", "takeback"}
    /\ \A t \in Worker : pc[t] \in {"idle", "uncount", "push"}
    /\ rejected <= arrived

(* An index in a maker's hands has no session yet; a session being unmade   *)
(* is in the hands of exactly one closer.                                   *)
Held ==
    /\ \A m \in InHand : session[cur[m]] = "free"
    /\ \A m, o \in InHand : cur[m] = cur[o] => m = o
    /\ \A t \in Unmakers : session[cur[t]] = "closing"
    /\ \A t, u \in Unmakers : cur[t] = cur[u] => t = u
    /\ \A i \in Index : session[i] = "closing" => \E t \in Unmakers : cur[t] = i

(* Admission keeps a place free. *)
Room ==
    Cardinality(Counted) + Cardinality(Closers) + Cardinality(Admitted)
        <= MaxCount - 1

(* Bound on how much of the stack was ever taken. *)
Reach == MaxCount - 1 + Cardinality(Worker)

(* k indices were taken from the stack so far; those of them that were      *)
(* given back, n of them, lie on top of the rest.                           *)
LaidOut(k, n) ==
    /\ Len(stack) = n + (StackSize - k)
    /\ \A p \in 1 .. Len(stack) :
        IF p <= n THEN stack[p] < k ELSE stack[p] = k + (p - n) - 1
    /\ \A p, q \in 1 .. Len(stack) : stack[p] = stack[q] => p = q
    /\ \A p \in 1 .. Len(stack) : stack[p] \notin Used
    /\ \A i \in Used : i < k
    /\ \A i \in 0 .. k - 1 : i \notin Used => \E p \in 1 .. n : stack[p] = i

Layout ==
    \E k \in 0 .. StackSize, n \in 0 .. Len(stack) :
        k <= Reach /\ LaidOut(k, n)

IInv ==
    /\ TypeOK
    /\ Places
    /\ Held
    /\ CountAccounts
    /\ Room
    /\ Layout

-----------------------------------------------------------------------------
(* Sizes *)

(* One element more, one less; an image is no larger than its domain.       *)
LEMMA Grown ==
    ASSUME NEW S, IsFiniteSet(S), NEW x, x \notin S, NEW T, T = S \cup {x}
    PROVE  Cardinality(T) = Cardinality(S) + 1
  BY FS_AddElement

LEMMA Shrunk ==
    ASSUME NEW S, IsFiniteSet(S), NEW x \in S, NEW T, T = S \ {x}
    PROVE  Cardinality(T) = Cardinality(S) - 1
  BY FS_RemoveElement

LEMMA UnionSize ==
    ASSUME NEW S, IsFiniteSet(S), NEW T, IsFiniteSet(T)
    PROVE  /\ IsFiniteSet(S \cup T)
           /\ Cardinality(S \cup T) \in Nat
           /\ Cardinality(S \cup T) <= Cardinality(S) + Cardinality(T)
  <1>1. /\ IsFiniteSet(S \cup T)
        /\ Cardinality(S \cup T) =
             Cardinality(S) + Cardinality(T) - Cardinality(S \cap T)
    BY FS_Union
  <1>2. IsFiniteSet(S \cap T)
    BY FS_Subset
  <1>3. /\ Cardinality(S) \in Nat /\ Cardinality(T) \in Nat
        /\ Cardinality(S \cap T) \in Nat
    BY <1>2, FS_CardinalityType
  <1>4. Cardinality(S \cup T) \in Nat
    BY <1>1, FS_CardinalityType
  <1> QED
    BY <1>1, <1>3, <1>4

LEMMA ImageSize ==
    ASSUME NEW f, NEW S, IsFiniteSet(S)
    PROVE  LET T == {f[x] : x \in S} IN
           IsFiniteSet(T) /\ Cardinality(T) <= Cardinality(S)
  <1> DEFINE T == {f[x] : x \in S}
             g == [x \in S |-> f[x]]
  <1>1. g \in Surjection(S, T)
    <2>1. g \in [S -> T]
      OBVIOUS
    <2>2. \A y \in T : \E x \in S : g[x] = y
      OBVIOUS
    <2> QED
      BY <2>1, <2>2 DEF Surjection
  <1> HIDE DEF g, T
  <1>2. IsFiniteSet(T) /\ Cardinality(T) <= Cardinality(S)
    BY <1>1, FS_Surjection
  <1> QED
    BY <1>2 DEF T

(* All the groups that are counted are finite, before and after a step.     *)
LEMMA MakerFinite == IsFiniteSet(Maker)
  <1>1. IsFiniteSet({"accept"}) /\ IsFiniteSet({"connect"})
    BY FS_Singleton
  <1>2. Maker = {"accept"} \cup {"connect"}
    BY DEF Maker
  <1> QED
    BY <1>1, <1>2, UnionSize

LEMMA GroupsFinite ==
    /\ IsFiniteSet(Counted) /\ IsFiniteSet(Counted')
    /\ IsFiniteSet(Closers) /\ IsFiniteSet(Closers')
    /\ IsFiniteSet(Unmakers)
    /\ IsFiniteSet(Makers) /\ IsFiniteSet(Makers')
    /\ IsFiniteSet(Admitted) /\ IsFiniteSet(Admitted')
    /\ IsFiniteSet(InHand)
  <1>1. IsFiniteSet(Index)
    BY AdmissionAssumption, FS_Interval DEF Index
  <1>2. Counted \subseteq Index /\ Counted' \subseteq Index
    BY DEF Counted
  <1>3. /\ Closers \subseteq Worker /\ Closers' \subseteq Worker
        /\ Unmakers \subseteq Worker
    BY DEF Closers, Unmakers
  <1>4. /\ Makers \subseteq Maker /\ Makers' \subseteq Maker
        /\ Admitted \subseteq Maker /\ Admitted' \subseteq Maker
        /\ InHand \subseteq Maker
    BY DEF Makers, Admitted, InHand
  <1> QED
    BY <1>1, <1>2, <1>3, <1>4, FS_Subset, MakerFinite, AdmissionAssumption

LEMMA GroupSizes ==
    /\ Cardinality(Counted) \in Nat /\ Cardinality(Counted') \in Nat
    /\ Cardinality(Closers) \in Nat /\ Cardinality(Closers') \in Nat
    /\ Cardinality(Unmakers) \in Nat
    /\ Cardinality(Makers) \in Nat /\ Cardinality(Makers') \in Nat
    /\ Cardinality(Admitted) \in Nat /\ Cardinality(Admitted') \in Nat
    /\ Cardinality(InHand) \in Nat
    /\ Cardinality(Worker) \in Nat
  BY GroupsFinite, FS_CardinalityType, AdmissionAssumption

(* What is in use: the sessions there, one index for every thread unmaking  *)
(* one, one for every maker that has popped.                                *)
LEMMA UsedSize ==
    ASSUME TypeOK, Held
    PROVE  /\ IsFiniteSet(Used)
           /\ Cardinality(Used) <= Cardinality(Counted)
                                   + Cardinality(Unmakers)
                                   + Cardinality(InHand)
  <1> DEFINE A == {cur[t] : t \in Unmakers}
             B == {cur[m] : m \in InHand}
  <1>1. IsFiniteSet(A) /\ Cardinality(A) <= Cardinality(Unmakers)
    BY GroupsFinite, ImageSize
  <1>2. IsFiniteSet(B) /\ Cardinality(B) <= Cardinality(InHand)
    BY GroupsFinite, ImageSize
  <1>3. Used \subseteq (Counted \cup A) \cup B
    <2>1. ASSUME NEW i \in Index, session[i] # "free"
          PROVE  i \in Counted \cup A
      <3>1. CASE session[i] = "closing"
        BY <3>1 DEF Held
      <3>2. CASE session[i] # "closing"
        BY <3>2, <2>1 DEF TypeOK, Counted
      <3> QED
        BY <3>1, <3>2
    <2> QED
      BY <2>1 DEF Used
  <1> HIDE DEF A, B
  <1>4. /\ IsFiniteSet(Counted \cup A)
        /\ Cardinality(Counted \cup A) \in Nat
        /\ Cardinality(Counted \cup A) <= Cardinality(Counted) + Cardinality(A)
    BY <1>1, GroupsFinite, UnionSize
  <1>5. /\ IsFiniteSet((Counted \cup A) \cup B)
        /\ Cardinality((Counted \cup A) \cup B) \in Nat
        /\ Cardinality((Counted \cup A) \cup B)
             <= Cardinality(Counted \cup A) + Cardinality(B)
    BY <1>2, <1>4, UnionSize
  <1>6. IsFiniteSet(Used) /\ Cardinality(Used)
                              <= Cardinality((Counted \cup A) \cup B)
    BY <1>3, <1>5, FS_Subset
  <1>7. /\ Cardinality(Used) \in Nat
        /\ Cardinality(A) \in Nat /\ Cardinality(B) \in Nat
    BY <1>1, <1>2, <1>6, FS_CardinalityType
  <1> QED
    BY <1>1, <1>2, <1>4, <1>5, <1>6, <1>7, GroupSizes

-----------------------------------------------------------------------------
(* Types and places *)

(* The maker and the closer a step is about are two threads. *)
LEMMA TwoKinds ==
    /\ "accept" \in Maker /\ "connect" \in Maker
    /\ \A m \in Maker : m \in Maker \cup Worker /\ m \notin Worker
    /\ \A t \in Worker : t \in Maker \cup Worker /\ t \notin Maker
    /\ \A m \in Maker : m = "accept" \/ m = "connect"
  BY AdmissionAssumption DEF Maker

(* The numbers go down only where there is something to take off.           *)
LEMMA TakeOff ==
    ASSUME IInv
    PROVE  /\ pc["connect"] = "takeback" => loginCount > 0
           /\ \A t \in Worker : pc[t] = "uncount" => loginCount > 0
  <1>1. ASSUME NEW S, IsFiniteSet(S), NEW x \in S
        PROVE  Cardinality(S) \in Nat /\ Cardinality(S) > 0
    BY <1>1, FS_CardinalityType, FS_EmptySet
  <1>2. pc["connect"] = "takeback" => Cardinality(Makers) > 0
    BY <1>1, GroupsFinite, TwoKinds DEF Makers
  <1>3. \A t \in Worker : pc[t] = "uncount" => Cardinality(Closers) > 0
    BY <1>1, GroupsFinite DEF Closers
  <1> QED
    BY SMTT(30), <1>2, <1>3, GroupSizes DEF IInv, CountAccounts, TypeOK

LEMMA TypesKept ==
    ASSUME IInv, [Next]_vars
    PROVE  TypeOK' /\ Places'
<1> USE TwoKinds DEF IInv
<1>1. ASSUME CountAccepted PROVE TypeOK' /\ Places'
  BY <1>1, AdmissionAssumption
  DEF CountAccepted, Goto, TypeOK, Places
<1>2. ASSUME CountConnecting PROVE TypeOK' /\ Places'
  BY <1>2, AdmissionAssumption DEF CountConnecting, Goto, TypeOK, Places
<1>3. ASSUME TakeBack PROVE TypeOK' /\ Places'
  BY <1>3, TakeOff DEF TakeBack, Goto, TypeOK, Places
<1>4. ASSUME NEW m \in Maker, Pop(m) PROVE TypeOK' /\ Places'
  <2>1. 0 \in Index
    BY AdmissionAssumption DEF Index
  <2>2. stack # <<>> => Head(stack) \in Index /\ Tail(stack) \in Seq(Index)
    BY HeadTailProperties DEF TypeOK
  <2> QED
    BY <1>4, <2>1, <2>2 DEF Pop, Goto, TypeOK, Places
<1>5. ASSUME NEW m \in Maker, Open(m) PROVE TypeOK' /\ Places'
  BY <1>5 DEF Open, Goto, TypeOK, Places
<1>6. ASSUME NEW t \in Worker, NEW i \in Index, Close(t, i)
      PROVE  TypeOK' /\ Places'
  BY <1>6 DEF Close, Goto, TypeOK, Places
<1>7. ASSUME NEW t \in Worker, Uncount(t) PROVE TypeOK' /\ Places'
  BY <1>7, TakeOff DEF Uncount, Goto, TypeOK, Places
<1>8. ASSUME NEW t \in Worker, Push(t) PROVE TypeOK' /\ Places'
  <2>1. cur[t] \in Index
    BY DEF TypeOK
  <2>2. <<cur[t]>> \o stack \in Seq(Index)
    BY <2>1, ConcatProperties DEF TypeOK
  <2> QED
    BY <1>8, <2>2 DEF Push, Goto, TypeOK, Places
<1>9. ASSUME Exit PROVE TypeOK' /\ Places'
  BY <1>9 DEF Exit, TypeOK, Places
<1>10. ASSUME DisconnectAllSessions PROVE TypeOK' /\ Places'
  BY <1>10, AdmissionAssumption DEF DisconnectAllSessions, TypeOK, Places
<1>11. ASSUME Stop PROVE TypeOK' /\ Places'
  BY <1>11 DEF Stop, TypeOK, Places
<1>12. ASSUME UNCHANGED vars PROVE TypeOK' /\ Places'
  BY <1>12 DEF vars, TypeOK, Places
<1>13. ASSUME NEW i \in Index, Lose(i) PROVE TypeOK' /\ Places'
  BY <1>13 DEF Lose, TypeOK, Places
<1> QED
  BY <1>1, <1>2, <1>3, <1>4, <1>5, <1>6, <1>7, <1>8, <1>9, <1>10, <1>11,
     <1>12, <1>13 DEF Next, Making, Unmaking, Losing, Exiting

-----------------------------------------------------------------------------
(* The count *)

(* Where no group changes, and the count and the refusals do not, both facts *)
(* about the count are kept.                                                *)
LEMMA CountStill ==
    ASSUME IInv, Counted' = Counted, Closers' = Closers, Makers' = Makers,
           Admitted' = Admitted, loginCount' = loginCount,
           rejected' = rejected
    PROVE  CountAccounts' /\ Room'
  BY DEF IInv, CountAccounts, Room

LEMMA CountKept ==
    ASSUME IInv, [Next]_vars
    PROVE  CountAccounts' /\ Room'
<1> USE TwoKinds
<1> DEFINE C == Cardinality(Counted)
           L == Cardinality(Closers)
           M == Cardinality(Makers)
           A == Cardinality(Admitted)
<1>0. /\ C \in Nat /\ L \in Nat /\ M \in Nat /\ A \in Nat
      /\ rejected \in Nat /\ loginCount \in Nat /\ MaxCount \in Nat
      /\ loginCount = C + L + M + rejected
      /\ C + L + A <= MaxCount - 1
  BY GroupSizes, AdmissionAssumption DEF IInv, TypeOK, CountAccounts, Room
<1>a. A <= M
  <2>1. Admitted \subseteq Makers
    BY DEF Admitted, Makers
  <2> QED
    BY <2>1, GroupsFinite, FS_Subset
<1>t. TypeOK /\ Places
  BY DEF IInv
<1>1. ASSUME CountAccepted PROVE CountAccounts' /\ Room'
  <2>1. Counted' = Counted /\ Closers' = Closers
    BY <1>1, <1>t DEF CountAccepted, Goto, TypeOK, Counted, Closers
  <2>2. CASE Full(loginCount')
    <3>1. Makers' = Makers /\ Admitted' = Admitted
      BY <1>1, <2>2 DEF CountAccepted, Makers, Admitted
    <3>2. loginCount' = loginCount + 1 /\ rejected' = rejected + 1
      BY <1>1, <2>2 DEF CountAccepted
    <3> QED
      BY <1>0, <2>1, <3>1, <3>2 DEF CountAccounts, Room
  <2>3. CASE ~Full(loginCount')
    <3>1. /\ "accept" \notin Makers /\ "accept" \notin Admitted
          /\ Makers' = Makers \cup {"accept"}
          /\ Admitted' = Admitted \cup {"accept"}
      BY <1>1, <1>t, <2>3 DEF CountAccepted, Goto, TypeOK, Makers, Admitted
    <3>2. Cardinality(Makers') = M + 1 /\ Cardinality(Admitted') = A + 1
      BY <3>1, GroupsFinite, Grown
    <3>3. /\ loginCount' = loginCount + 1 /\ rejected' = rejected
          /\ loginCount + 1 < MaxCount
      BY <1>0, <1>1, <2>3 DEF CountAccepted, Full
    <3> QED
      BY <1>0, <1>a, <2>1, <3>2, <3>3 DEF CountAccounts, Room
  <2> QED
    BY <2>2, <2>3
<1>2. ASSUME CountConnecting PROVE CountAccounts' /\ Room'
  <2>1. Counted' = Counted /\ Closers' = Closers
    BY <1>2, <1>t DEF CountConnecting, Goto, TypeOK, Counted, Closers
  <2>2. "connect" \notin Makers /\ Makers' = Makers \cup {"connect"}
    BY <1>2, <1>t DEF CountConnecting, Goto, TypeOK, Makers
  <2>3. Cardinality(Makers') = M + 1
    BY <2>2, GroupsFinite, Grown
  <2>4. loginCount' = loginCount + 1 /\ rejected' = rejected
    BY <1>2 DEF CountConnecting
  <2>5. CASE Full(loginCount')
    <3>1. Admitted' = Admitted
      BY <1>2, <1>t, <2>5 DEF CountConnecting, Goto, TypeOK, Admitted
    <3> QED
      BY <1>0, <2>1, <2>3, <2>4, <3>1 DEF CountAccounts, Room
  <2>6. CASE ~Full(loginCount')
    <3>1. "connect" \notin Admitted /\ Admitted' = Admitted \cup {"connect"}
      BY <1>2, <1>t, <2>6 DEF CountConnecting, Goto, TypeOK, Admitted
    <3>2. Cardinality(Admitted') = A + 1
      BY <3>1, GroupsFinite, Grown
    <3>3. loginCount + 1 < MaxCount
      BY <1>0, <2>4, <2>6 DEF Full
    <3> QED
      BY <1>0, <1>a, <2>1, <2>3, <2>4, <3>2, <3>3 DEF CountAccounts, Room
  <2> QED
    BY <2>5, <2>6
<1>3. ASSUME TakeBack PROVE CountAccounts' /\ Room'
  <2>1. Counted' = Counted /\ Closers' = Closers /\ Admitted' = Admitted
    BY <1>3, <1>t
    DEF TakeBack, Goto, TypeOK, Counted, Closers, Admitted
  <2>2. "connect" \in Makers /\ Makers' = Makers \ {"connect"}
    BY <1>3, <1>t DEF TakeBack, Goto, TypeOK, Makers
  <2>3. Cardinality(Makers') = M - 1
    BY <2>2, GroupsFinite, Shrunk
  <2>4. loginCount' = loginCount - 1 /\ rejected' = rejected
    BY <1>3 DEF TakeBack
  <2> QED
    BY <1>0, <2>1, <2>3, <2>4 DEF CountAccounts, Room
<1>4. ASSUME NEW m \in Maker, Pop(m) PROVE CountAccounts' /\ Room'
  <2>1. /\ Counted' = Counted /\ Closers' = Closers /\ Makers' = Makers
        /\ Admitted' = Admitted
    BY <1>4, <1>t
    DEF Pop, Goto, TypeOK, Counted, Closers, Makers, Admitted
  <2>2. loginCount' = loginCount /\ rejected' = rejected
    BY <1>4 DEF Pop
  <2> QED
    BY <2>1, <2>2, CountStill
<1>5. ASSUME NEW m \in Maker, Open(m) PROVE CountAccounts' /\ Room'
  <2>1. session[cur[m]] = "free" /\ cur[m] \in Index
    BY <1>5 DEF IInv, TypeOK, Held, InHand, Open
  <2>2. cur[m] \notin Counted /\ Counted' = Counted \cup {cur[m]}
    BY <1>5, <1>t, <2>1 DEF Open, TypeOK, Counted
  <2>3. /\ Closers' = Closers
        /\ m \in Makers /\ Makers' = Makers \ {m}
        /\ m \in Admitted /\ Admitted' = Admitted \ {m}
    BY <1>5, <1>t DEF Open, Goto, TypeOK, Closers, Makers, Admitted
  <2>4. /\ Cardinality(Counted') = C + 1
        /\ Cardinality(Makers') = M - 1
        /\ Cardinality(Admitted') = A - 1
    BY <2>2, <2>3, GroupsFinite, Grown, Shrunk
  <2>5. loginCount' = loginCount /\ rejected' = rejected
    BY <1>5 DEF Open
  <2> QED
    BY <1>0, <2>3, <2>4, <2>5 DEF CountAccounts, Room
<1>6. ASSUME NEW t \in Worker, NEW i \in Index, Close(t, i)
      PROVE  CountAccounts' /\ Room'
  <2>1. i \in Counted /\ Counted' = Counted \ {i}
    BY <1>6, <1>t DEF Close, TypeOK, Counted
  <2>2. /\ t \notin Closers /\ Closers' = Closers \cup {t}
        /\ Makers' = Makers /\ Admitted' = Admitted
    BY <1>6, <1>t DEF Close, Goto, TypeOK, Closers, Makers, Admitted
  <2>3. Cardinality(Counted') = C - 1 /\ Cardinality(Closers') = L + 1
    BY <2>1, <2>2, GroupsFinite, Grown, Shrunk
  <2>4. loginCount' = loginCount /\ rejected' = rejected
    BY <1>6 DEF Close
  <2> QED
    BY <1>0, <2>2, <2>3, <2>4 DEF CountAccounts, Room
<1>7. ASSUME NEW t \in Worker, Uncount(t) PROVE CountAccounts' /\ Room'
  <2>1. Counted' = Counted /\ Makers' = Makers /\ Admitted' = Admitted
    BY <1>7, <1>t DEF Uncount, Goto, TypeOK, Counted, Makers, Admitted
  <2>2. t \in Closers /\ Closers' = Closers \ {t}
    BY <1>7, <1>t DEF Uncount, Goto, TypeOK, Closers
  <2>3. Cardinality(Closers') = L - 1
    BY <2>2, GroupsFinite, Shrunk
  <2>4. loginCount' = loginCount - 1 /\ rejected' = rejected
    BY <1>7 DEF Uncount
  <2> QED
    BY <1>0, <2>1, <2>3, <2>4 DEF CountAccounts, Room
<1>8. ASSUME NEW t \in Worker, Push(t) PROVE CountAccounts' /\ Room'
  <2>1. session[cur[t]] = "closing"
    BY <1>8 DEF IInv, Held, Unmakers, Push
  <2>2. /\ Counted' = Counted /\ Closers' = Closers /\ Makers' = Makers
        /\ Admitted' = Admitted
    BY <1>8, <1>t, <2>1
    DEF Push, Goto, TypeOK, Counted, Closers, Makers, Admitted
  <2>3. loginCount' = loginCount /\ rejected' = rejected
    BY <1>8 DEF Push
  <2> QED
    BY <2>2, <2>3, CountStill
<1>9. ASSUME Exit \/ DisconnectAllSessions \/ Stop \/ Losing \/ UNCHANGED vars
      PROVE  CountAccounts' /\ Room'
  <2>1. /\ pc' = pc /\ loginCount' = loginCount /\ rejected' = rejected
        /\ Counted' = Counted
    BY <1>9, <1>t DEF Exit, DisconnectAllSessions, Stop, Losing, Lose, vars, TypeOK,
       Counted
  <2>2. Closers' = Closers /\ Makers' = Makers /\ Admitted' = Admitted
    BY <2>1 DEF Closers, Makers, Admitted
  <2> QED
    BY <2>1, <2>2, CountStill
<1> QED
  BY <1>1, <1>2, <1>3, <1>4, <1>5, <1>6, <1>7, <1>8, <1>9
  DEF Next, Making, Unmaking, Losing, Exiting

-----------------------------------------------------------------------------
(* The stack *)

(* A maker that is about to pop holds one of the places Room leaves: the    *)
(* untouched part of the stack is reached only while it can take one more   *)
(* index from it, and something is on the stack.                            *)
LEMMA NotExhausted ==
    ASSUME IInv, NEW m \in Maker, pc[m] = "pop",
           NEW k \in 0 .. StackSize, LaidOut(k, 0)
    PROVE  k + 1 <= Reach
  <1>1. Cardinality(InHand) + 1 <= Cardinality(Admitted)
    <2>1. m \in Admitted /\ m \notin InHand /\ InHand \subseteq Admitted
      BY DEF Admitted, InHand
    <2>2. Cardinality(InHand \cup {m}) = Cardinality(InHand) + 1
      BY <2>1, GroupsFinite, FS_AddElement
    <2>3. InHand \cup {m} \subseteq Admitted
      BY <2>1
    <2> QED
      BY <2>2, <2>3, GroupsFinite, FS_Subset
  <1>2. Cardinality(Unmakers) <= Cardinality(Worker)
    <2>1. Unmakers \subseteq Worker
      BY DEF Unmakers
    <2> QED
      BY <2>1, AdmissionAssumption, FS_Subset
  <1>3. k <= Cardinality(Used)
    <2>1. 0 .. k - 1 \subseteq Used
      BY DEF LaidOut
    <2>2. Cardinality(0 .. k - 1) = k
      BY FS_Interval
    <2>3. IsFiniteSet(Used)
      BY UsedSize DEF IInv
    <2> QED
      BY <2>1, <2>2, <2>3, FS_Subset
  <1>4. IsFiniteSet(Used) /\ Cardinality(Used) \in Nat
    BY UsedSize, FS_CardinalityType DEF IInv
  <1>5. Cardinality(Used) <= Cardinality(Counted) + Cardinality(Unmakers)
                               + Cardinality(InHand)
    BY UsedSize DEF IInv
  <1>6. Cardinality(Counted) + Cardinality(Closers) + Cardinality(Admitted)
          <= MaxCount - 1
    BY DEF IInv, Room
  <1> QED
    BY <1>1, <1>2, <1>3, <1>4, <1>5, <1>6, GroupSizes, AdmissionAssumption
    DEF Reach

LEMMA PopFinds ==
    ASSUME IInv, NEW m \in Maker, pc[m] = "pop"
    PROVE  stack # <<>>
  <1>1. PICK k \in 0 .. StackSize, n \in 0 .. Len(stack) :
            k <= Reach /\ LaidOut(k, n)
    BY DEF IInv, Layout
  <1>2. CASE n = 0
    <2>1. k + 1 <= StackSize
      BY <1>1, <1>2, NotExhausted, AdmissionAssumption, GroupSizes DEF Reach
    <2>2. Len(stack) # 0
      BY <1>1, <1>2, <2>1, AdmissionAssumption DEF LaidOut
    <2> QED
      BY <2>2
  <1>3. CASE n # 0
    <2>1. Len(stack) # 0
      BY <1>1, <1>3, AdmissionAssumption DEF LaidOut
    <2> QED
      BY <2>1
  <1> QED
    BY <1>2, <1>3

-----------------------------------------------------------------------------
(* Who holds which index *)

LEMMA HeldKept ==
    ASSUME IInv, [Next]_vars
    PROVE  Held'
<1> USE TwoKinds
<1>t. TypeOK /\ Places /\ Held
  BY DEF IInv
<1>s. \A i \in Index : session[i] = "closing" =>
        \E t \in Unmakers : cur[t] = i
  BY <1>t DEF Held
<1>1. ASSUME CountAccepted \/ CountConnecting \/ TakeBack PROVE Held'
  <2>1. /\ InHand' = InHand /\ Unmakers' = Unmakers
        /\ session' = session /\ cur' = cur
    BY <1>1, <1>t
    DEF CountAccepted, CountConnecting, TakeBack, Goto, TypeOK, Places,
        InHand, Unmakers
  <2> QED
    BY <2>1, <1>t DEF Held
<1>2. ASSUME NEW m \in Maker, Pop(m) PROVE Held'
  <2>1. PICK k \in 0 .. StackSize, n \in 0 .. Len(stack) : LaidOut(k, n)
    BY DEF IInv, Layout
  <2>2. stack # <<>>
    BY <1>2, PopFinds DEF Pop
  <2>3. /\ Head(stack) \in Index /\ Head(stack) \notin Used
    <3>1. Len(stack) \in Nat /\ Len(stack) # 0 /\ Head(stack) = stack[1]
      BY <1>t, <2>2 DEF TypeOK
    <3>2. 1 \in 1 .. Len(stack)
      BY <3>1
    <3> QED
      BY <2>1, <3>1, <3>2, <1>t, ElementOfSeq DEF LaidOut, TypeOK
  <2>4. /\ session[Head(stack)] = "free"
        /\ \A o \in InHand : cur[o] # Head(stack)
    BY <2>3 DEF Used
  <2>5. /\ InHand' = InHand \cup {m} /\ m \notin InHand
        /\ Unmakers' = Unmakers
        /\ session' = session
        /\ cur' = [cur EXCEPT ![m] = Head(stack)]
    BY <1>2, <1>t, <2>2 DEF Pop, Goto, TypeOK, InHand, Unmakers
  <2>6. /\ \A o \in InHand : cur'[o] = cur[o] /\ o # m
        /\ \A t \in Unmakers : cur'[t] = cur[t]
        /\ cur'[m] = Head(stack)
    BY <1>t, <2>5 DEF TypeOK, InHand, Unmakers
  <2> QED
    BY <1>t, <2>4, <2>5, <2>6 DEF Held
<1>3. ASSUME NEW m \in Maker, Open(m) PROVE Held'
  <2>1. /\ m \in InHand /\ InHand' = InHand \ {m}
        /\ Unmakers' = Unmakers /\ cur' = cur
    BY <1>3, <1>t DEF Open, Goto, TypeOK, InHand, Unmakers
  <2>2. cur[m] \in Index
    BY <1>t DEF TypeOK
  <2>3. session'[cur[m]] = "open"
        /\ \A i \in Index : i # cur[m] => session'[i] = session[i]
    BY <1>3, <1>t, <2>2 DEF Open, TypeOK
  <2>4. \A t \in Maker \cup Worker : cur[t] \in Index
    BY <1>t DEF TypeOK
  <2>5. \A o \in InHand : o \in Maker \cup Worker
    BY DEF InHand
  <2>6. \A t \in Unmakers : t \in Maker \cup Worker
    BY DEF Unmakers
  <2> QED
    BY <1>t, <2>1, <2>2, <2>3, <2>4, <2>5, <2>6 DEF Held
<1>4. ASSUME NEW t \in Worker, NEW i \in Index, Close(t, i) PROVE Held'
  <2>1. /\ t \notin Unmakers /\ Unmakers' = Unmakers \cup {t}
        /\ InHand' = InHand
    BY <1>4, <1>t DEF Close, Goto, TypeOK, InHand, Unmakers
  <2>2. /\ session[i] \in {"open", "marked"} /\ session'[i] = "closing"
        /\ \A j \in Index : j # i => session'[j] = session[j]
    BY <1>4, <1>t DEF Close, TypeOK
  <2>3. /\ \A u \in Unmakers : cur'[u] = cur[u] /\ cur[u] \in Index
        /\ \A m \in InHand : cur'[m] = cur[m] /\ cur[m] \in Index
        /\ cur'[t] = i
    BY <1>4, <1>t, <2>1 DEF Close, TypeOK, Unmakers, InHand
  <2>4. \A u \in Unmakers : cur[u] # i
    BY <1>t, <2>2 DEF Held
  <2> QED
    BY <1>t, <2>1, <2>2, <2>3, <2>4 DEF Held
<1>5. ASSUME NEW t \in Worker, Uncount(t) PROVE Held'
  <2>1. /\ InHand' = InHand /\ Unmakers' = Unmakers
        /\ session' = session /\ cur' = cur
    BY <1>5, <1>t DEF Uncount, Goto, TypeOK, InHand, Unmakers
  <2> QED
    BY <2>1, <1>t DEF Held
<1>6. ASSUME NEW t \in Worker, Push(t) PROVE Held'
  <2>1. /\ t \in Unmakers /\ Unmakers' = Unmakers \ {t}
        /\ InHand' = InHand /\ cur' = cur
    BY <1>6, <1>t DEF Push, Goto, TypeOK, InHand, Unmakers
  <2>2. /\ cur[t] \in Index
        /\ \A u \in Unmakers : cur[u] \in Index
        /\ \A m \in InHand : cur[m] \in Index
    BY <1>t DEF TypeOK, Unmakers, InHand
  <2>3. /\ session'[cur[t]] = "free"
        /\ \A j \in Index : j # cur[t] => session'[j] = session[j]
    BY <1>6, <1>t, <2>2 DEF Push, TypeOK
  <2> QED
    BY <1>t, <2>1, <2>2, <2>3 DEF Held
<1>7. ASSUME DisconnectAllSessions \/ Losing PROVE Held'
  <2>1. InHand' = InHand /\ Unmakers' = Unmakers /\ cur' = cur
    BY <1>7 DEF DisconnectAllSessions, Losing, Lose, InHand, Unmakers
  <2>2. \A i \in Index : /\ session'[i] = "closing" <=> session[i] = "closing"
                         /\ session'[i] = "free" <=> session[i] = "free"
    BY <1>7, <1>t DEF DisconnectAllSessions, Losing, Lose, TypeOK
  <2>3. /\ \A u \in Unmakers : cur[u] \in Index
        /\ \A m \in InHand : cur[m] \in Index
    BY <1>t DEF TypeOK, Unmakers, InHand
  <2> QED
    BY <1>t, <2>1, <2>2, <2>3 DEF Held
<1>8. ASSUME Exit \/ Stop \/ UNCHANGED vars PROVE Held'
  <2>1. /\ InHand' = InHand /\ Unmakers' = Unmakers
        /\ session' = session /\ cur' = cur
    BY <1>8 DEF Exit, Stop, vars, InHand, Unmakers
  <2> QED
    BY <2>1, <1>t DEF Held
<1> QED
  BY <1>1, <1>2, <1>3, <1>4, <1>5, <1>6, <1>7, <1>8
  DEF Next, Making, Unmaking, Losing, Exiting

(* The layout depends only on the stack and on what is in use. *)
LEMMA LayoutStill ==
    ASSUME Layout, stack' = stack, Used' = Used
    PROVE  Layout'
  <1>1. PICK k \in 0 .. StackSize, n \in 0 .. Len(stack) :
            k <= Reach /\ LaidOut(k, n)
    BY DEF Layout
  <1>2. LaidOut(k, n)' /\ Len(stack') = Len(stack)
    BY <1>1 DEF LaidOut
  <1> QED
    BY <1>1, <1>2 DEF Layout, Reach

LEMMA LayoutKept ==
    ASSUME IInv, [Next]_vars
    PROVE  Layout'
<1> USE TwoKinds
<1>t. TypeOK /\ Places /\ Held /\ Layout
  BY DEF IInv
<1>c. /\ \A t \in Maker \cup Worker : cur[t] \in Index
      /\ \A m \in InHand : m \in Maker
      /\ StackSize \in Nat /\ Reach \in Int
      /\ Index = 0 .. StackSize - 1
  BY SMTT(30), <1>t, AdmissionAssumption, GroupSizes DEF TypeOK, InHand,
     Index, Reach
<1>k. PICK k \in 0 .. StackSize, n \in 0 .. Len(stack) :
          k <= Reach /\ LaidOut(k, n)
  BY <1>t DEF Layout
<1>l. stack \in Seq(Index) /\ Len(stack) \in Nat
  BY <1>t DEF TypeOK
<1>1. ASSUME CountAccepted \/ CountConnecting \/ TakeBack PROVE Layout'
  <2>1. /\ InHand' = InHand /\ stack' = stack
        /\ session' = session /\ cur' = cur
    BY <1>1, <1>t
    DEF CountAccepted, CountConnecting, TakeBack, Goto, TypeOK, InHand
  <2> QED
    BY <2>1, <1>t, LayoutStill DEF Used
<1>2. ASSUME NEW m \in Maker, Pop(m) PROVE Layout'
  <2> DEFINE top == Head(stack)
  <2>1. stack # <<>>
    BY <1>2, PopFinds DEF Pop
  <2>2. /\ top = stack[1] /\ 1 \in 1 .. Len(stack)
        /\ stack' = Tail(stack) /\ Len(stack') = Len(stack) - 1
        /\ \A p \in 1 .. Len(stack') : stack'[p] = stack[p + 1]
    <3>1. stack' = Tail(stack)
      BY <1>2, <2>1 DEF Pop
    <3>2. /\ Len(Tail(stack)) = Len(stack) - 1
          /\ \A p \in 1 .. Len(Tail(stack)) : Tail(stack)[p] = stack[p + 1]
      BY <1>l, <2>1, HeadTailProperties
    <3>3. Head(stack) = stack[1] /\ Len(stack) # 0
      BY <1>l, <2>1
    <3> QED
      BY <1>l, <3>1, <3>2, <3>3
  <2>3. Used' = Used \cup {top}
    <3>1. /\ InHand' = InHand \cup {m} /\ m \notin InHand
          /\ session' = session
          /\ cur' = [cur EXCEPT ![m] = top]
      BY <1>2, <1>t, <2>1 DEF Pop, Goto, TypeOK, InHand
    <3>2. /\ \A o \in InHand : cur'[o] = cur[o]
          /\ cur'[m] = top
      BY <1>t, <1>c, <3>1 DEF TypeOK
    <3> QED
      BY <3>1, <3>2 DEF Used
  <2> HIDE DEF top
  <2>4. CASE n = 0
    <3>1. k + 1 <= Reach
      BY <1>2, <1>k, <2>4, NotExhausted DEF Pop
    <3>2. k + 1 \in 0 .. StackSize /\ top = k
      BY <1>c, <1>k, <1>l, <2>2, <2>4 DEF LaidOut
    <3>3. LaidOut(k + 1, 0)'
      <4>1. Len(stack') = 0 + (StackSize - (k + 1))
        BY <1>c, <1>k, <2>2, <2>4 DEF LaidOut
      <4>2. \A p \in 1 .. Len(stack') :
              stack'[p] = (k + 1) + (p - 0) - 1 /\ ~(p <= 0)
        BY <1>c, <1>k, <1>l, <2>2, <2>4 DEF LaidOut
      <4>3. \A p, q \in 1 .. Len(stack') : stack'[p] = stack'[q] => p = q
        BY <1>c, <1>k, <1>l, <2>2 DEF LaidOut
      <4>4. \A p \in 1 .. Len(stack') : stack'[p] \notin Used'
        BY <1>c, <1>k, <1>l, <2>2, <2>3 DEF LaidOut
      <4>5. \A i \in Used' : i < k + 1
        <5>1. \A i \in Used : i < k
          BY <1>k DEF LaidOut
        <5>2. Used \subseteq Index
          BY <1>c DEF Used
        <5> QED
          BY <1>c, <2>3, <3>2, <5>1, <5>2
      <4>6. \A i \in 0 .. (k + 1) - 1 :
              i \notin Used' => \E p \in 1 .. 0 : stack'[p] = i
        BY <1>k, <2>3, <2>4, <3>2 DEF LaidOut
      <4> QED
        BY <4>1, <4>2, <4>3, <4>4, <4>5, <4>6 DEF LaidOut
    <3> QED
      BY <3>1, <3>2, <3>3, <1>c DEF Layout, Reach
  <2>5. CASE n # 0
    <3>1. /\ n - 1 \in 0 .. Len(stack') /\ n <= Len(stack)
          /\ 1 \in 1 .. n
      BY <1>l, <1>k, <2>2, <2>5
    <3>2. top < k
      BY <1>k, <2>2, <3>1 DEF LaidOut
    <3>3. LaidOut(k, n - 1)'
      <4>1. Len(stack') = (n - 1) + (StackSize - k)
        BY <1>c, <1>k, <2>2 DEF LaidOut
      <4>2. \A p \in 1 .. Len(stack') :
              IF p <= n - 1 THEN stack'[p] < k
                            ELSE stack'[p] = k + (p - (n - 1)) - 1
        BY <1>c, <1>k, <1>l, <2>2 DEF LaidOut
      <4>3. \A p, q \in 1 .. Len(stack') : stack'[p] = stack'[q] => p = q
        BY <1>c, <1>k, <1>l, <2>2 DEF LaidOut
      <4>4. \A p \in 1 .. Len(stack') : stack'[p] \notin Used'
        BY <1>c, <1>k, <1>l, <2>2, <2>3 DEF LaidOut
      <4>5. \A i \in Used' : i < k
        BY <1>k, <2>3, <3>2 DEF LaidOut
      <4>6. ASSUME NEW i \in 0 .. k - 1, i \notin Used'
            PROVE  \E p \in 1 .. n - 1 : stack'[p] = i
        <5>1. PICK p \in 1 .. n : stack[p] = i
          BY <1>k, <2>3, <4>6 DEF LaidOut
        <5>2. p # 1
          BY <2>2, <2>3, <4>6, <5>1
        <5>3. p - 1 \in 1 .. n - 1 /\ p - 1 \in 1 .. Len(stack')
          BY <1>k, <1>l, <2>2, <3>1, <5>1, <5>2
        <5> QED
          BY <2>2, <5>1, <5>3
      <4> QED
        BY <4>1, <4>2, <4>3, <4>4, <4>5, <4>6 DEF LaidOut
    <3> QED
      BY <1>k, <3>1, <3>3, <1>c DEF Layout, Reach
  <2> QED
    BY <2>4, <2>5
<1>3. ASSUME NEW m \in Maker, Open(m) PROVE Layout'
  <2>1. /\ m \in InHand /\ InHand' = InHand \ {m}
        /\ cur' = cur /\ stack' = stack
    BY <1>3, <1>t DEF Open, Goto, TypeOK, InHand
  <2>2. /\ cur[m] \in Index /\ session'[cur[m]] = "open"
        /\ \A i \in Index : i # cur[m] => session'[i] = session[i]
    BY <1>3, <1>t, <1>c DEF Open, TypeOK
  <2>3. Used' = Used
    BY <1>c, <2>1, <2>2 DEF Used
  <2> QED
    BY <2>1, <2>3, <1>t, LayoutStill
<1>4. ASSUME NEW t \in Worker, NEW i \in Index, Close(t, i) PROVE Layout'
  <2>1. InHand' = InHand /\ stack' = stack
    BY <1>4, <1>t DEF Close, Goto, TypeOK, InHand
  <2>2. \A m \in InHand : cur'[m] = cur[m]
    BY <1>4, <1>t DEF Close, TypeOK, InHand
  <2>3. \A j \in Index : session'[j] # "free" <=> session[j] # "free"
    BY <1>4, <1>t DEF Close, TypeOK
  <2>4. Used' = Used
    BY <2>1, <2>2, <2>3 DEF Used
  <2> QED
    BY <2>1, <2>4, <1>t, LayoutStill
<1>5. ASSUME NEW t \in Worker, Uncount(t) PROVE Layout'
  <2>1. /\ InHand' = InHand /\ stack' = stack
        /\ session' = session /\ cur' = cur
    BY <1>5, <1>t DEF Uncount, Goto, TypeOK, InHand
  <2> QED
    BY <2>1, <1>t, LayoutStill DEF Used
<1>6. ASSUME NEW t \in Worker, Push(t) PROVE Layout'
  <2> DEFINE back == cur[t]
  <2>1. /\ back \in Index /\ back \in Used /\ t \in Unmakers
    BY <1>6, <1>t, <1>c DEF Push, Held, Unmakers, Used
  <2>2. /\ stack' = <<back>> \o stack /\ InHand' = InHand /\ cur' = cur
        /\ session' = [session EXCEPT ![back] = "free"]
    BY <1>6, <1>t DEF Push, Goto, TypeOK, InHand
  <2> HIDE DEF back
  <2>3. /\ Len(stack') = Len(stack) + 1
        /\ stack'[1] = back
        /\ \A p \in 1 .. Len(stack) : stack'[p + 1] = stack[p]
        /\ \A p \in 1 .. Len(stack') :
            p = 1 \/ \E q \in 1 .. Len(stack) : p = q + 1
    BY <1>l, <2>1, <2>2
  <2>4. Used' = Used \ {back}
    <3>1. \A m \in InHand : cur[m] # back
      BY <1>t, <2>1 DEF Held, back
    <3>2. /\ session'[back] = "free"
          /\ \A i \in Index : i # back => session'[i] = session[i]
      BY <1>t, <2>1, <2>2 DEF TypeOK
    <3> QED
      BY <2>2, <3>1, <3>2 DEF Used
  <2>5. back < k /\ n + 1 \in 0 .. Len(stack')
    BY <1>k, <1>l, <2>1, <2>3 DEF LaidOut
  <2>6. LaidOut(k, n + 1)'
    <3>1. Len(stack') = (n + 1) + (StackSize - k)
      BY <1>c, <1>k, <1>l, <2>3 DEF LaidOut
    <3>2. \A p \in 1 .. Len(stack') :
            IF p <= n + 1 THEN stack'[p] < k
                          ELSE stack'[p] = k + (p - (n + 1)) - 1
      <4>1. \A q \in 1 .. Len(stack) :
              IF q <= n THEN stack[q] < k ELSE stack[q] = k + (q - n) - 1
        BY <1>k DEF LaidOut
      <4>2. ASSUME NEW p \in 1 .. Len(stack'),
                   NEW q \in 1 .. Len(stack), p = q + 1
            PROVE  IF p <= n + 1 THEN stack'[p] < k
                                 ELSE stack'[p] = k + (p - (n + 1)) - 1
        <5>1. stack'[p] = stack[q]
          BY <2>3, <4>2
        <5> QED
          BY <1>c, <1>k, <1>l, <4>1, <4>2, <5>1
      <4> QED
        BY <1>k, <1>l, <2>3, <2>5, <4>2
    <3>3. \A p \in 1 .. Len(stack) : stack[p] # back
      BY <1>k, <2>1 DEF LaidOut
    <3>4. ASSUME NEW p \in 1 .. Len(stack'), NEW q \in 1 .. Len(stack'),
                 stack'[p] = stack'[q]
          PROVE  p = q
      <4>1. \A r, s \in 1 .. Len(stack) : stack[r] = stack[s] => r = s
        BY <1>k DEF LaidOut
      <4>2. p = 1 \/ \E r \in 1 .. Len(stack) : p = r + 1
        BY <2>3
      <4>3. q = 1 \/ \E s \in 1 .. Len(stack) : q = s + 1
        BY <2>3
      <4> QED
        BY <2>3, <3>3, <3>4, <4>1, <4>2, <4>3
    <3>5. ASSUME NEW p \in 1 .. Len(stack') PROVE stack'[p] \notin Used'
      <4>1. \A q \in 1 .. Len(stack) : stack[q] \notin Used
        BY <1>k DEF LaidOut
      <4>2. \A q \in 1 .. Len(stack) : stack'[q + 1] \notin Used'
        BY <2>3, <2>4, <4>1
      <4>3. stack'[1] \notin Used'
        BY <2>3, <2>4
      <4>4. p = 1 \/ \E q \in 1 .. Len(stack) : p = q + 1
        BY <2>3
      <4> QED
        BY <4>2, <4>3, <4>4
    <3>6. \A i \in Used' : i < k
      BY <1>k, <2>4 DEF LaidOut
    <3>7. ASSUME NEW i \in 0 .. k - 1, i \notin Used'
          PROVE  \E p \in 1 .. n + 1 : stack'[p] = i
      <4>1. CASE i = back
        BY <1>k, <2>3, <4>1
      <4>2. CASE i # back
        <5>1. PICK p \in 1 .. n : stack[p] = i
          BY <1>k, <2>4, <3>7, <4>2 DEF LaidOut
        <5>2. p \in 1 .. Len(stack) /\ p + 1 \in 1 .. n + 1
          BY <1>k, <1>l, <5>1
        <5> QED
          BY <2>3, <5>1, <5>2
      <4> QED
        BY <4>1, <4>2
    <3> QED
      BY <3>1, <3>2, <3>4, <3>5, <3>6, <3>7 DEF LaidOut
  <2> QED
    BY <1>c, <1>k, <2>5, <2>6 DEF Layout, Reach
<1>7. ASSUME DisconnectAllSessions \/ Losing PROVE Layout'
  <2>1. InHand' = InHand /\ cur' = cur /\ stack' = stack
    BY <1>7 DEF DisconnectAllSessions, Losing, Lose, InHand
  <2>2. \A i \in Index : session'[i] = "free" <=> session[i] = "free"
    BY <1>7, <1>t DEF DisconnectAllSessions, Losing, Lose, TypeOK
  <2>3. Used' = Used
    BY <2>1, <2>2 DEF Used
  <2> QED
    BY <2>1, <2>3, <1>t, LayoutStill
<1>8. ASSUME Exit \/ Stop \/ UNCHANGED vars PROVE Layout'
  <2>1. /\ InHand' = InHand /\ stack' = stack
        /\ session' = session /\ cur' = cur
    BY <1>8 DEF Exit, Stop, vars, InHand
  <2> QED
    BY <2>1, <1>t, LayoutStill DEF Used
<1> QED
  BY <1>1, <1>2, <1>3, <1>4, <1>5, <1>6, <1>7, <1>8
  DEF Next, Making, Unmaking, Losing, Exiting

-----------------------------------------------------------------------------
(* The invariant *)

LEMMA Initially ==
    ASSUME Init
    PROVE  IInv
<1> USE TwoKinds, AdmissionAssumption
<1>0. /\ \A m \in Maker : pc[m] = "idle"
      /\ \A t \in Worker : pc[t] = "idle"
      /\ \A i \in Index : session[i] = "free"
  BY DEF Init
<1>1. /\ Counted = {} /\ Closers = {} /\ Makers = {} /\ Admitted = {}
      /\ Unmakers = {} /\ InHand = {} /\ Used = {}
  BY <1>0 DEF Counted, Closers, Makers, Admitted, Unmakers, InHand, Used
<1>2. Len(stack) = StackSize /\ \A p \in 1 .. StackSize : stack[p] = p - 1
  BY DEF Init
<1>3. TypeOK
  <2>1. stack \in Seq(Index)
    <3>1. stack \in [1 .. StackSize -> Index]
      BY DEF Init, Index
    <3> QED
      BY <3>1
  <2>2. 0 \in Index
    BY DEF Index
  <2>3. /\ session \in [Index -> {"free", "open", "marked", "stuck", "closing"}]
        /\ pc \in [Maker \cup Worker -> {"idle", "pop", "open", "takeback",
                                         "uncount", "push"}]
        /\ cur \in [Maker \cup Worker -> Index]
    BY <2>2 DEF Init
  <2>4. calm \in BOOLEAN
    BY Zenon DEF Init
  <2>5. /\ loginCount \in Nat
        /\ arrived \in 0 .. MaxConnections /\ rejected \in 0 .. MaxConnections
        /\ stage \in {"running", "scanning", "waiting", "stopped"}
        /\ scanned \in 0 .. MaxCount
    BY DEF Init
  <2> QED
    BY <2>1, <2>3, <2>4, <2>5 DEF TypeOK
<1>4. Places
  BY <1>0 DEF Init, Places
<1>5. Held
  BY <1>0, <1>1 DEF Held
<1>6. CountAccounts /\ Room
  BY <1>1, FS_EmptySet DEF Init, CountAccounts, Room
<1>7. Layout
  <2>1. LaidOut(0, 0)
    BY <1>1, <1>2 DEF LaidOut
  <2>2. 0 <= Reach
    BY GroupSizes DEF Reach
  <2> QED
    BY <1>2, <2>1, <2>2 DEF Layout
<1> QED
  BY <1>3, <1>4, <1>5, <1>6, <1>7 DEF IInv

LEMMA Step ==
    ASSUME IInv, [Next]_vars
    PROVE  IInv'
  BY TypesKept, CountKept, HeldKept, LayoutKept DEF IInv

(* For every number of closers and every array: the inductive invariant.    *)
THEOREM AdmissionInvariant == Spec => []IInv
  <1>1. Init => IInv
    BY Initially
  <1>2. IInv /\ [Next]_vars => IInv'
    BY Step
  <1> QED
    BY <1>1, <1>2, PTL DEF Spec

(* The variables of admission keep their types; in particular neither       *)
(* InterlockedDecrement(&_sessionLoginCount) takes the count below zero.    *)
THEOREM AdmissionTypes == Spec => []TypeOK
  <1>1. IInv => TypeOK
    BY DEF IInv
  <1> QED
    BY <1>1, AdmissionInvariant, PTL

(* The index of a session is less than the longest array admission allows,  *)
(* plus the closers that lowered the count and still hold their index: one  *)
(* closer keeps _makeNewSession within _sessionList, several do not.        *)
THEOREM IndicesBounded == Spec => []IndexBound
  <1>1. IInv => IndexBound
    <2>1. SUFFICES ASSUME IInv, NEW i \in Used
                   PROVE  i < MaxCount - 1 + Cardinality(Worker)
      BY DEF IndexBound
    <2>2. PICK k \in 0 .. StackSize, n \in 0 .. Len(stack) :
              k <= Reach /\ LaidOut(k, n)
      BY <2>1 DEF IInv, Layout
    <2>3. i \in Index /\ i < k
      BY <2>1, <2>2 DEF IInv, TypeOK, LaidOut, Used, InHand
    <2> QED
      BY <2>2, <2>3, AdmissionAssumption, GroupSizes DEF Reach, Index
  <1> QED
    BY <1>1, AdmissionInvariant, PTL

(* _sessionLoginCount is the sessions being made, there, or being unmade up *)
(* to their decrement, and every connection ever refused by the accept      *)
(* thread, however the makers, the closers and the server's exit interleave.*)
THEOREM CountIsExact == Spec => []CountAccounts
  <1>1. IInv => CountAccounts
    BY DEF IInv
  <1> QED
    BY <1>1, AdmissionInvariant, PTL

(* _makeNewSession always finds an index on the stack: Alloc never answers  *)
(* with the 0 of an empty stack, which would be the index of a session that *)
(* is there.                                                                *)
THEOREM AlwaysAnIndex ==
    Spec => [](\A m \in Maker : pc[m] = "pop" => stack # <<>>)
  <1>1. IInv => \A m \in Maker : pc[m] = "pop" => stack # <<>>
    BY PopFinds
  <1> QED
    BY <1>1, AdmissionInvariant, PTL

(* No index is ever in two places: one that is on the stack is on it once   *)
(* and has neither a session nor a maker working on it, two makers work on  *)
(* two indices, and so do two threads that unmake a session.                *)
THEOREM OneOwnerPerIndex ==
    Spec => [](/\ \A p, q \in 1 .. Len(stack) : stack[p] = stack[q] => p = q
               /\ \A p \in 1 .. Len(stack) : stack[p] \notin Used
               /\ \A m, o \in InHand : cur[m] = cur[o] => m = o
               /\ \A m \in InHand : session[cur[m]] = "free"
               /\ \A t, u \in Unmakers : cur[t] = cur[u] => t = u)
  <1> DEFINE Apart ==
      /\ \A p, q \in 1 .. Len(stack) : stack[p] = stack[q] => p = q
      /\ \A p \in 1 .. Len(stack) : stack[p] \notin Used
      /\ \A m, o \in InHand : cur[m] = cur[o] => m = o
      /\ \A m \in InHand : session[cur[m]] = "free"
      /\ \A t, u \in Unmakers : cur[t] = cur[u] => t = u
  <1>1. IInv => Apart
    BY DEF IInv, Layout, LaidOut, Held
  <1> HIDE DEF Apart
  <1>2. Spec => []Apart
    BY <1>1, AdmissionInvariant, PTL
  <1> QED
    BY <1>2 DEF Apart

==============================================================================
