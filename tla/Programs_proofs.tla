--------------------------- MODULE Programs_proofs ---------------------------
(***************************************************************************)
(* Proofs about the programs around NetWorkLib, for any number of slots,    *)
(* workers, accounts, clients and threads, and any map: the safety          *)
(* properties that Programs states hold of Spec.                            *)
(*   One program runs and the others rest (Steps), so each has an invariant *)
(* of its own, with a lemma for Init, one for each action, one for the      *)
(* steps, and one for what follows; IInv puts them together.  Those of the  *)
(* servers are in Servers_proofs.                                           *)
(*   The test clients (Way): what is on the way to and from each session.   *)
(* The older one: no thread is two states from another (Stages), and each   *)
(* counter is the number of flags set, each flag one message on the way     *)
(* (Stops, Chats, HeardSums).  The newer one: each session waits for one    *)
(* answer and what is on the way is that (Home, Fair), a thread starts a    *)
(* turn only when the one before is done by all (Lap), no session is ahead  *)
(* of its thread (Along), and each text is still to be heard as often as it *)
(* is on the way (Counted).                                                 *)
(***************************************************************************)
EXTENDS Servers_proofs

-----------------------------------------------------------------------------
(* What the two test clients share: the messages on the way. *)
Everyone == 1 .. clientCount
MsgType ==
    {m \in [type : {"CreateCharacter", "LocalChat", "MoveStart", "MoveStop",
                    "HeartBeat", "ChatEnd", "MoveStopComplete",
                    "ChatComplete"},
            sector : 0 .. MAX_SECTOR, text : Text \cup {"none"}] :
        /\ m.type = "LocalChat" => m.text \in Text /\ m.sector = 0
        /\ m.type = "CreateCharacter" => m.sector # 0}
Of(type) == {m \in MsgType : m.type = type}
Said(text) == {m \in MsgType : m.type = "LocalChat" /\ m.text = text}
Those(q, kind) == Cardinality({i \in 1 .. Len(q) : q[i] \in kind})
One(m, kind) == IF m \in kind THEN 1 ELSE 0

Ways ==
    /\ place \in [Everyone -> 0 .. MAX_SECTOR]
    /\ inq \in [Everyone -> Seq(MsgType)]
    /\ outq \in [Everyone -> Seq(MsgType)]
    /\ at \in [Everyone -> 0 .. MAX_SECTOR]

(* How many messages of a kind are on the way, when one is put in or taken. *)
LEMMA ThoseFinite ==
    ASSUME NEW q \in Seq(MsgType), NEW kind
    PROVE  /\ IsFiniteSet({i \in 1 .. Len(q) : q[i] \in kind})
           /\ Those(q, kind) \in Nat
  <1>1. PICK n \in Nat : n = Len(q)
    OBVIOUS
  <1>2. IsFiniteSet(1 .. n)
    BY FS_Interval
  <1>3. {i \in 1 .. n : q[i] \in kind} \subseteq 1 .. n
    OBVIOUS
  <1>4. IsFiniteSet({i \in 1 .. n : q[i] \in kind})
    BY <1>2, <1>3, FS_Subset
  <1> QED
    BY <1>1, <1>4, FS_CardinalityType DEF Those

LEMMA ThoseNone ==
    ASSUME NEW q \in Seq(MsgType), NEW kind
    PROVE  /\ Those(<<>>, kind) = 0
           /\ Those(q, kind) = 0 <=> \A i \in 1 .. Len(q) : q[i] \notin kind
  <1>1. {i \in 1 .. Len(<<>>) : <<>>[i] \in kind} = {}
    OBVIOUS
  <1>2. Those(<<>>, kind) = 0
    BY <1>1, FS_EmptySet DEF Those
  <1>3. Those(q, kind) = 0 <=> {i \in 1 .. Len(q) : q[i] \in kind} = {}
    BY ThoseFinite, FS_EmptySet DEF Those
  <1> QED
    BY <1>2, <1>3

LEMMA ThoseMore ==
    ASSUME NEW q \in Seq(MsgType), NEW m \in MsgType, NEW kind
    PROVE  Those(Append(q, m), kind) = Those(q, kind) + One(m, kind)
  <1> DEFINE I == {i \in 1 .. Len(q) : q[i] \in kind}
             J == {i \in 1 .. Len(Append(q, m)) : Append(q, m)[i] \in kind}
  <1>1. PICK n \in Nat : n = Len(q)
    OBVIOUS
  <1>2. /\ Len(Append(q, m)) = n + 1 /\ Append(q, m)[n + 1] = m
        /\ \A i \in 1 .. n : Append(q, m)[i] = q[i]
    BY <1>1
  <1>3. 1 .. n + 1 = (1 .. n) \cup {n + 1} /\ n + 1 \notin 1 .. n
    BY <1>1
  <1>4. J = (IF m \in kind THEN I \cup {n + 1} ELSE I) /\ n + 1 \notin I
    BY <1>1, <1>2, <1>3
  <1>5. IsFiniteSet(I) /\ Cardinality(I) \in Nat
    BY ThoseFinite DEF Those
  <1> HIDE DEF I, J
  <1>6. Cardinality(J) = Cardinality(I) + One(m, kind)
    <2>1. CASE m \in kind
      <3>1. J = I \cup {n + 1}
        BY <1>4, <2>1
      <3>2. Cardinality(J) = Cardinality(I) + 1
        BY <1>4, <1>5, <3>1, OneMore
      <3> QED
        BY <2>1, <3>2 DEF One
    <2>2. CASE m \notin kind
      <3>1. J = I
        BY <1>4, <2>2
      <3> QED
        BY <1>5, <2>2, <3>1 DEF One
    <2> QED
      BY <2>1, <2>2
  <1> QED
    BY <1>6 DEF Those, I, J

LEMMA ThoseLess ==
    ASSUME NEW q \in Seq(MsgType), q # <<>>, NEW kind
    PROVE  /\ Those(q, kind) = Those(Tail(q), kind) + One(Head(q), kind)
           /\ Tail(q) \in Seq(MsgType) /\ Head(q) \in MsgType
           /\ Len(Tail(q)) < Len(q)
  <1> DEFINE I == {i \in 1 .. Len(q) : q[i] \in kind}
             J == {i \in 1 .. Len(Tail(q)) : Tail(q)[i] \in kind}
  <1>1. PICK n \in Nat : n + 1 = Len(q)
    <2>1. Len(q) \in Nat /\ Len(q) # 0
      OBVIOUS
    <2> QED
      BY <2>1
  <1>2. /\ Len(Tail(q)) = n /\ Head(q) = q[1] /\ Head(q) \in MsgType
        /\ Tail(q) \in Seq(MsgType)
        /\ \A i \in 1 .. n : Tail(q)[i] = q[i + 1]
    BY <1>1
  <1> DEFINE up == [i \in J |-> i + 1]
             rest == I \ {1}
  <1>3. /\ J \subseteq 1 .. n /\ I \subseteq 1 .. n + 1
        /\ \A i \in 1 .. n : i \in J <=> i + 1 \in I
    <2>1. \A i \in 1 .. n : i + 1 \in 1 .. n + 1
      BY <1>1
    <2> QED
      BY <1>1, <1>2, <2>1
  <1>4. 1 \in I <=> Head(q) \in kind
    <2>1. 1 \in 1 .. n + 1
      BY <1>1
    <2> QED
      BY <1>1, <1>2, <2>1
  <1>5. IsFiniteSet(I) /\ IsFiniteSet(J)
    BY <1>2, ThoseFinite
  <1> HIDE DEF I, J
  <1>6. up \in Bijection(J, rest)
    <2>1. \A i \in J : i + 1 \in rest
      BY <1>1, <1>3
    <2>2. \A k \in rest : k - 1 \in J /\ (k - 1) + 1 = k
      <3> SUFFICES ASSUME NEW k \in rest
                   PROVE  k - 1 \in J /\ (k - 1) + 1 = k
        OBVIOUS
      <3>1. k \in 1 .. n + 1 /\ k # 1
        BY <1>3
      <3>2. k - 1 \in 1 .. n /\ (k - 1) + 1 = k
        BY <1>1, <3>1
      <3> QED
        BY <1>3, <3>2
    <2>3. \A i \in J : \A k \in J : i + 1 = k + 1 => i = k
      BY <1>1, <1>3
    <2>4. up \in [J -> rest]
      BY <2>1
    <2>5. \A k \in rest : \E i \in J : up[i] = k
      BY <2>2
    <2>6. \A a \in J : up[a] = a + 1
      OBVIOUS
    <2> HIDE DEF rest, up
    <2>7. up \in Surjection(J, rest)
      BY <2>4, <2>5 DEF Surjection
    <2>8. IsInjective(up)
      <3>1. DOMAIN up = J
        BY <2>4
      <3> QED
        BY <2>3, <2>6, <3>1 DEF IsInjective
    <2> QED
      BY <2>4, <2>7, <2>8 DEF Bijection, Injection
  <1>7. Cardinality(J) = Cardinality(rest)
    <2>1. ExistsBijection(J, rest)
      BY <1>6 DEF ExistsBijection
    <2>2. IsFiniteSet(rest)
      BY <1>5, FS_Subset
    <2> QED
      BY <1>5, <2>1, <2>2, FS_Bijection
  <1>8. Cardinality(I) = Cardinality(J) + One(Head(q), kind)
    <2>1. CASE 1 \in I
      <3>1. Cardinality(rest) = Cardinality(I) - 1 /\ Cardinality(I) \in Nat
        BY <1>5, <2>1, FS_RemoveElement, FS_CardinalityType
      <3> QED
        BY <1>4, <1>7, <2>1, <3>1 DEF One
    <2>2. CASE 1 \notin I
      <3>1. rest = I
        BY <2>2
      <3>2. Cardinality(I) \in Nat /\ Cardinality(rest) = Cardinality(I)
        BY <1>5, <3>1, FS_CardinalityType
      <3>3. One(Head(q), kind) = 0
        BY <1>4, <2>2 DEF One
      <3> QED
        BY <1>7, <3>2, <3>3
    <2> QED
      BY <2>1, <2>2
  <1>9. Those(q, kind) = Cardinality(I) /\ Those(Tail(q), kind) = Cardinality(J)
    BY DEF Those, I, J
  <1>10. Len(Tail(q)) < Len(q)
    BY <1>1, <1>2
  <1> QED
    BY <1>2, <1>8, <1>9, <1>10

LEMMA Joined ==
    ASSUME NEW q \in Seq(MsgType), NEW m \in MsgType, NEW n \in MsgType
    PROVE  /\ q \o <<m>> = Append(q, m)
           /\ q \o <<m, n>> = Append(Append(q, m), n)
           /\ Append(q, m) \in Seq(MsgType)
           /\ Append(Append(q, m), n) \in Seq(MsgType)
           /\ Len(Append(q, m)) = Len(q) + 1
           /\ Len(Append(Append(q, m), n)) = Len(q) + 2
  <1>1. Len(<<m>>) = 1 /\ Len(<<m, n>>) = 2 /\ <<m>>[1] = m
        /\ <<m, n>>[1] = m /\ <<m, n>>[2] = n
    OBVIOUS
  <1>2. PICK k \in Nat : k = Len(q)
    OBVIOUS
  <1>3. q \o <<m>> = Append(q, m)
    OBVIOUS
  <1>4. q \o <<m, n>> = Append(Append(q, m), n)
    OBVIOUS
  <1> QED
    BY <1>2, <1>3, <1>4

Plain(type) == [type |-> type, sector |-> 0, text |-> "none"]
Placing(type, p) == [type |-> type, sector |-> p, text |-> "none"]
Speech(type, text) == [type |-> type, sector |-> 0, text |-> text]
Beside(p) == {q \in 1 .. MAX_SECTOR : q - p \in {-1, 0, 1}}
Near(s) == {r \in Everyone \ {s} : at[r] \in Beside(at[s])}
Telling(R, msg) ==
    inq' = [r \in Everyone |-> IF r \in R THEN Append(inq[r], msg) ELSE inq[r]]

Answering(s) ==
    /\ outq[s] # <<>> /\ place' = place
    /\ outq' = [outq EXCEPT ![s] = Tail(outq[s])]
    /\ at' = IF Head(outq[s]).sector # 0 THEN [at EXCEPT ![s] = Head(outq[s]).sector] ELSE at
    /\ \/ /\ Head(outq[s]).type = "LocalChat"
          /\ \A r \in Near(s) : Len(inq[r]) < MaxOnWay
          /\ Telling(Near(s), Head(outq[s]))
       \/ /\ Head(outq[s]).type = "MoveStop"
          /\ Len(inq[s]) < MaxOnWay
          /\ Telling({s}, Plain("MoveStopComplete"))
       \/ /\ Head(outq[s]).type = "ChatEnd"
          /\ Len(inq[s]) < MaxOnWay
          /\ Telling({s}, Plain("ChatComplete"))
       \/ /\ Head(outq[s]).type \notin {"LocalChat", "MoveStop", "ChatEnd"}
          /\ Telling({}, Plain("ChatComplete"))

Accepting(s) ==
    /\ at[s] = 0
    /\ \E p \in 1 .. MAX_SECTOR : /\ at' = [at EXCEPT ![s] = p]
                                  /\ Telling({s}, Placing("CreateCharacter", p))
    /\ place' = place /\ outq' = outq

Closing(S) ==
    /\ place' = [s \in Everyone |-> IF s \in S THEN 0 ELSE place[s]]
    /\ inq' = [s \in Everyone |-> IF s \in S THEN <<>> ELSE inq[s]]
    /\ outq' = [s \in Everyone |-> IF s \in S THEN <<>> ELSE outq[s]]
    /\ at' = [s \in Everyone |-> IF s \in S THEN 0 ELSE at[s]]

(* ClientSide is the same in both clients.                                  *)
LEMMA DummyWay ==
    /\ D!Session = Everyone
    /\ D!ClientsInit => /\ place = [s \in Everyone |-> 0]
                        /\ inq = [s \in Everyone |-> <<>>]
                        /\ outq = [s \in Everyone |-> <<>>]
                        /\ at = [s \in Everyone |-> 0]
    /\ \A s : D!ServerAccepts(s) => Accepting(s)
    /\ \A s : D!ServerAnswers(s) => Answering(s)
    /\ \A S : D!Closed(S) <=> Closing(S)
    /\ \A p : D!Around(p) = Beside(p)
    /\ \A t : D!Msg(t) = Plain(t)
    /\ \A t : \A p : D!Placed(t, p) = Placing(t, p)
    /\ \A t : \A x : D!Saying(t, x) = Speech(t, x)
  <1>1. D!Session = Everyone
    BY DEF D!Session, Everyone
  <1>2. \A t : D!Msg(t) = Plain(t)
    BY DEF D!Msg, Plain
  <1>3. \A t : \A p : D!Placed(t, p) = Placing(t, p)
    BY DEF D!Msg, D!Placed, Placing
  <1>4. \A t : \A x : D!Saying(t, x) = Speech(t, x)
    BY DEF D!Msg, D!Saying, Speech
  <1>5. \A p : D!Around(p) = Beside(p)
    BY DEF D!Around, Beside
  <1>6. ASSUME NEW s, D!ServerAccepts(s)
        PROVE  Accepting(s)
    BY <1>1, <1>3, <1>6 DEF D!ServerAccepts, Accepting, D!Tell, Telling
  <1>7. ASSUME NEW s, D!ServerAnswers(s)
        PROVE  Answering(s)
    BY <1>1, <1>2, <1>5, <1>7
    DEF D!ServerAnswers, Answering, D!Tell, Telling, Near
  <1> QED
    BY <1>1, <1>2, <1>3, <1>4, <1>5, <1>6, <1>7
    DEF D!Closed, Closing, D!ClientsInit

LEMMA OlderWay ==
    /\ O!Session = Everyone
    /\ O!ClientsInit => /\ place = [s \in Everyone |-> 0]
                        /\ inq = [s \in Everyone |-> <<>>]
                        /\ outq = [s \in Everyone |-> <<>>]
                        /\ at = [s \in Everyone |-> 0]
    /\ \A s : O!ServerAccepts(s) => Accepting(s)
    /\ \A s : O!ServerAnswers(s) => Answering(s)
    /\ \A S : O!Closed(S) <=> Closing(S)
    /\ \A p : O!Around(p) = Beside(p)
    /\ \A t : O!Msg(t) = Plain(t)
    /\ \A t : \A p : O!Placed(t, p) = Placing(t, p)
    /\ \A t : \A x : O!Saying(t, x) = Speech(t, x)
  <1>1. O!Session = Everyone
    BY DEF O!Session, Everyone
  <1>2. \A t : O!Msg(t) = Plain(t)
    BY DEF O!Msg, Plain
  <1>3. \A t : \A p : O!Placed(t, p) = Placing(t, p)
    BY DEF O!Msg, O!Placed, Placing
  <1>4. \A t : \A x : O!Saying(t, x) = Speech(t, x)
    BY DEF O!Msg, O!Saying, Speech
  <1>5. \A p : O!Around(p) = Beside(p)
    BY DEF O!Around, Beside
  <1>6. ASSUME NEW s, O!ServerAccepts(s)
        PROVE  Accepting(s)
    BY <1>1, <1>3, <1>6 DEF O!ServerAccepts, Accepting, O!Tell, Telling
  <1>7. ASSUME NEW s, O!ServerAnswers(s)
        PROVE  Answering(s)
    BY <1>1, <1>2, <1>5, <1>7
    DEF O!ServerAnswers, Answering, O!Tell, Telling, Near
  <1> QED
    BY <1>1, <1>2, <1>3, <1>4, <1>5, <1>6, <1>7
    DEF O!Closed, Closing, O!ClientsInit

(* What is counted on the way.                                             *)
LEMMA CountedOnWay ==
    ASSUME NEW q \in Seq(MsgType), NEW type
    PROVE  /\ D!On(q, type) = Those(q, Of(type))
           /\ O!On(q, type) = Those(q, Of(type))
  <1>1. DOMAIN q = 1 .. Len(q) /\ \A i \in 1 .. Len(q) : q[i] \in MsgType
    OBVIOUS
  <1>2. {i \in DOMAIN q : q[i].type = type} = {i \in 1 .. Len(q) : q[i] \in Of(type)}
    BY <1>1 DEF Of
  <1> QED
    BY <1>2 DEF D!On, O!On, D!Cardinality, O!Cardinality, Cardinality, Those

LEMMA ToldMessage ==
    ASSUME Ways, NEW R, NEW msg \in MsgType, Telling(R, msg)
    PROVE  /\ inq' \in [Everyone -> Seq(MsgType)]
           /\ \A r \in Everyone :
                 /\ inq'[r] = IF r \in R THEN Append(inq[r], msg) ELSE inq[r]
                 /\ Len(inq'[r]) = Len(inq[r]) + (IF r \in R THEN 1 ELSE 0)
           /\ \A r \in Everyone : \A kind :
                 Those(inq'[r], kind) =
                    Those(inq[r], kind) + (IF r \in R THEN One(msg, kind) ELSE 0)
  <1>1. inq \in [Everyone -> Seq(MsgType)]
    BY DEF Ways
  <1>2. \A r \in Everyone :
           /\ inq[r] \in Seq(MsgType) /\ Append(inq[r], msg) \in Seq(MsgType)
           /\ inq'[r] = IF r \in R THEN Append(inq[r], msg) ELSE inq[r]
           /\ Len(Append(inq[r], msg)) = Len(inq[r]) + 1
           /\ Len(inq[r]) \in Nat
    BY <1>1 DEF Telling
  <1>3. inq' \in [Everyone -> Seq(MsgType)]
    BY <1>2 DEF Telling
  <1>4. ASSUME NEW r \in Everyone, NEW kind
        PROVE  Those(inq'[r], kind) =
                  Those(inq[r], kind) + (IF r \in R THEN One(msg, kind) ELSE 0)
    <2>1. inq[r] \in Seq(MsgType) /\ Those(inq[r], kind) \in Nat
      BY <1>2, ThoseFinite
    <2>2. Those(Append(inq[r], msg), kind) = Those(inq[r], kind) + One(msg, kind)
      BY <2>1, ThoseMore
    <2> QED
      BY <1>2, <2>1, <2>2
  <1>5. ASSUME NEW r \in Everyone
        PROVE  Len(inq'[r]) = Len(inq[r]) + (IF r \in R THEN 1 ELSE 0)
    <2>1. PICK q \in Seq(MsgType) : q = inq[r]
      BY <1>2
    <2>2. inq'[r] = IF r \in R THEN Append(q, msg) ELSE q
      BY <1>2, <2>1
    <2>3. Len(Append(q, msg)) = Len(q) + 1 /\ Len(q) \in Nat
      OBVIOUS
    <2>4. PICK n \in Nat : n = Len(q)
      BY <2>3
    <2>5. CASE r \in R
      <3>1. Len(inq'[r]) = n + 1
        BY <2>2, <2>3, <2>4, <2>5
      <3> QED
        BY <2>1, <2>4, <2>5, <3>1
    <2>6. CASE r \notin R
      <3>1. Len(inq'[r]) = n
        BY <2>2, <2>4, <2>6
      <3> QED
        BY <2>1, <2>4, <2>6, <3>1
    <2> QED
      BY <2>5, <2>6
  <1>6. \A r \in Everyone : inq'[r] = IF r \in R THEN Append(inq[r], msg) ELSE inq[r]
    BY <1>2
  <1> QED
    BY <1>3, <1>4, <1>5, <1>6

(* The messages that are sent are messages.                                 *)
LEMMA MessageTypes ==
    ASSUME MAX_SECTOR \in Nat
    PROVE
    /\ Plain("MoveStopComplete") \in MsgType
    /\ Plain("ChatComplete") \in MsgType
    /\ Plain("HeartBeat") \in MsgType
    /\ Plain("ChatEnd") \in MsgType
    /\ \A p \in 0 .. MAX_SECTOR :
          Placing("MoveStart", p) \in MsgType /\ Placing("MoveStop", p) \in MsgType
    /\ \A p \in 1 .. MAX_SECTOR : Placing("CreateCharacter", p) \in MsgType
    /\ \A text \in Text : Speech("LocalChat", text) \in MsgType
  <1>1. \A type \in {"HeartBeat", "ChatEnd", "MoveStopComplete", "ChatComplete"} :
           Plain(type) \in MsgType
    <2>1. 0 \in 0 .. MAX_SECTOR
      OBVIOUS
    <2> QED
      BY <2>1 DEF Plain, MsgType
  <1>2. \A p \in 0 .. MAX_SECTOR : Placing("MoveStart", p) \in MsgType
                                   /\ Placing("MoveStop", p) \in MsgType
    BY DEF Placing, MsgType
  <1>3. \A p \in 1 .. MAX_SECTOR : Placing("CreateCharacter", p) \in MsgType
    <2>1. \A p \in 1 .. MAX_SECTOR : p \in 0 .. MAX_SECTOR /\ p # 0
      OBVIOUS
    <2> QED
      BY <2>1 DEF Placing, MsgType
  <1>4. \A text \in Text : Speech("LocalChat", text) \in MsgType
    <2>1. 0 \in 0 .. MAX_SECTOR
      OBVIOUS
    <2> QED
      BY <2>1 DEF Speech, MsgType
  <1> QED
    BY <1>1, <1>2, <1>3, <1>4

(* Which of the counted kinds a message is of.                             *)
LEMMA KindOf ==
    ASSUME NEW m \in MsgType, NEW type
    PROVE  /\ One(m, Of(type)) = IF m.type = type THEN 1 ELSE 0
           /\ \A text : One(m, Said(text)) =
                 IF m.type = "LocalChat" /\ m.text = text THEN 1 ELSE 0
  BY DEF One, Of, Said

(* What the server does to what is on the way.                              *)
LEMMA AnsweringDoes ==
    ASSUME MAX_SECTOR \in Nat, MaxOnWay \in Nat, Ways, NEW s \in Everyone,
           Answering(s)
    PROVE  /\ Ways' /\ place' = place
           /\ \A r \in Everyone :
              /\ outq'[r] = IF r = s THEN Tail(outq[s]) ELSE outq[r]
              /\ at'[r] = IF r = s /\ Head(outq[s]).sector # 0
                          THEN Head(outq[s]).sector ELSE at[r]
              /\ Len(inq[r]) <= MaxOnWay => Len(inq'[r]) <= MaxOnWay
              /\ Len(outq'[r]) <= Len(outq[r])
              /\ inq'[r] # inq[r] => r = s \/ r \in Near(s)
              /\ Those(outq'[r], Of("MoveStop")) + Those(inq'[r], Of("MoveStopComplete"))
                   = Those(outq[r], Of("MoveStop")) + Those(inq[r], Of("MoveStopComplete"))
              /\ Those(outq'[r], Of("ChatEnd")) + Those(inq'[r], Of("ChatComplete"))
                   = Those(outq[r], Of("ChatEnd")) + Those(inq[r], Of("ChatComplete"))
              /\ Those(inq'[r], Of("CreateCharacter")) = Those(inq[r], Of("CreateCharacter"))
              /\ \A text : Those(inq'[r], Said(text)) = Those(inq[r], Said(text))
                    + (IF r \in Near(s) THEN One(Head(outq[s]), Said(text)) ELSE 0)
  <1> DEFINE m == Head(outq[s])
  <1>1. /\ outq[s] # <<>> /\ outq[s] \in Seq(MsgType) /\ m \in MsgType
        /\ Tail(outq[s]) \in Seq(MsgType) /\ outq' = [outq EXCEPT ![s] = Tail(outq[s])]
        /\ Len(Tail(outq[s])) < Len(outq[s]) /\ place' = place
    BY ThoseLess DEF Ways, Answering
  <1>2. \A r \in Everyone : outq'[r] = IF r = s THEN Tail(outq[s]) ELSE outq[r]
    BY <1>1 DEF Ways
  <1>3. outq' \in [Everyone -> Seq(MsgType)]
    BY <1>1 DEF Ways
  <1>4. m.sector \in 0 .. MAX_SECTOR
    BY <1>1 DEF MsgType
  <1>5. /\ at' \in [Everyone -> 0 .. MAX_SECTOR]
        /\ \A r \in Everyone : at'[r] = IF r = s /\ m.sector # 0 THEN m.sector ELSE at[r]
    BY <1>4 DEF Ways, Answering
  <1>6. ASSUME NEW r \in Everyone, NEW kind
        PROVE  Those(outq[r], kind) = Those(outq'[r], kind)
                                        + (IF r = s THEN One(m, kind) ELSE 0)
    <2>1. r # s => Those(outq[r], kind) \in Nat
      BY ThoseFinite DEF Ways
    <2> QED
      BY <1>1, <1>2, <2>1, ThoseLess
  <1>7. \A r \in Everyone : /\ Len(outq'[r]) <= Len(outq[r])
                            /\ Len(inq[r]) \in Nat /\ Len(outq[r]) \in Nat
    <2>1. \A r \in Everyone : Len(inq[r]) \in Nat /\ Len(outq[r]) \in Nat
      BY DEF Ways
    <2>2. Len(Tail(outq[s])) \in Nat
      BY <1>1
    <2> QED
      BY <1>1, <1>2, <2>1, <2>2
  <1>8. PICK R, msg :
           /\ msg \in MsgType /\ Telling(R, msg)
           /\ \A r \in Everyone : r \in R => Len(inq[r]) < MaxOnWay
           /\ \A r \in Everyone : r \in R => r = s \/ r \in Near(s)
           /\ msg.type # "CreateCharacter"
           /\ m.type = "LocalChat" => R = Near(s) /\ msg = m
           /\ m.type # "LocalChat" => msg.type # "LocalChat"
           /\ m.type = "MoveStop" => R = {s} /\ msg.type = "MoveStopComplete"
           /\ m.type # "MoveStop" => R = {} \/ msg.type # "MoveStopComplete"
           /\ m.type = "ChatEnd" => R = {s} /\ msg.type = "ChatComplete"
           /\ m.type # "ChatEnd" => R = {} \/ msg.type # "ChatComplete"
    <2>1. /\ Plain("MoveStopComplete") \in MsgType
          /\ Plain("MoveStopComplete").type = "MoveStopComplete"
          /\ Plain("ChatComplete") \in MsgType
          /\ Plain("ChatComplete").type = "ChatComplete"
      BY MessageTypes DEF Plain
    <2>2. \/ /\ m.type = "LocalChat"
             /\ \A r \in Near(s) : Len(inq[r]) < MaxOnWay
             /\ Telling(Near(s), m)
          \/ /\ m.type = "MoveStop"
             /\ Len(inq[s]) < MaxOnWay
             /\ Telling({s}, Plain("MoveStopComplete"))
          \/ /\ m.type = "ChatEnd"
             /\ Len(inq[s]) < MaxOnWay
             /\ Telling({s}, Plain("ChatComplete"))
          \/ /\ m.type \notin {"LocalChat", "MoveStop", "ChatEnd"}
             /\ Telling({}, Plain("ChatComplete"))
      BY DEF Answering
    <2> HIDE DEF m
    <2>3. CASE m.type = "LocalChat"
      BY <1>1, <2>2, <2>3
    <2>4. CASE m.type = "MoveStop"
      BY <2>1, <2>2, <2>4
    <2>5. CASE m.type = "ChatEnd"
      BY <2>1, <2>2, <2>5
    <2>6. CASE m.type \notin {"LocalChat", "MoveStop", "ChatEnd"}
      BY <2>1, <2>2, <2>6
    <2> QED
      BY <2>3, <2>4, <2>5, <2>6
  <1> HIDE DEF m
  <1>9. /\ inq' \in [Everyone -> Seq(MsgType)]
        /\ \A r \in Everyone :
              /\ inq'[r] = IF r \in R THEN Append(inq[r], msg) ELSE inq[r]
              /\ Len(inq'[r]) = Len(inq[r]) + (IF r \in R THEN 1 ELSE 0)
        /\ \A r \in Everyone : \A kind :
              Those(inq'[r], kind) =
                 Those(inq[r], kind) + (IF r \in R THEN One(msg, kind) ELSE 0)
    <2>1. msg \in MsgType /\ Telling(R, msg)
      BY <1>8
    <2> QED
      BY <2>1, ToldMessage
  <1>10. ASSUME NEW r \in Everyone
         PROVE  /\ Len(inq[r]) <= MaxOnWay => Len(inq'[r]) <= MaxOnWay
                /\ inq'[r] # inq[r] => r = s \/ r \in Near(s)
    <2>1. /\ inq'[r] = IF r \in R THEN Append(inq[r], msg) ELSE inq[r]
          /\ Len(inq'[r]) = Len(inq[r]) + (IF r \in R THEN 1 ELSE 0)
      BY <1>9
    <2>2. /\ r \in R => Len(inq[r]) < MaxOnWay
          /\ r \in R => r = s \/ r \in Near(s)
      BY <1>8
    <2> QED
      BY <1>7, <2>1, <2>2
  <1>11. ASSUME NEW r \in Everyone, NEW kind
         PROVE  Those(inq[r], kind) \in Nat /\ Those(outq'[r], kind) \in Nat
    BY <1>3, ThoseFinite DEF Ways
  <1>12. ASSUME NEW r \in Everyone
         PROVE  Those(outq'[r], Of("MoveStop")) + Those(inq'[r], Of("MoveStopComplete"))
                   = Those(outq[r], Of("MoveStop")) + Those(inq[r], Of("MoveStopComplete"))
    <2>1. /\ One(m, Of("MoveStop")) = IF m.type = "MoveStop" THEN 1 ELSE 0
          /\ One(msg, Of("MoveStopComplete")) = IF msg.type = "MoveStopComplete" THEN 1 ELSE 0
      BY <1>1, <1>8, KindOf
    <2>2. (IF r \in R THEN One(msg, Of("MoveStopComplete")) ELSE 0)
             = (IF r = s THEN One(m, Of("MoveStop")) ELSE 0)
      BY <1>8, <2>1
    <2>3. Those(inq'[r], Of("MoveStopComplete")) = Those(inq[r], Of("MoveStopComplete"))
             + (IF r \in R THEN One(msg, Of("MoveStopComplete")) ELSE 0)
      BY <1>9
    <2>4. Those(outq[r], Of("MoveStop")) = Those(outq'[r], Of("MoveStop"))
             + (IF r = s THEN One(m, Of("MoveStop")) ELSE 0)
      BY <1>6
    <2>5. /\ Those(inq[r], Of("MoveStopComplete")) \in Nat
          /\ Those(outq'[r], Of("MoveStop")) \in Nat
          /\ (IF r = s THEN One(m, Of("MoveStop")) ELSE 0) \in Nat
      BY <1>11, <2>1
    <2> QED
      BY <2>2, <2>3, <2>4, <2>5
  <1>13. ASSUME NEW r \in Everyone
         PROVE  Those(outq'[r], Of("ChatEnd")) + Those(inq'[r], Of("ChatComplete"))
                   = Those(outq[r], Of("ChatEnd")) + Those(inq[r], Of("ChatComplete"))
    <2>1. /\ One(m, Of("ChatEnd")) = IF m.type = "ChatEnd" THEN 1 ELSE 0
          /\ One(msg, Of("ChatComplete")) = IF msg.type = "ChatComplete" THEN 1 ELSE 0
      BY <1>1, <1>8, KindOf
    <2>2. (IF r \in R THEN One(msg, Of("ChatComplete")) ELSE 0)
             = (IF r = s THEN One(m, Of("ChatEnd")) ELSE 0)
      BY <1>8, <2>1
    <2>3. Those(inq'[r], Of("ChatComplete")) = Those(inq[r], Of("ChatComplete"))
             + (IF r \in R THEN One(msg, Of("ChatComplete")) ELSE 0)
      BY <1>9
    <2>4. Those(outq[r], Of("ChatEnd")) = Those(outq'[r], Of("ChatEnd"))
             + (IF r = s THEN One(m, Of("ChatEnd")) ELSE 0)
      BY <1>6
    <2>5. /\ Those(inq[r], Of("ChatComplete")) \in Nat
          /\ Those(outq'[r], Of("ChatEnd")) \in Nat
          /\ (IF r = s THEN One(m, Of("ChatEnd")) ELSE 0) \in Nat
      BY <1>11, <2>1
    <2> QED
      BY <2>2, <2>3, <2>4, <2>5
  <1>14. ASSUME NEW r \in Everyone
         PROVE  Those(inq'[r], Of("CreateCharacter")) = Those(inq[r], Of("CreateCharacter"))
    <2>1. One(msg, Of("CreateCharacter")) = 0
      BY <1>8, KindOf
    <2>2. Those(inq'[r], Of("CreateCharacter")) = Those(inq[r], Of("CreateCharacter"))
             + (IF r \in R THEN One(msg, Of("CreateCharacter")) ELSE 0)
      BY <1>9
    <2>3. Those(inq[r], Of("CreateCharacter")) \in Nat
      BY <1>11
    <2> QED
      BY <2>1, <2>2, <2>3
  <1>15. ASSUME NEW r \in Everyone, NEW text
         PROVE  Those(inq'[r], Said(text)) = Those(inq[r], Said(text))
                    + (IF r \in Near(s) THEN One(m, Said(text)) ELSE 0)
    <2>1. CASE m.type = "LocalChat"
      BY <1>8, <1>9, <2>1
    <2>2. CASE m.type # "LocalChat"
      <3>1. One(msg, Said(text)) = 0 /\ One(m, Said(text)) = 0
        BY <1>1, <1>8, <2>2, KindOf
      <3> QED
        BY <1>9, <1>11, <3>1
    <2> QED
      BY <2>1, <2>2
  <1>16. Ways'
    BY <1>1, <1>3, <1>5, <1>9 DEF Ways
  <1> QED
    BY <1>1, <1>2, <1>5, <1>7, <1>10, <1>12, <1>13, <1>14, <1>15, <1>16 DEF m

LEMMA AcceptingDoes ==
    ASSUME MAX_SECTOR \in Nat, Ways, NEW s \in Everyone, Accepting(s)
    PROVE  /\ Ways' /\ place' = place /\ outq' = outq /\ at[s] = 0 /\ at'[s] # 0
           /\ \A r \in Everyone :
              /\ r # s => at'[r] = at[r] /\ inq'[r] = inq[r]
              /\ Len(inq'[r]) = Len(inq[r]) + (IF r = s THEN 1 ELSE 0)
              /\ \A kind : Those(inq'[r], kind) = Those(inq[r], kind) +
                    (IF r = s THEN One(Placing("CreateCharacter", at'[s]), kind) ELSE 0)
           /\ Placing("CreateCharacter", at'[s]) \in MsgType
  <1>1. PICK p : /\ p \in 1 .. MAX_SECTOR /\ at' = [at EXCEPT ![s] = p]
                 /\ Telling({s}, Placing("CreateCharacter", p))
    BY DEF Accepting
  <1>2. /\ place' = place /\ outq' = outq /\ at[s] = 0 /\ at'[s] = p /\ p # 0
        /\ \A r \in Everyone : r # s => at'[r] = at[r]
        /\ at' \in [Everyone -> 0 .. MAX_SECTOR]
    BY <1>1 DEF Ways, Accepting
  <1>3. Placing("CreateCharacter", p) \in MsgType
    BY <1>1, MessageTypes
  <1>4. /\ inq' \in [Everyone -> Seq(MsgType)]
        /\ \A r \in Everyone :
              /\ inq'[r] = IF r \in {s} THEN Append(inq[r], Placing("CreateCharacter", p))
                                        ELSE inq[r]
              /\ Len(inq'[r]) = Len(inq[r]) + (IF r \in {s} THEN 1 ELSE 0)
        /\ \A r \in Everyone : \A kind :
              Those(inq'[r], kind) = Those(inq[r], kind)
                 + (IF r \in {s} THEN One(Placing("CreateCharacter", p), kind) ELSE 0)
    BY <1>1, <1>3, ToldMessage, ZenonT(40)
  <1>5. Ways'
    BY <1>2, <1>4 DEF Ways
  <1> QED
    BY <1>2, <1>3, <1>4, <1>5

LEMMA ClosingDoes ==
    ASSUME MAX_SECTOR \in Nat, Ways, NEW S, Closing(S)
    PROVE  /\ Ways'
           /\ \A r \in Everyone :
              IF r \in S
              THEN place'[r] = 0 /\ inq'[r] = <<>> /\ outq'[r] = <<>> /\ at'[r] = 0
              ELSE /\ place'[r] = place[r] /\ inq'[r] = inq[r]
                   /\ outq'[r] = outq[r] /\ at'[r] = at[r]
  <1>1. <<>> \in Seq(MsgType) /\ 0 \in 0 .. MAX_SECTOR
    OBVIOUS
  <1> QED
    BY <1>1 DEF Ways, Closing

(* What several sessions send at once.                                     *)
Sending(S, m) ==
    outq' = [s \in Everyone |-> IF s \in S THEN Append(outq[s], m[s]) ELSE outq[s]]
SendingTwo(S, m, n) ==
    outq' = [s \in Everyone |-> IF s \in S THEN Append(Append(outq[s], m[s]), n[s])
                                           ELSE outq[s]]

(* What a session sends, and what it takes.                                 *)
LEMMA SentMessage ==
    ASSUME Ways, NEW S, NEW m, \A s \in Everyone : s \in S => m[s] \in MsgType,
           Sending(S, m)
    PROVE  /\ outq' \in [Everyone -> Seq(MsgType)]
           /\ \A r \in Everyone :
                 Len(outq'[r]) = Len(outq[r]) + (IF r \in S THEN 1 ELSE 0)
           /\ \A r \in Everyone : outq'[r] = IF r \in S THEN Append(outq[r], m[r]) ELSE outq[r]
           /\ \A r \in Everyone : \A kind :
                 Those(outq'[r], kind) =
                    Those(outq[r], kind) + (IF r \in S THEN One(m[r], kind) ELSE 0)
  <1>1. \A r \in Everyone :
           /\ outq[r] \in Seq(MsgType)
           /\ r \in S => Append(outq[r], m[r]) \in Seq(MsgType)
           /\ outq'[r] = IF r \in S THEN Append(outq[r], m[r]) ELSE outq[r]
    BY DEF Sending, Ways
  <1>2. outq' \in [Everyone -> Seq(MsgType)]
    BY <1>1 DEF Sending
  <1>3. ASSUME NEW r \in Everyone, NEW kind
        PROVE  Those(outq'[r], kind) =
                  Those(outq[r], kind) + (IF r \in S THEN One(m[r], kind) ELSE 0)
    <2>1. outq[r] \in Seq(MsgType) /\ Those(outq[r], kind) \in Nat
      BY <1>1, ThoseFinite
    <2>2. r \in S => Those(Append(outq[r], m[r]), kind)
                        = Those(outq[r], kind) + One(m[r], kind)
      BY <2>1, ThoseMore
    <2> QED
      BY <1>1, <2>1, <2>2
  <1>4. ASSUME NEW r \in Everyone
        PROVE  Len(outq'[r]) = Len(outq[r]) + (IF r \in S THEN 1 ELSE 0)
    <2>1. PICK q \in Seq(MsgType) : q = outq[r]
      BY <1>1
    <2>2. outq'[r] = IF r \in S THEN Append(q, m[r]) ELSE q
      BY <1>1, <2>1
    <2>3. PICK k \in Nat : k = Len(q)
      OBVIOUS
    <2>4. CASE r \in S
      <3>1. Len(outq'[r]) = k + 1
        BY <2>2, <2>3, <2>4
      <3> QED
        BY <2>1, <2>3, <2>4, <3>1
    <2>5. CASE r \notin S
      <3>1. Len(outq'[r]) = k
        BY <2>2, <2>3, <2>5
      <3> QED
        BY <2>1, <2>3, <2>5, <3>1
    <2> QED
      BY <2>4, <2>5
  <1> QED
    BY <1>1, <1>2, <1>3, <1>4

LEMMA SentTwo ==
    ASSUME Ways, NEW S, NEW m, NEW n,
           \A s \in Everyone : s \in S => m[s] \in MsgType /\ n[s] \in MsgType,
           SendingTwo(S, m, n)
    PROVE  /\ outq' \in [Everyone -> Seq(MsgType)]
           /\ \A r \in Everyone :
                 Len(outq'[r]) = Len(outq[r]) + (IF r \in S THEN 2 ELSE 0)
           /\ \A r \in Everyone : outq'[r] = IF r \in S THEN Append(Append(outq[r], m[r]), n[r])
                                                       ELSE outq[r]
           /\ \A r \in Everyone : \A kind :
                 Those(outq'[r], kind) = Those(outq[r], kind)
                    + (IF r \in S THEN One(m[r], kind) + One(n[r], kind) ELSE 0)
  <1>1. \A r \in Everyone :
           /\ outq[r] \in Seq(MsgType)
           /\ r \in S => Append(outq[r], m[r]) \in Seq(MsgType)
           /\ r \in S => Append(Append(outq[r], m[r]), n[r]) \in Seq(MsgType)
           /\ outq'[r] = IF r \in S THEN Append(Append(outq[r], m[r]), n[r]) ELSE outq[r]
    BY DEF SendingTwo, Ways
  <1>2. outq' \in [Everyone -> Seq(MsgType)]
    BY <1>1 DEF SendingTwo
  <1>3. ASSUME NEW r \in Everyone, NEW kind
        PROVE  Those(outq'[r], kind) = Those(outq[r], kind)
                    + (IF r \in S THEN One(m[r], kind) + One(n[r], kind) ELSE 0)
    <2>1. outq[r] \in Seq(MsgType) /\ Those(outq[r], kind) \in Nat
      BY <1>1, ThoseFinite
    <2>2. r \in S => /\ Those(Append(outq[r], m[r]), kind)
                           = Those(outq[r], kind) + One(m[r], kind)
                     /\ Those(Append(Append(outq[r], m[r]), n[r]), kind)
                           = Those(Append(outq[r], m[r]), kind) + One(n[r], kind)
      BY <1>1, <2>1, ThoseMore
    <2>3. One(m[r], kind) \in Nat /\ One(n[r], kind) \in Nat
      BY DEF One
    <2> QED
      BY <1>1, <2>1, <2>2, <2>3
  <1>4. ASSUME NEW r \in Everyone
        PROVE  Len(outq'[r]) = Len(outq[r]) + (IF r \in S THEN 2 ELSE 0)
    <2>1. PICK q \in Seq(MsgType) : q = outq[r]
      BY <1>1
    <2>2. outq'[r] = IF r \in S THEN Append(Append(q, m[r]), n[r]) ELSE q
      BY <1>1, <2>1
    <2>3. PICK k \in Nat : k = Len(q)
      OBVIOUS
    <2>4. CASE r \in S
      <3>1. Len(outq'[r]) = k + 2
        BY <2>2, <2>3, <2>4
      <3> QED
        BY <2>1, <2>3, <2>4, <3>1
    <2>5. CASE r \notin S
      <3>1. Len(outq'[r]) = k
        BY <2>2, <2>3, <2>5
      <3> QED
        BY <2>1, <2>3, <2>5, <3>1
    <2> QED
      BY <2>4, <2>5
  <1> QED
    BY <1>1, <1>2, <1>3, <1>4

LEMMA TakenMessage ==
    ASSUME Ways, NEW s \in Everyone, inq[s] # <<>>,
           inq' = [inq EXCEPT ![s] = Tail(inq[s])]
    PROVE  /\ inq' \in [Everyone -> Seq(MsgType)] /\ Head(inq[s]) \in MsgType
           /\ \A r \in Everyone : inq'[r] = IF r = s THEN Tail(inq[s]) ELSE inq[r]
           /\ \A r \in Everyone : Len(inq'[r]) <= Len(inq[r]) /\ Len(inq[r]) \in Nat
                                  /\ Len(inq'[r]) \in Nat
           /\ \A r \in Everyone : \A kind :
                 /\ Those(inq[r], kind) = Those(inq'[r], kind)
                       + (IF r = s THEN One(Head(inq[s]), kind) ELSE 0)
                 /\ Those(inq'[r], kind) \in Nat
  <1>1. /\ inq[s] \in Seq(MsgType) /\ Tail(inq[s]) \in Seq(MsgType)
        /\ Head(inq[s]) \in MsgType /\ Len(Tail(inq[s])) < Len(inq[s])
        /\ inq \in [Everyone -> Seq(MsgType)]
    BY ThoseLess DEF Ways
  <1>2. inq' \in [Everyone -> Seq(MsgType)]
        /\ \A r \in Everyone : inq'[r] = IF r = s THEN Tail(inq[s]) ELSE inq[r]
    BY <1>1
  <1>3. ASSUME NEW r \in Everyone, NEW kind
        PROVE  /\ Those(inq[r], kind) = Those(inq'[r], kind)
                       + (IF r = s THEN One(Head(inq[s]), kind) ELSE 0)
               /\ Those(inq'[r], kind) \in Nat
    <2>1. Those(inq'[r], kind) \in Nat
      BY <1>2, ThoseFinite
    <2> QED
      BY <1>1, <1>2, <2>1, ThoseLess
  <1>4. \A r \in Everyone : Len(inq[r]) \in Nat /\ Len(inq'[r]) \in Nat
    BY <1>1, <1>2
  <1>5. \A r \in Everyone : Len(inq'[r]) <= Len(inq[r])
    BY <1>1, <1>2, <1>4
  <1> QED
    BY <1>1, <1>2, <1>3, <1>4, <1>5

-----------------------------------------------------------------------------
(* Which thread has which sessions.                                        *)
CrewSize == (clientCount + SESSION_PER_THREAD - 1) \div SESSION_PER_THREAD
Crew == 1 .. CrewSize
Keeper(s) == (s - 1) \div SESSION_PER_THREAD + 1

(* There is a thread for each session, and finitely many.                   *)
LEMMA CrewFacts ==
    ASSUME ProgramsAssumption
    PROVE  /\ CrewSize \in Nat /\ 1 \in Crew
           /\ IsFiniteSet(Crew) /\ Cardinality(Crew) = CrewSize
           /\ \A s \in Everyone : Keeper(s) \in Crew
  <1>1. clientCount \in Nat \ {0} /\ SESSION_PER_THREAD \in Nat \ {0}
    BY DEF ProgramsAssumption
  <1> DEFINE k == SESSION_PER_THREAD
             c == clientCount
             top == CrewSize
             over == (c + k - 1) % k
  <1>2. c + k - 1 = k * top + over /\ top \in Int /\ over \in 0 .. k - 1
    BY <1>1 DEF CrewSize
  <1> HIDE DEF top, over
  <1>3. k * top >= c
    BY <1>1, <1>2
  <1>4. top >= 1
    <2>1. top <= 0 => k * top <= 0
      BY <1>1, <1>2
    <2> QED
      BY <1>1, <1>2, <1>3, <2>1
  <1>5. ASSUME NEW s \in Everyone
        PROVE  Keeper(s) \in 1 .. top
    <2>1. s \in Nat /\ 1 <= s /\ s <= c
      BY <1>1 DEF Everyone
    <2> DEFINE q == (s - 1) \div k
               r == (s - 1) % k
    <2>2. s - 1 = k * q + r /\ q \in Int /\ r \in 0 .. k - 1
      BY <1>1, <2>1
    <2> HIDE DEF q, r
    <2>3. q >= 0
      <3>1. q <= -1 => k * q <= -k
        BY <1>1, <2>2
      <3> QED
        BY <1>1, <2>1, <2>2, <3>1
    <2>4. q < top
      <3>1. q >= top => k * q >= k * top
        BY <1>1, <1>2, <2>2
      <3> QED
        BY <1>1, <1>2, <1>3, <2>1, <2>2, <3>1
    <2>5. Keeper(s) = q + 1
      BY DEF Keeper, q
    <2> QED
      BY <1>2, <2>2, <2>3, <2>4, <2>5
  <1>6. CrewSize \in Nat /\ CrewSize >= 1
    BY <1>2, <1>4 DEF top
  <1>7. IsFiniteSet(1 .. CrewSize) /\ Cardinality(1 .. CrewSize) = CrewSize
    <2>1. PICK n \in Nat : n = CrewSize /\ n >= 1
      BY <1>6
    <2>2. IsFiniteSet(1 .. n) /\ Cardinality(1 .. n) = n
      <3>1. IF 1 > n THEN Cardinality(1 .. n) = 0 ELSE Cardinality(1 .. n) = n - 1 + 1
        BY <2>1, FS_Interval
      <3>2. IsFiniteSet(1 .. n)
        BY <2>1, FS_Interval
      <3> QED
        BY <2>1, <3>1, <3>2
    <2> QED
      BY <2>1, <2>2
  <1> QED
    BY <1>5, <1>6, <1>7 DEF Crew, top

LEMMA CrewsAre ==
    ASSUME ProgramsAssumption
    PROVE  /\ O!threadCount = CrewSize /\ D!threadCount = CrewSize
           /\ O!Threads = Crew /\ D!Threads = Crew
           /\ \A s : O!ThreadOf(s) = Keeper(s) /\ D!ThreadOf(s) = Keeper(s)
           /\ \A t \in Crew : /\ O!Mine(t) = {s \in Everyone : Keeper(s) = t}
                              /\ D!Mine(t) = {s \in Everyone : Keeper(s) = t}
  <1>1. O!threadCount = CrewSize /\ D!threadCount = CrewSize
    BY DEF O!threadCount, D!threadCount, CrewSize
  <1>2. O!Threads = Crew /\ D!Threads = Crew
    BY <1>1 DEF O!Threads, D!Threads, Crew
  <1>3. \A s : O!ThreadOf(s) = Keeper(s) /\ D!ThreadOf(s) = Keeper(s)
    BY DEF O!ThreadOf, D!ThreadOf, Keeper
  <1>4. ASSUME NEW t \in Crew
        PROVE  /\ O!Mine(t) = {s \in Everyone : Keeper(s) = t}
               /\ D!Mine(t) = {s \in Everyone : Keeper(s) = t}
    <2>1. t \in Int
      BY CrewFacts DEF Crew
    <2>2. ASSUME NEW s \in Everyone
          PROVE  (s - 1) \div SESSION_PER_THREAD = t - 1 <=> Keeper(s) = t
      <3>1. (s - 1) \div SESSION_PER_THREAD \in Int
        BY DEF ProgramsAssumption, Everyone
      <3> QED
        BY <2>1, <3>1 DEF Keeper
    <2> QED
      BY <2>2, DummyWay, OlderWay DEF O!Mine, D!Mine
  <1> QED
    BY <1>1, <1>2, <1>3, <1>4

(* There are finitely many sessions.                                        *)
LEMMA EveryoneFinite ==
    ASSUME ProgramsAssumption
    PROVE  /\ IsFiniteSet(Everyone)
           /\ \A S : S \subseteq Everyone => IsFiniteSet(S) /\ Cardinality(S) \in Nat
  <1>1. IsFiniteSet(Everyone)
    BY FS_Interval DEF ProgramsAssumption, Everyone
  <1> QED
    BY <1>1, FS_Subset, FS_CardinalityType

-----------------------------------------------------------------------------
(* The sessions with a flag.                                               *)
Flagged(f) == {s \in Everyone : f[s]}

(* Counting sessions with a flag: one is set or taken down, some are set,   *)
(* or none is.                                                              *)
LEMMA FlagOne ==
    ASSUME ProgramsAssumption, NEW f \in [Everyone -> BOOLEAN], NEW s \in Everyone,
           NEW b \in BOOLEAN, NEW g, g = [f EXCEPT ![s] = b]
    PROVE  /\ g \in [Everyone -> BOOLEAN] /\ g[s] = b
           /\ \A r \in Everyone : r # s => g[r] = f[r]
           /\ Cardinality(Flagged(f)) \in Nat
           /\ Cardinality(Flagged(g)) = Cardinality(Flagged(f))
                 + (IF b THEN IF f[s] THEN 0 ELSE 1 ELSE IF f[s] THEN -1 ELSE 0)
  <1>1. /\ g \in [Everyone -> BOOLEAN] /\ g[s] = b
        /\ \A r \in Everyone : r # s => g[r] = f[r]
    OBVIOUS
  <1>2. IsFiniteSet(Flagged(f)) /\ Cardinality(Flagged(f)) \in Nat
    BY EveryoneFinite DEF Flagged
  <1>3. CASE b = f[s]
    <2>1. Flagged(g) = Flagged(f)
      BY <1>1, <1>3 DEF Flagged
    <2> QED
      BY <1>1, <1>2, <1>3, <2>1
  <1>4. CASE b /\ ~f[s]
    <2>1. Flagged(g) = Flagged(f) \cup {s} /\ s \notin Flagged(f)
      BY <1>1, <1>4 DEF Flagged
    <2>2. Cardinality(Flagged(g)) = Cardinality(Flagged(f)) + 1
      BY <1>2, <2>1, OneMore
    <2> QED
      BY <1>1, <1>2, <1>4, <2>2
  <1>5. CASE ~b /\ f[s]
    <2>1. Flagged(g) = Flagged(f) \ {s} /\ s \in Flagged(f)
      BY <1>1, <1>5 DEF Flagged
    <2>2. Cardinality(Flagged(g)) = Cardinality(Flagged(f)) - 1
      BY <1>2, <2>1, OneLess
    <2> QED
      BY <1>1, <1>2, <1>5, <2>2
  <1> QED
    BY <1>3, <1>4, <1>5

LEMMA FlagSome ==
    ASSUME ProgramsAssumption, NEW f \in [Everyone -> BOOLEAN],
           NEW S, S \subseteq Everyone, \A s \in S : ~f[s],
           NEW g, g = [s \in Everyone |-> f[s] \/ s \in S]
    PROVE  /\ g \in [Everyone -> BOOLEAN]
           /\ Cardinality(Flagged(g)) = Cardinality(Flagged(f)) + Cardinality(S)
           /\ Cardinality(S) \in Nat
  <1>1. Flagged(g) = Flagged(f) \cup S /\ Flagged(f) \cap S = {}
    BY DEF Flagged
  <1>2. IsFiniteSet(Flagged(f)) /\ IsFiniteSet(S)
        /\ Cardinality(Flagged(f)) \in Nat /\ Cardinality(S) \in Nat
    BY EveryoneFinite DEF Flagged
  <1>3. Cardinality(Flagged(f) \cup S)
           = Cardinality(Flagged(f)) + Cardinality(S) - Cardinality(Flagged(f) \cap S)
    BY <1>2, FS_Union
  <1>4. Cardinality(Flagged(f) \cap S) = 0
    BY <1>1, FS_EmptySet
  <1>5. g \in [Everyone -> BOOLEAN]
    OBVIOUS
  <1>6. Cardinality(Flagged(g)) = Cardinality(Flagged(f)) + Cardinality(S)
    <2>1. Cardinality(Flagged(g)) = Cardinality(Flagged(f)) + Cardinality(S) - 0
      BY <1>1, <1>3, <1>4
    <2> HIDE DEF Flagged
    <2> QED
      BY <1>2, <2>1
  <1> QED
    BY <1>2, <1>5, <1>6

LEMMA FlagNone ==
    ASSUME ProgramsAssumption, NEW f \in [Everyone -> BOOLEAN]
    PROVE  /\ Cardinality(Flagged(f)) = 0 <=> \A s \in Everyone : ~f[s]
           /\ Cardinality(Flagged(f)) \in Nat
  <1>1. IsFiniteSet(Flagged(f)) /\ Cardinality(Flagged(f)) \in Nat
    BY EveryoneFinite DEF Flagged
  <1>2. Cardinality(Flagged(f)) = 0 <=> Flagged(f) = {}
    BY <1>1, FS_EmptySet
  <1>3. Flagged(f) = {} <=> \A s \in Everyone : ~f[s]
    BY DEF Flagged
  <1>4. Cardinality(Flagged(f)) = 0 <=> \A s \in Everyone : ~f[s]
    BY <1>2, <1>3, Zenon
  <1> QED
    BY <1>1, <1>4

-----------------------------------------------------------------------------
(* The older test client.                                                  *)
Stage == {"MOVING", "WAIT_STOP", "CHATTING", "WAIT_CHAT"}
Following == [MOVING |-> "WAIT_STOP", WAIT_STOP |-> "CHATTING",
              CHATTING |-> "WAIT_CHAT", WAIT_CHAT |-> "MOVING"]
Busy(t, stage) == trustMode = 0 /\ oldState[t] = stage /\ ~threadEnd[t]
Through == {t \in Crew : threadEnd[t] /\ oldState[t] = g_GlobalState}

StageTypes ==
    /\ trustMode \in {0, 1} /\ g_GlobalState \in Stage
    /\ waitThreadCount \in Nat /\ storing \in BOOLEAN
    /\ oldState \in [Crew -> Stage] /\ threadEnd \in [Crew -> BOOLEAN]
FlagTypes ==
    /\ conn \in [Everyone -> {"none", "session", "connected", "active"}]
    /\ isMoving \in [Everyone -> BOOLEAN] /\ isReadyForChat \in [Everyone -> BOOLEAN]
    /\ moveStopRecv \in [Everyone -> BOOLEAN] /\ chatSent \in [Everyone -> BOOLEAN]
    /\ moveStopCnt \in Int /\ chatPlayerCnt \in Int
RoomFor(s, n) == Len(outq[s]) + n <= MaxOnWay
Roomy == \A s \in Everyone : Len(inq[s]) <= MaxOnWay /\ Len(outq[s]) <= MaxOnWay
OlderTypes == StageTypes /\ FlagTypes /\ Ways /\ Roomy

Stages ==
    /\ \A t \in Crew : oldState[t] # g_GlobalState =>
          threadEnd[t] /\ Following[oldState[t]] = g_GlobalState
    /\ IF storing THEN Through = Crew /\ waitThreadCount = 0
       ELSE waitThreadCount = Cardinality(Through)
Offline ==
    \A s \in Everyone : conn[s] \in {"none", "session"} =>
        at[s] = 0 /\ inq[s] = <<>> /\ outq[s] = <<>>
Stopping(s) ==
    IF trustMode = 0
    THEN \/ g_GlobalState = "MOVING" /\ threadEnd[Keeper(s)] /\ oldState[Keeper(s)] = "MOVING"
         \/ /\ g_GlobalState = "WAIT_STOP"
            /\ \A t \in Crew : ~(oldState[t] = "WAIT_STOP" /\ threadEnd[t])
    ELSE ~isMoving[s]
StopSum(s) == Those(outq[s], Of("MoveStop")) + Those(inq[s], Of("MoveStopComplete"))
Stops ==
    /\ moveStopCnt = Cardinality(Flagged(moveStopRecv))
    /\ \A s \in Everyone : /\ moveStopRecv[s] => Stopping(s)
                           /\ StopSum(s) = IF moveStopRecv[s] THEN 1 ELSE 0
Talking(s) ==
    trustMode = 0 =>
       \/ oldState[Keeper(s)] = "CHATTING"
       \/ oldState[Keeper(s)] = "WAIT_CHAT" /\ ~threadEnd[Keeper(s)]
ChatSum(s) == Those(outq[s], Of("ChatEnd")) + Those(inq[s], Of("ChatComplete"))
Chats ==
    /\ chatPlayerCnt = Cardinality(Flagged(chatSent))
    /\ \A s \in Everyone :
          /\ chatSent[s] => conn[s] = "active" /\ Talking(s)
          /\ ChatSum(s) = IF chatSent[s] /\ ~Busy(Keeper(s), "CHATTING") THEN 1 ELSE 0

OlderInv == OlderTypes /\ Stages /\ Offline /\ Stops /\ Chats

(* ChatDummy in the words of this module.                                   *)
LEMMA OlderNames ==
    /\ O!After = Following
    /\ \A t, stage : O!In(t, stage) <=> Busy(t, stage)
    /\ \A S : O!Active(S) = {s \in S : conn[s] = "active"}
    /\ \A s, n : O!Room(s, n) <=> RoomFor(s, n)
    /\ \A S : O!Cardinality(S) = Cardinality(S)
  BY DEF O!After, Following, O!In, Busy, O!Active, O!Room, RoomFor, O!Cardinality, Cardinality

LEMMA OlderSends ==
    /\ \A S : O!Sent(S, LAMBDA s : <<O!Placed("MoveStart", place[s])>>) =>
          (Ways => Sending(S, [s \in Everyone |-> Placing("MoveStart", place[s])]))
    /\ \A S : O!Sent(S, LAMBDA s : <<O!Placed("MoveStop", place[s])>>) =>
          (Ways => Sending(S, [s \in Everyone |-> Placing("MoveStop", place[s])]))
    /\ \A S : O!Sent(S, LAMBDA s : <<O!Msg("ChatEnd")>>) =>
          (Ways => Sending(S, [s \in Everyone |-> Plain("ChatEnd")]))
    /\ \A S : \A text : O!Sent(S, LAMBDA s : <<O!Saying("LocalChat", text)>>) =>
          (Ways => Sending(S, [s \in Everyone |-> Speech("LocalChat", text)]))
    /\ \A S : \A text :
          O!Sent(S, LAMBDA s : <<O!Saying("LocalChat", text), O!Msg("ChatEnd")>>) =>
          (Ways => SendingTwo(S, [s \in Everyone |-> Speech("LocalChat", text)],
                                 [s \in Everyone |-> Plain("ChatEnd")]))
  <1>1. ASSUME Ways
        PROVE  \A s \in Everyone : \A m : outq[s] \o <<m>> = Append(outq[s], m)
    BY <1>1 DEF Ways
  <1>2. ASSUME Ways
        PROVE  \A s \in Everyone : \A m, n :
                  outq[s] \o <<m, n>> = Append(Append(outq[s], m), n)
    BY <1>2 DEF Ways
  <1>3. O!Session = Everyone
    BY OlderWay
  <1>4. ASSUME NEW S, O!Sent(S, LAMBDA s : <<O!Placed("MoveStart", place[s])>>), Ways
        PROVE  Sending(S, [s \in Everyone |-> Placing("MoveStart", place[s])])
    BY <1>1, <1>3, <1>4, OlderWay DEF O!Sent, Sending
  <1>5. ASSUME NEW S, O!Sent(S, LAMBDA s : <<O!Placed("MoveStop", place[s])>>), Ways
        PROVE  Sending(S, [s \in Everyone |-> Placing("MoveStop", place[s])])
    BY <1>1, <1>3, <1>5, OlderWay DEF O!Sent, Sending
  <1>6. ASSUME NEW S, O!Sent(S, LAMBDA s : <<O!Msg("ChatEnd")>>), Ways
        PROVE  Sending(S, [s \in Everyone |-> Plain("ChatEnd")])
    BY <1>1, <1>3, <1>6, OlderWay, ZenonT(40) DEF O!Sent, Sending
  <1>7. ASSUME NEW S, NEW text, O!Sent(S, LAMBDA s : <<O!Saying("LocalChat", text)>>), Ways
        PROVE  Sending(S, [s \in Everyone |-> Speech("LocalChat", text)])
    BY <1>1, <1>3, <1>7, OlderWay, ZenonT(40) DEF O!Sent, Sending
  <1>8. ASSUME NEW S, NEW text, Ways,
               O!Sent(S, LAMBDA s : <<O!Saying("LocalChat", text), O!Msg("ChatEnd")>>)
        PROVE  SendingTwo(S, [s \in Everyone |-> Speech("LocalChat", text)],
                                 [s \in Everyone |-> Plain("ChatEnd")])
    <2>1. outq' = [s \in Everyone |->
                       IF s \in S THEN outq[s] \o <<Speech("LocalChat", text), Plain("ChatEnd")>>
                                  ELSE outq[s]]
      BY <1>3, <1>8, OlderWay DEF O!Sent
    <2>2. \A s \in Everyone :
             outq[s] \o <<Speech("LocalChat", text), Plain("ChatEnd")>>
                = Append(Append(outq[s], Speech("LocalChat", text)), Plain("ChatEnd"))
      <3> DEFINE a == Speech("LocalChat", text)
                 b == Plain("ChatEnd")
      <3> SUFFICES ASSUME NEW s \in Everyone
                   PROVE  outq[s] \o <<a, b>> = Append(Append(outq[s], a), b)
        OBVIOUS
      <3> HIDE DEF a, b
      <3>1. outq[s] \in Seq(MsgType)
        BY <1>8 DEF Ways
      <3> QED
        BY <3>1
    <2> QED
      BY <2>1, <2>2 DEF SendingTwo
  <1> QED
    BY <1>4, <1>5, <1>6, <1>7, <1>8

(* At first all threads are at the start, and nobody is connected.          *)
LEMMA OlderInit ==
    ASSUME ProgramsAssumption, O!ChatInit
    PROVE  OlderInv
  <1>1. /\ place = [s \in Everyone |-> 0] /\ inq = [s \in Everyone |-> <<>>]
        /\ outq = [s \in Everyone |-> <<>>] /\ at = [s \in Everyone |-> 0]
        /\ trustMode \in {0, 1} /\ g_GlobalState = "MOVING" /\ waitThreadCount = 0
        /\ oldState = [t \in Crew |-> "MOVING"] /\ threadEnd = [t \in Crew |-> FALSE]
        /\ storing = FALSE /\ conn = [s \in Everyone |-> "none"]
        /\ isMoving = [s \in Everyone |-> FALSE] /\ isReadyForChat = [s \in Everyone |-> FALSE]
        /\ moveStopRecv = [s \in Everyone |-> FALSE] /\ chatSent = [s \in Everyone |-> FALSE]
        /\ moveStopCnt = 0 /\ chatPlayerCnt = 0
    BY OlderWay, CrewsAre DEF O!ChatInit, O!No
  <1>2. MAX_SECTOR \in Nat /\ MaxOnWay \in Nat /\ <<>> \in Seq(MsgType) /\ Len(<<>>) = 0
    BY DEF ProgramsAssumption
  <1>3. OlderTypes
    <2>1. StageTypes
      BY <1>1 DEF StageTypes, Stage
    <2>2. FlagTypes
      BY <1>1 DEF FlagTypes
    <2>3. Ways
      BY <1>1, <1>2 DEF Ways
    <2>4. Roomy
      BY <1>1, <1>2 DEF Roomy
    <2> QED
      BY <2>1, <2>2, <2>3, <2>4 DEF OlderTypes
  <1>4. Stages
    <2>1. Through = {}
      BY <1>1 DEF Through
    <2>2. Cardinality(Through) = 0
      BY <2>1, FS_EmptySet
    <2> QED
      BY <1>1, <2>2 DEF Stages
  <1>5. Offline
    BY <1>1 DEF Offline
  <1>6. \A kind : Those(<<>>, kind) = 0
    BY <1>2, ThoseNone
  <1>7. Cardinality(Flagged(moveStopRecv)) = 0 /\ Cardinality(Flagged(chatSent)) = 0
    BY <1>3, <1>1, FlagNone DEF OlderTypes, FlagTypes
  <1>8. Stops
    BY <1>1, <1>6, <1>7 DEF Stops, StopSum
  <1>9. Chats
    BY <1>1, <1>6, <1>7 DEF Chats, ChatSum
  <1> QED
    BY <1>3, <1>4, <1>5, <1>8, <1>9 DEF OlderInv

(* What the threads do to the states.                                       *)
LEMMA StatesStill ==
    ASSUME StageTypes, Stages, UNCHANGED O!states
    PROVE  /\ StageTypes' /\ Stages'
           /\ \A t, stage : Busy(t, stage)' <=> Busy(t, stage)
           /\ \A s : Talking(s)' <=> Talking(s)
           /\ \A s : isMoving'[s] = isMoving[s] => (Stopping(s)' <=> Stopping(s))
           /\ \A s : trustMode = 0 => (Stopping(s)' <=> Stopping(s))
           /\ trustMode' = trustMode
  <1>1. /\ trustMode' = trustMode /\ g_GlobalState' = g_GlobalState
        /\ waitThreadCount' = waitThreadCount /\ oldState' = oldState
        /\ threadEnd' = threadEnd /\ storing' = storing
    BY DEF O!states
  <1>2. StageTypes'
    BY <1>1 DEF StageTypes
  <1>3. Stages'
    <2>1. Through' = Through
      BY <1>1 DEF Through
    <2> QED
      BY <1>1, <2>1 DEF Stages
  <1> QED
    BY <1>1, <1>2, <1>3 DEF Busy, Talking, Stopping

(* A thread that is through with the state is counted once.                 *)
Ending(t) ==
    /\ threadEnd' = [threadEnd EXCEPT ![t] = TRUE]
    /\ waitThreadCount' = waitThreadCount + 1
    /\ UNCHANGED <<trustMode, g_GlobalState, oldState, storing>>

LEMMA EndingStages ==
    ASSUME ProgramsAssumption, StageTypes, Stages, NEW t \in Crew, ~threadEnd[t], Ending(t)
    PROVE  /\ StageTypes' /\ Stages' /\ oldState[t] = g_GlobalState
           /\ trustMode' = trustMode /\ oldState' = oldState
           /\ g_GlobalState' = g_GlobalState /\ threadEnd'[t] = TRUE
           /\ \A u \in Crew : u # t => threadEnd'[u] = threadEnd[u]
  <1>1. /\ trustMode' = trustMode /\ oldState' = oldState /\ storing' = storing
        /\ g_GlobalState' = g_GlobalState /\ threadEnd'[t] = TRUE
        /\ \A u \in Crew : u # t => threadEnd'[u] = threadEnd[u]
        /\ threadEnd' \in [Crew -> BOOLEAN] /\ waitThreadCount' = waitThreadCount + 1
    BY DEF Ending, StageTypes
  <1>2. oldState[t] = g_GlobalState
    BY DEF Stages
  <1>3. StageTypes'
    BY <1>1 DEF StageTypes
  <1>4. Through' = Through \cup {t} /\ t \notin Through
    BY <1>1, <1>2 DEF Through
  <1>5. IsFiniteSet(Through)
    BY CrewFacts, FS_Subset DEF Through
  <1>6. Cardinality(Through') = Cardinality(Through) + 1
    <2> DEFINE A == Through
               B == Through'
    <2>1. B = A \cup {t} /\ t \notin A /\ IsFiniteSet(A)
      BY <1>4, <1>5
    <2> HIDE DEF A, B
    <2>2. Cardinality(B) = Cardinality(A) + 1
      BY <2>1, OneMore
    <2> QED
      BY <2>2 DEF A, B
  <1>7. ~storing
    BY <1>4 DEF Stages
  <1>8. waitThreadCount' = Cardinality(Through')
    BY <1>1, <1>6, <1>7 DEF Stages
  <1>9. \A u \in Crew : oldState'[u] # g_GlobalState' =>
          threadEnd'[u] /\ Following[oldState'[u]] = g_GlobalState'
    BY <1>1, <1>2 DEF Stages
  <1> QED
    BY <1>1, <1>2, <1>3, <1>7, <1>8, <1>9 DEF Stages

LEMMA SeeingStages ==
    ASSUME ProgramsAssumption, StageTypes, Stages, NEW t \in Crew,
           oldState[t] # g_GlobalState,
           oldState' = [oldState EXCEPT ![t] = g_GlobalState],
           threadEnd' = [threadEnd EXCEPT ![t] = FALSE],
           UNCHANGED <<trustMode, g_GlobalState, waitThreadCount, storing>>
    PROVE  /\ StageTypes' /\ Stages' /\ threadEnd[t]
           /\ Following[oldState[t]] = g_GlobalState
           /\ trustMode' = trustMode /\ g_GlobalState' = g_GlobalState
           /\ oldState'[t] = g_GlobalState /\ threadEnd'[t] = FALSE
           /\ \A u \in Crew : u # t => /\ threadEnd'[u] = threadEnd[u]
                                       /\ oldState'[u] = oldState[u]
  <1>1. /\ trustMode' = trustMode /\ g_GlobalState' = g_GlobalState
        /\ oldState'[t] = g_GlobalState /\ threadEnd'[t] = FALSE
        /\ \A u \in Crew : u # t => /\ threadEnd'[u] = threadEnd[u]
                                    /\ oldState'[u] = oldState[u]
        /\ oldState' \in [Crew -> Stage] /\ threadEnd' \in [Crew -> BOOLEAN]
        /\ waitThreadCount' = waitThreadCount /\ storing' = storing
    BY DEF StageTypes
  <1>2. threadEnd[t] /\ Following[oldState[t]] = g_GlobalState
    BY DEF Stages
  <1>3. StageTypes'
    BY <1>1 DEF StageTypes
  <1>4. Through' = Through
    BY <1>1 DEF Through
  <1>5. Stages'
    BY <1>1, <1>4 DEF Stages
  <1> QED
    BY <1>1, <1>2, <1>3, <1>5

LEMMA GoingOnStages ==
    ASSUME ProgramsAssumption, StageTypes, Stages, O!GoOn
    PROVE  /\ StageTypes' /\ Stages'
           /\ trustMode' = trustMode /\ oldState' = oldState /\ threadEnd' = threadEnd
           /\ \/ g_GlobalState' = g_GlobalState
              \/ /\ g_GlobalState' = Following[g_GlobalState]
                 /\ \A t \in Crew : threadEnd[t] /\ oldState[t] = g_GlobalState
  <1>1. /\ trustMode' = trustMode /\ oldState' = oldState /\ threadEnd' = threadEnd
        /\ storing' = ~storing
    BY DEF O!GoOn
  <1>2. CASE storing
    <2>1. g_GlobalState' = Following[g_GlobalState] /\ waitThreadCount' = waitThreadCount
          /\ storing' = FALSE
      BY <1>1, <1>2, OlderNames DEF O!GoOn
    <2>2. Through = Crew /\ waitThreadCount = 0
      BY <1>2 DEF Stages
    <2>3. \A t \in Crew : threadEnd[t] /\ oldState[t] = g_GlobalState
      BY <2>2 DEF Through
    <2>4. Following[g_GlobalState] \in Stage /\ Following[g_GlobalState] # g_GlobalState
      BY DEF StageTypes, Stage, Following
    <2>5. Through' = {}
      BY <1>1, <2>1, <2>3, <2>4 DEF Through
    <2>6. Cardinality(Through') = 0
      BY <2>5, FS_EmptySet
    <2>7. Stages'
      BY <1>1, <2>1, <2>2, <2>3, <2>6 DEF Stages
    <2>8. StageTypes'
      BY <1>1, <2>1, <2>4 DEF StageTypes
    <2> QED
      BY <1>1, <2>1, <2>3, <2>7, <2>8
  <1>3. CASE ~storing
    <2>1. /\ g_GlobalState' = g_GlobalState /\ waitThreadCount' = 0 /\ storing' = TRUE
          /\ waitThreadCount = CrewSize
      BY <1>1, <1>3, CrewsAre DEF O!GoOn, O!AllThrough
    <2>2. Cardinality(Through) = Cardinality(Crew)
      BY <1>3, <2>1, CrewFacts DEF Stages
    <2>3. Through = Crew
      <3>1. Through \subseteq Crew /\ IsFiniteSet(Crew)
        BY CrewFacts DEF Through
      <3> HIDE DEF Through
      <3> QED
        BY <2>2, <3>1, FS_Subset
    <2>4. Through' = Crew
      <3>1. Through' = Through
        BY <1>1, <2>1 DEF Through
      <3> QED
        BY <2>3, <3>1
    <2>5. Stages'
      BY <1>1, <2>1, <2>4 DEF Stages
    <2>6. StageTypes'
      BY <1>1, <2>1 DEF StageTypes
    <2> QED
      BY <1>1, <2>1, <2>5, <2>6
  <1> QED
    BY <1>2, <1>3

-----------------------------------------------------------------------------
(* The actions of the older client, one by one.                             *)
LEMMA OlderConnect ==
    ASSUME ProgramsAssumption, OlderInv, NEW s \in Everyone, O!Connect(s)
    PROVE  OlderInv'
  <1>1. /\ conn[s] = "none" /\ conn' = [conn EXCEPT ![s] = "session"]
        /\ UNCHANGED O!states /\ UNCHANGED <<place, inq, outq, at>>
        /\ UNCHANGED <<isMoving, isReadyForChat, moveStopRecv, chatSent>>
        /\ moveStopCnt' = moveStopCnt /\ chatPlayerCnt' = chatPlayerCnt
    BY DEF O!Connect, O!flags, O!counts
  <1>2. OlderTypes /\ Stages /\ Offline /\ Stops /\ Chats /\ StageTypes /\ FlagTypes
    BY DEF OlderInv, OlderTypes
  <1>3. /\ StageTypes' /\ Stages'
        /\ \A t, stage : Busy(t, stage)' <=> Busy(t, stage)
        /\ \A r : Talking(r)' <=> Talking(r)
        /\ \A r : Stopping(r)' <=> Stopping(r)
    BY <1>1, <1>2, StatesStill
  <1>4. \A r \in Everyone : conn'[r] = IF r = s THEN "session" ELSE conn[r]
    BY <1>1, <1>2 DEF FlagTypes
  <1>5. OlderTypes'
    BY <1>1, <1>2, <1>3 DEF OlderTypes, FlagTypes, Ways, Roomy
  <1>6. Offline'
    BY <1>1, <1>2, <1>4 DEF Offline
  <1>7. Stops'
    BY <1>1, <1>2, <1>3 DEF Stops, StopSum, Flagged
  <1>8. Chats'
    BY <1>1, <1>2, <1>3, <1>4 DEF Chats, ChatSum, Flagged
  <1> QED
    BY <1>3, <1>5, <1>6, <1>7, <1>8 DEF OlderInv

(* What the messages on the way become: the sums of StopSum and ChatSum stay. *)
LEMMA OlderSumsStay ==
    ASSUME ProgramsAssumption, OlderInv, UNCHANGED O!states, UNCHANGED isMoving,
           UNCHANGED <<moveStopRecv, chatSent, moveStopCnt, chatPlayerCnt>>,
           \A r \in Everyone : chatSent[r] /\ conn[r] = "active" => conn'[r] = "active",
           \A r \in Everyone : StopSum(r)' = StopSum(r) /\ ChatSum(r)' = ChatSum(r)
    PROVE  StageTypes' /\ Stages' /\ Stops' /\ Chats'
  <1>1. StageTypes /\ Stages /\ Stops /\ Chats
    BY DEF OlderInv, OlderTypes
  <1>2. /\ StageTypes' /\ Stages'
        /\ \A t, stage : Busy(t, stage)' <=> Busy(t, stage)
        /\ \A r : Talking(r)' <=> Talking(r)
        /\ \A r : Stopping(r)' <=> Stopping(r)
    BY <1>1, StatesStill
  <1>3. Flagged(moveStopRecv)' = Flagged(moveStopRecv) /\ Flagged(chatSent)' = Flagged(chatSent)
    BY DEF Flagged
  <1>4. Stops'
    BY <1>1, <1>2, <1>3 DEF Stops
  <1>5. Chats'
    BY <1>1, <1>2, <1>3 DEF Chats
  <1> QED
    BY <1>2, <1>4, <1>5

LEMMA OlderConnects ==
    ASSUME ProgramsAssumption, OlderInv, NEW s \in Everyone, O!Connects(s)
    PROVE  OlderInv'
  <1>1. /\ conn[s] = "session" /\ conn' = [conn EXCEPT ![s] = "connected"]
        /\ Accepting(s) /\ UNCHANGED O!states /\ UNCHANGED isMoving
        /\ UNCHANGED isReadyForChat
        /\ UNCHANGED <<moveStopRecv, chatSent, moveStopCnt, chatPlayerCnt>>
    BY OlderWay DEF O!Connects, O!flags, O!counts
  <1>2. OlderTypes /\ Offline /\ Ways /\ FlagTypes /\ Roomy
        /\ MAX_SECTOR \in Nat /\ MaxOnWay \in Nat /\ 1 <= MaxOnWay
    BY DEF OlderInv, OlderTypes, ProgramsAssumption
  <1>3. /\ Ways' /\ place' = place /\ outq' = outq /\ at[s] = 0 /\ at'[s] # 0
        /\ \A r \in Everyone :
              /\ r # s => at'[r] = at[r] /\ inq'[r] = inq[r]
              /\ Len(inq'[r]) = Len(inq[r]) + (IF r = s THEN 1 ELSE 0)
              /\ \A kind : Those(inq'[r], kind) = Those(inq[r], kind) +
                    (IF r = s THEN One(Placing("CreateCharacter", at'[s]), kind) ELSE 0)
        /\ Placing("CreateCharacter", at'[s]) \in MsgType
    BY <1>1, <1>2, AcceptingDoes
  <1>4. \A r \in Everyone : conn'[r] = IF r = s THEN "connected" ELSE conn[r]
    BY <1>1, <1>2 DEF FlagTypes
  <1>5. ASSUME NEW r \in Everyone
        PROVE  StopSum(r)' = StopSum(r) /\ ChatSum(r)' = ChatSum(r)
    <2>1. /\ One(Placing("CreateCharacter", at'[s]), Of("MoveStopComplete")) = 0
          /\ One(Placing("CreateCharacter", at'[s]), Of("ChatComplete")) = 0
      BY DEF One, Of, Placing
    <2>2. /\ Those(inq[r], Of("MoveStopComplete")) \in Nat
          /\ Those(inq[r], Of("ChatComplete")) \in Nat
      BY <1>2, ThoseFinite DEF Ways
    <2>3. /\ Those(inq'[r], Of("MoveStopComplete")) = Those(inq[r], Of("MoveStopComplete"))
          /\ Those(inq'[r], Of("ChatComplete")) = Those(inq[r], Of("ChatComplete"))
      <3>1. \A kind : Those(inq'[r], kind) = Those(inq[r], kind) +
                    (IF r = s THEN One(Placing("CreateCharacter", at'[s]), kind) ELSE 0)
        BY <1>3
      <3>2. /\ Those(inq'[r], Of("MoveStopComplete"))
                  = Those(inq[r], Of("MoveStopComplete")) + 0
            /\ Those(inq'[r], Of("ChatComplete")) = Those(inq[r], Of("ChatComplete")) + 0
        BY <2>1, <3>1
      <3> QED
        BY <2>2, <3>2
    <2> QED
      BY <1>3, <2>3 DEF StopSum, ChatSum
  <1>6. StageTypes' /\ Stages' /\ Stops' /\ Chats'
    BY <1>1, <1>4, <1>5, OlderSumsStay
  <1>7. Offline'
    BY <1>2, <1>3, <1>4 DEF Offline
  <1>8. Roomy'
    <2>1. Len(inq[s]) = 0
      BY <1>1, <1>2 DEF Offline
    <2>2. \A r \in Everyone : Len(inq'[r]) <= MaxOnWay /\ Len(outq'[r]) <= MaxOnWay
      <3> SUFFICES ASSUME NEW r \in Everyone
                   PROVE  Len(inq'[r]) <= MaxOnWay /\ Len(outq'[r]) <= MaxOnWay
        OBVIOUS
      <3>1. Len(inq'[r]) = Len(inq[r]) + (IF r = s THEN 1 ELSE 0)
        BY <1>3
      <3>2. Len(inq[r]) <= MaxOnWay /\ Len(outq'[r]) <= MaxOnWay
        BY <1>2, <1>3 DEF Roomy
      <3>3. inq[r] \in Seq(MsgType)
        BY <1>2 DEF Ways
      <3>4. Len(inq[r]) \in Nat
        BY <3>3
      <3>5. CASE r = s
        <4>1. Len(inq'[r]) = 1
          BY <2>1, <3>1, <3>5, SMTT(20)
        <4> QED
          BY <1>2, <3>2, <4>1
      <3>6. CASE r # s
        <4>1. Len(inq'[r]) = Len(inq[r])
          BY <3>1, <3>4, <3>6
        <4> QED
          BY <3>2, <4>1
      <3> QED
        BY <3>5, <3>6
    <2> QED
      BY <2>2 DEF Roomy
  <1>9. FlagTypes'
    BY <1>1, <1>2 DEF FlagTypes
  <1> QED
    BY <1>3, <1>6, <1>7, <1>8, <1>9 DEF OlderInv, OlderTypes

LEMMA OlderAnswers ==
    ASSUME ProgramsAssumption, OlderInv, NEW s \in Everyone, O!Answers(s)
    PROVE  OlderInv'
  <1>1. /\ conn' = conn /\ Answering(s) /\ UNCHANGED O!states /\ UNCHANGED isMoving
        /\ UNCHANGED isReadyForChat
        /\ UNCHANGED <<moveStopRecv, chatSent, moveStopCnt, chatPlayerCnt>>
    BY OlderWay DEF O!Answers, O!flags, O!counts
  <1>2. OlderTypes /\ Offline /\ Ways /\ FlagTypes /\ Roomy
        /\ MAX_SECTOR \in Nat /\ MaxOnWay \in Nat
    BY DEF OlderInv, OlderTypes, ProgramsAssumption
  <1>3. /\ Ways' /\ place' = place
        /\ \A r \in Everyone :
              /\ outq'[r] = IF r = s THEN Tail(outq[s]) ELSE outq[r]
              /\ at'[r] = IF r = s /\ Head(outq[s]).sector # 0
                          THEN Head(outq[s]).sector ELSE at[r]
              /\ Len(inq[r]) <= MaxOnWay => Len(inq'[r]) <= MaxOnWay
              /\ Len(outq'[r]) <= Len(outq[r])
              /\ inq'[r] # inq[r] => r = s \/ r \in Near(s)
              /\ StopSum(r)' = StopSum(r) /\ ChatSum(r)' = ChatSum(r)
    BY <1>1, <1>2, AnsweringDoes DEF StopSum, ChatSum
  <1>4. StageTypes' /\ Stages' /\ Stops' /\ Chats'
    BY <1>1, <1>3, OlderSumsStay
  <1>5. outq[s] # <<>>
    BY <1>1 DEF Answering
  <1>6. Offline'
    <2> SUFFICES ASSUME NEW r \in Everyone, conn[r] \in {"none", "session"}
                 PROVE  at'[r] = 0 /\ inq'[r] = <<>> /\ outq'[r] = <<>>
      BY <1>1 DEF Offline
    <2>1. at[r] = 0 /\ inq[r] = <<>> /\ outq[r] = <<>> /\ r # s
      BY <1>2, <1>5 DEF Offline
    <2>2. r \notin Near(s)
      BY <1>2, <2>1 DEF Near, Beside
    <2> QED
      BY <1>3, <2>1, <2>2
  <1>7. Roomy'
    <2> SUFFICES ASSUME NEW r \in Everyone
                 PROVE  Len(inq'[r]) <= MaxOnWay /\ Len(outq'[r]) <= MaxOnWay
      BY DEF Roomy
    <2>1. Len(inq[r]) <= MaxOnWay /\ Len(outq[r]) <= MaxOnWay
      BY <1>2 DEF Roomy
    <2>2. outq[r] \in Seq(MsgType) /\ outq'[r] \in Seq(MsgType)
      BY <1>2, <1>3 DEF Ways
    <2>3. Len(outq[r]) \in Nat /\ Len(outq'[r]) \in Nat
      BY <2>2, SMTT(20)
    <2>4. Len(outq'[r]) <= Len(outq[r]) /\ Len(inq'[r]) <= MaxOnWay
      BY <1>3, <2>1
    <2> QED
      BY <1>2, <2>1, <2>3, <2>4, SMTT(20)
  <1>8. FlagTypes'
    BY <1>1, <1>2 DEF FlagTypes
  <1> QED
    BY <1>3, <1>4, <1>6, <1>7, <1>8 DEF OlderInv, OlderTypes

(* A message that has come is taken.                                       *)
LEMMA OlderTakes ==
    ASSUME ProgramsAssumption, OlderInv, NEW s \in Everyone, NEW type, O!Received(s, type)
    PROVE  /\ conn[s] \in {"connected", "active"} /\ inq[s] # <<>>
           /\ Head(inq[s]).type = type /\ Head(inq[s]) \in MsgType
           /\ UNCHANGED O!states /\ outq' = outq /\ at' = at
           /\ isMoving' = isMoving /\ isReadyForChat' = isReadyForChat
           /\ inq' \in [Everyone -> Seq(MsgType)] /\ Roomy'
           /\ \A r \in Everyone : r # s => inq'[r] = inq[r]
           /\ \A r \in Everyone : r # s \/ type # "MoveStopComplete" => StopSum(r)' = StopSum(r)
           /\ type = "MoveStopComplete" => StopSum(s) = StopSum(s)' + 1
           /\ \A r \in Everyone : r # s \/ type # "ChatComplete" => ChatSum(r)' = ChatSum(r)
           /\ type = "ChatComplete" => ChatSum(s) = ChatSum(s)' + 1
           /\ \A r \in Everyone : StopSum(r)' \in Nat /\ ChatSum(r)' \in Nat
  <1>1. /\ conn[s] \in {"connected", "active"} /\ inq[s] # <<>>
        /\ Head(inq[s]).type = type /\ inq' = [inq EXCEPT ![s] = Tail(inq[s])]
        /\ UNCHANGED O!states /\ outq' = outq /\ at' = at
        /\ isMoving' = isMoving /\ isReadyForChat' = isReadyForChat
    BY DEF O!Received
  <1>2. Ways /\ Roomy /\ MaxOnWay \in Nat
    BY DEF OlderInv, OlderTypes, ProgramsAssumption
  <1>3. /\ inq' \in [Everyone -> Seq(MsgType)] /\ Head(inq[s]) \in MsgType
        /\ \A r \in Everyone : inq'[r] = IF r = s THEN Tail(inq[s]) ELSE inq[r]
        /\ \A r \in Everyone : Len(inq'[r]) <= Len(inq[r]) /\ Len(inq[r]) \in Nat
                               /\ Len(inq'[r]) \in Nat
        /\ \A r \in Everyone : \A kind :
              /\ Those(inq[r], kind) = Those(inq'[r], kind)
                    + (IF r = s THEN One(Head(inq[s]), kind) ELSE 0)
              /\ Those(inq'[r], kind) \in Nat
    BY <1>1, <1>2, TakenMessage
  <1>4. /\ One(Head(inq[s]), Of("MoveStopComplete"))
             = (IF type = "MoveStopComplete" THEN 1 ELSE 0)
        /\ One(Head(inq[s]), Of("ChatComplete")) = (IF type = "ChatComplete" THEN 1 ELSE 0)
    BY <1>1, <1>3, KindOf
  <1>5. ASSUME NEW r \in Everyone
        PROVE  /\ r # s \/ type # "MoveStopComplete" => StopSum(r)' = StopSum(r)
               /\ r = s /\ type = "MoveStopComplete" => StopSum(r) = StopSum(r)' + 1
               /\ r # s \/ type # "ChatComplete" => ChatSum(r)' = ChatSum(r)
               /\ r = s /\ type = "ChatComplete" => ChatSum(r) = ChatSum(r)' + 1
               /\ StopSum(r)' \in Nat /\ ChatSum(r)' \in Nat
    <2>1. \A kind : Those(outq[r], kind) \in Nat
      BY <1>2, ThoseFinite DEF Ways
    <2>2. \A kind : /\ Those(inq[r], kind) = Those(inq'[r], kind)
                          + (IF r = s THEN One(Head(inq[s]), kind) ELSE 0)
                    /\ Those(inq'[r], kind) \in Nat
      BY <1>3
    <2>3. PICK a, b, c, d, e, f :
             /\ a = Those(outq[r], Of("MoveStop")) /\ a \in Nat
             /\ b = Those(outq[r], Of("ChatEnd")) /\ b \in Nat
             /\ c = Those(inq[r], Of("MoveStopComplete"))
             /\ d = Those(inq[r], Of("ChatComplete"))
             /\ e = Those(inq'[r], Of("MoveStopComplete")) /\ e \in Nat
             /\ f = Those(inq'[r], Of("ChatComplete")) /\ f \in Nat
             /\ c = e + (IF r = s /\ type = "MoveStopComplete" THEN 1 ELSE 0)
             /\ d = f + (IF r = s /\ type = "ChatComplete" THEN 1 ELSE 0)
      BY <1>4, <2>1, <2>2
    <2>4. StopSum(r) = a + c /\ ChatSum(r) = b + d /\ StopSum(r)' = a + e /\ ChatSum(r)' = b + f
      BY <1>1, <2>3 DEF StopSum, ChatSum
    <2> QED
      BY <2>3, <2>4
  <1>6. Roomy'
    BY <1>1, <1>2, <1>3 DEF Roomy
  <1> QED
    BY <1>1, <1>3, <1>5, <1>6

(* The messages the older client takes.                                     *)
LEMMA OlderCreates ==
    ASSUME ProgramsAssumption, OlderInv, NEW s \in Everyone, O!Packet_CreateCharacter(s)
    PROVE  OlderInv'
  <1>1. /\ O!Received(s, "CreateCharacter") /\ conn' = [conn EXCEPT ![s] = "active"]
        /\ place' = [place EXCEPT ![s] = Head(inq[s]).sector]
        /\ UNCHANGED <<moveStopRecv, chatSent, moveStopCnt, chatPlayerCnt>>
    BY DEF O!Packet_CreateCharacter
  <1>2. /\ conn[s] \in {"connected", "active"} /\ Head(inq[s]) \in MsgType
        /\ UNCHANGED O!states /\ outq' = outq /\ at' = at
        /\ isMoving' = isMoving /\ isReadyForChat' = isReadyForChat
        /\ inq' \in [Everyone -> Seq(MsgType)] /\ Roomy'
        /\ \A r \in Everyone : r # s => inq'[r] = inq[r]
        /\ \A r \in Everyone : StopSum(r)' = StopSum(r)
        /\ \A r \in Everyone : ChatSum(r)' = ChatSum(r)
        /\ \A r \in Everyone : StopSum(r)' \in Nat /\ ChatSum(r)' \in Nat
    BY <1>1, OlderTakes
  <1>3. OlderTypes /\ Offline /\ Ways /\ FlagTypes
    BY DEF OlderInv, OlderTypes
  <1>4. \A r \in Everyone : conn'[r] = IF r = s THEN "active" ELSE conn[r]
    BY <1>1, <1>3 DEF FlagTypes
  <1>5. \A r \in Everyone : StopSum(r)' = StopSum(r) /\ ChatSum(r)' = ChatSum(r)
    BY <1>2
  <1>6. StageTypes' /\ Stages' /\ Stops' /\ Chats'
    BY <1>1, <1>2, <1>4, <1>5, OlderSumsStay
  <1>7. Offline'
    BY <1>2, <1>3, <1>4 DEF Offline
  <1>8. Ways'
    <2>1. Head(inq[s]).sector \in 0 .. MAX_SECTOR
      BY <1>2 DEF MsgType
    <2> QED
      BY <1>1, <1>2, <1>3, <2>1 DEF Ways
  <1>9. FlagTypes'
    BY <1>1, <1>2, <1>3 DEF FlagTypes
  <1> QED
    BY <1>2, <1>6, <1>7, <1>8, <1>9 DEF OlderInv, OlderTypes

LEMMA OlderHears ==
    ASSUME ProgramsAssumption, OlderInv, NEW s \in Everyone, O!Packet_LocalChat(s)
    PROVE  OlderInv'
  <1>1. /\ O!Received(s, "LocalChat") /\ conn' = conn /\ place' = place
        /\ UNCHANGED <<moveStopRecv, chatSent, moveStopCnt, chatPlayerCnt>>
    BY DEF O!Packet_LocalChat
  <1>2. /\ conn[s] \in {"connected", "active"}
        /\ UNCHANGED O!states /\ outq' = outq /\ at' = at
        /\ isMoving' = isMoving /\ isReadyForChat' = isReadyForChat
        /\ inq' \in [Everyone -> Seq(MsgType)] /\ Roomy'
        /\ \A r \in Everyone : r # s => inq'[r] = inq[r]
        /\ \A r \in Everyone : StopSum(r)' = StopSum(r)
        /\ \A r \in Everyone : ChatSum(r)' = ChatSum(r)
        /\ \A r \in Everyone : StopSum(r)' \in Nat /\ ChatSum(r)' \in Nat
    BY <1>1, OlderTakes
  <1>3. OlderTypes /\ Offline /\ Ways /\ FlagTypes
    BY DEF OlderInv, OlderTypes
  <1>4. \A r \in Everyone : StopSum(r)' = StopSum(r) /\ ChatSum(r)' = ChatSum(r)
    BY <1>2
  <1>5. StageTypes' /\ Stages' /\ Stops' /\ Chats'
    BY <1>1, <1>2, <1>4, OlderSumsStay
  <1>6. Offline'
    BY <1>1, <1>2, <1>3 DEF Offline
  <1>7. Ways' /\ FlagTypes'
    BY <1>1, <1>2, <1>3 DEF Ways, FlagTypes
  <1> QED
    BY <1>2, <1>5, <1>6, <1>7 DEF OlderInv, OlderTypes

LEMMA OlderStopped ==
    ASSUME ProgramsAssumption, OlderInv, NEW s \in Everyone, O!Packet_MoveStopOk(s)
    PROVE  OlderInv'
  <1>1. /\ O!Received(s, "MoveStopComplete") /\ conn' = conn /\ place' = place
        /\ moveStopRecv' = [moveStopRecv EXCEPT ![s] = FALSE]
        /\ moveStopCnt' = moveStopCnt - 1
        /\ UNCHANGED <<chatSent, chatPlayerCnt>>
    BY DEF O!Packet_MoveStopOk
  <1>2. /\ conn[s] \in {"connected", "active"}
        /\ UNCHANGED O!states /\ outq' = outq /\ at' = at
        /\ isMoving' = isMoving /\ isReadyForChat' = isReadyForChat
        /\ inq' \in [Everyone -> Seq(MsgType)] /\ Roomy'
        /\ \A r \in Everyone : r # s => inq'[r] = inq[r]
        /\ \A r \in Everyone : r # s => StopSum(r)' = StopSum(r)
        /\ StopSum(s) = StopSum(s)' + 1
        /\ \A r \in Everyone : ChatSum(r)' = ChatSum(r)
        /\ \A r \in Everyone : StopSum(r)' \in Nat /\ ChatSum(r)' \in Nat
    BY <1>1, OlderTakes
  <1>3. OlderTypes /\ Offline /\ Ways /\ FlagTypes /\ StageTypes /\ Stages /\ Stops /\ Chats
    BY DEF OlderInv, OlderTypes
  <1>4. /\ StageTypes' /\ Stages'
        /\ \A t, stage : Busy(t, stage)' <=> Busy(t, stage)
        /\ \A r : Talking(r)' <=> Talking(r)
        /\ \A r : Stopping(r)' <=> Stopping(r)
    BY <1>2, <1>3, StatesStill
  <1>5. Chats'
    <2>1. Flagged(chatSent)' = Flagged(chatSent)
      BY <1>1 DEF Flagged
    <2>2. \A r \in Everyone : ChatSum(r)' = ChatSum(r)
      BY <1>2
    <2> QED
      BY <1>1, <1>3, <1>4, <2>1, <2>2 DEF Chats
  <1>6. moveStopRecv[s] /\ StopSum(s)' = 0
    <2>1. StopSum(s) = IF moveStopRecv[s] THEN 1 ELSE 0
      BY <1>3 DEF Stops
    <2>2. StopSum(s) = StopSum(s)' + 1 /\ StopSum(s)' \in Nat
      BY <1>2
    <2> QED
      BY <2>1, <2>2
  <1>7. /\ moveStopRecv' \in [Everyone -> BOOLEAN] /\ moveStopRecv'[s] = FALSE
        /\ \A r \in Everyone : r # s => moveStopRecv'[r] = moveStopRecv[r]
        /\ Cardinality(Flagged(moveStopRecv)) \in Nat
        /\ Cardinality(Flagged(moveStopRecv')) = Cardinality(Flagged(moveStopRecv)) - 1
    BY <1>1, <1>3, <1>6, FlagOne DEF FlagTypes
  <1>8. Stops'
    <2>1. moveStopCnt' = Cardinality(Flagged(moveStopRecv'))
      BY <1>1, <1>3, <1>7 DEF Stops
    <2>2. ASSUME NEW r \in Everyone
          PROVE  /\ moveStopRecv'[r] => Stopping(r)'
                 /\ StopSum(r)' = IF moveStopRecv'[r] THEN 1 ELSE 0
      <3>1. CASE r = s
        BY <1>6, <1>7, <3>1
      <3>2. CASE r # s
        <4>1. StopSum(r)' = StopSum(r) /\ moveStopRecv'[r] = moveStopRecv[r]
          BY <1>2, <1>7, <3>2
        <4> QED
          BY <1>3, <1>4, <4>1 DEF Stops
      <3> QED
        BY <3>1, <3>2
    <2> QED
      BY <2>1, <2>2 DEF Stops
  <1>9. Offline'
    BY <1>1, <1>2, <1>3 DEF Offline
  <1>10. Ways' /\ FlagTypes'
    <2>1. Ways'
      BY <1>1, <1>2, <1>3 DEF Ways
    <2>2. moveStopCnt' \in Int /\ chatPlayerCnt' \in Int
      BY <1>1, <1>3 DEF FlagTypes
    <2> QED
      BY <1>1, <1>2, <1>3, <1>7, <2>1, <2>2 DEF FlagTypes
  <1> QED
    BY <1>2, <1>4, <1>5, <1>8, <1>9, <1>10 DEF OlderInv, OlderTypes

LEMMA OlderChatted ==
    ASSUME ProgramsAssumption, OlderInv, NEW s \in Everyone, O!Packet_ChatComplete(s)
    PROVE  OlderInv'
  <1>1. /\ O!Received(s, "ChatComplete") /\ conn' = conn /\ place' = place
        /\ chatSent' = [chatSent EXCEPT ![s] = FALSE]
        /\ chatPlayerCnt' = chatPlayerCnt - 1
        /\ UNCHANGED <<moveStopRecv, moveStopCnt>>
    BY DEF O!Packet_ChatComplete
  <1>2. /\ conn[s] \in {"connected", "active"}
        /\ UNCHANGED O!states /\ outq' = outq /\ at' = at
        /\ isMoving' = isMoving /\ isReadyForChat' = isReadyForChat
        /\ inq' \in [Everyone -> Seq(MsgType)] /\ Roomy'
        /\ \A r \in Everyone : r # s => inq'[r] = inq[r]
        /\ \A r \in Everyone : StopSum(r)' = StopSum(r)
        /\ \A r \in Everyone : r # s => ChatSum(r)' = ChatSum(r)
        /\ ChatSum(s) = ChatSum(s)' + 1
        /\ \A r \in Everyone : StopSum(r)' \in Nat /\ ChatSum(r)' \in Nat
    BY <1>1, OlderTakes
  <1>3. OlderTypes /\ Offline /\ Ways /\ FlagTypes /\ StageTypes /\ Stages /\ Stops /\ Chats
    BY DEF OlderInv, OlderTypes
  <1>4. /\ StageTypes' /\ Stages'
        /\ \A t, stage : Busy(t, stage)' <=> Busy(t, stage)
        /\ \A r : Talking(r)' <=> Talking(r)
        /\ \A r : Stopping(r)' <=> Stopping(r)
    BY <1>2, <1>3, StatesStill
  <1>5. Stops'
    <2>1. Flagged(moveStopRecv)' = Flagged(moveStopRecv)
      BY <1>1 DEF Flagged
    <2>2. \A r \in Everyone : StopSum(r)' = StopSum(r)
      BY <1>2
    <2> QED
      BY <1>1, <1>3, <1>4, <2>1, <2>2 DEF Stops
  <1>6. chatSent[s] /\ ChatSum(s)' = 0
    <2>1. ChatSum(s) = IF chatSent[s] /\ ~Busy(Keeper(s), "CHATTING") THEN 1 ELSE 0
      BY <1>3 DEF Chats
    <2>2. ChatSum(s) = ChatSum(s)' + 1 /\ ChatSum(s)' \in Nat
      BY <1>2
    <2> QED
      BY <2>1, <2>2
  <1>7. /\ chatSent' \in [Everyone -> BOOLEAN] /\ chatSent'[s] = FALSE
        /\ \A r \in Everyone : r # s => chatSent'[r] = chatSent[r]
        /\ Cardinality(Flagged(chatSent)) \in Nat
        /\ Cardinality(Flagged(chatSent')) = Cardinality(Flagged(chatSent)) - 1
    BY <1>1, <1>3, <1>6, FlagOne DEF FlagTypes
  <1>8. Chats'
    <2>1. chatPlayerCnt' = Cardinality(Flagged(chatSent'))
      BY <1>1, <1>3, <1>7 DEF Chats
    <2>2. ASSUME NEW r \in Everyone
          PROVE  /\ chatSent'[r] => conn'[r] = "active" /\ Talking(r)'
                 /\ ChatSum(r)' = IF chatSent'[r] /\ ~Busy(Keeper(r), "CHATTING")'
                                  THEN 1 ELSE 0
      <3>1. CASE r = s
        BY <1>6, <1>7, <3>1
      <3>2. CASE r # s
        <4>1. ChatSum(r)' = ChatSum(r) /\ chatSent'[r] = chatSent[r]
          BY <1>2, <1>7, <3>2
        <4> QED
          BY <1>1, <1>3, <1>4, <4>1 DEF Chats
      <3> QED
        BY <3>1, <3>2
    <2> QED
      BY <2>1, <2>2 DEF Chats
  <1>9. Offline'
    BY <1>1, <1>2, <1>3 DEF Offline
  <1>10. Ways' /\ FlagTypes'
    <2>1. Ways'
      BY <1>1, <1>2, <1>3 DEF Ways
    <2>2. moveStopCnt' \in Int /\ chatPlayerCnt' \in Int
      BY <1>1, <1>3 DEF FlagTypes
    <2> QED
      BY <1>1, <1>2, <1>3, <1>7, <2>1, <2>2 DEF FlagTypes
  <1> QED
    BY <1>2, <1>4, <1>5, <1>8, <1>9, <1>10 DEF OlderInv, OlderTypes

(* A session that is closed takes what it has had counted with it.          *)
LEMMA OlderCloses ==
    ASSUME ProgramsAssumption, OlderInv, NEW s \in Everyone, O!CloseSession(s),
           UNCHANGED O!states
    PROVE  OlderInv'
  <1>1. /\ Closing({s}) /\ conn' = [conn EXCEPT ![s] = "none"]
        /\ isReadyForChat' = [isReadyForChat EXCEPT ![s] = FALSE]
        /\ isMoving' = [isMoving EXCEPT ![s] = FALSE]
        /\ chatSent' = [chatSent EXCEPT ![s] = FALSE]
        /\ chatPlayerCnt' = IF chatSent[s] THEN chatPlayerCnt - 1 ELSE chatPlayerCnt
        /\ moveStopRecv' = [moveStopRecv EXCEPT ![s] = FALSE]
        /\ moveStopCnt' = IF moveStopRecv[s] THEN moveStopCnt - 1 ELSE moveStopCnt
    BY OlderWay DEF O!CloseSession
  <1>2. OlderTypes /\ Offline /\ Ways /\ FlagTypes /\ StageTypes /\ Stages /\ Stops /\ Chats
        /\ Roomy /\ MAX_SECTOR \in Nat /\ MaxOnWay \in Nat
    BY DEF OlderInv, OlderTypes, ProgramsAssumption
  <1>3. /\ Ways'
        /\ place'[s] = 0 /\ inq'[s] = <<>> /\ outq'[s] = <<>> /\ at'[s] = 0
        /\ \A r \in Everyone : r # s =>
              /\ place'[r] = place[r] /\ inq'[r] = inq[r]
              /\ outq'[r] = outq[r] /\ at'[r] = at[r]
    BY <1>1, <1>2, ClosingDoes
  <1>4. /\ \A r \in Everyone : conn'[r] = IF r = s THEN "none" ELSE conn[r]
        /\ conn' \in [Everyone -> {"none", "session", "connected", "active"}]
        /\ isReadyForChat' \in [Everyone -> BOOLEAN]
        /\ isMoving' \in [Everyone -> BOOLEAN] /\ isMoving'[s] = FALSE
        /\ \A r \in Everyone : r # s => isMoving'[r] = isMoving[r]
    BY <1>1, <1>2 DEF FlagTypes
  <1>5. /\ chatSent' \in [Everyone -> BOOLEAN] /\ chatSent'[s] = FALSE
        /\ \A r \in Everyone : r # s => chatSent'[r] = chatSent[r]
        /\ Cardinality(Flagged(chatSent)) \in Nat
        /\ Cardinality(Flagged(chatSent'))
             = Cardinality(Flagged(chatSent)) + (IF chatSent[s] THEN -1 ELSE 0)
    BY <1>1, <1>2, FlagOne, ZenonT(60) DEF FlagTypes
  <1>6. /\ moveStopRecv' \in [Everyone -> BOOLEAN] /\ moveStopRecv'[s] = FALSE
        /\ \A r \in Everyone : r # s => moveStopRecv'[r] = moveStopRecv[r]
        /\ Cardinality(Flagged(moveStopRecv)) \in Nat
        /\ Cardinality(Flagged(moveStopRecv'))
             = Cardinality(Flagged(moveStopRecv)) + (IF moveStopRecv[s] THEN -1 ELSE 0)
    BY <1>1, <1>2, FlagOne, ZenonT(60) DEF FlagTypes
  <1>7. /\ StageTypes' /\ Stages'
        /\ \A t, stage : Busy(t, stage)' <=> Busy(t, stage)
        /\ \A r : Talking(r)' <=> Talking(r)
        /\ \A r : isMoving'[r] = isMoving[r] => (Stopping(r)' <=> Stopping(r))
    BY <1>2, StatesStill
  <1>8. StopSum(s)' = 0 /\ ChatSum(s)' = 0
    <2>1. \A kind : Those(<<>>, kind) = 0
      <3>1. inq[s] \in Seq(MsgType)
        BY <1>2 DEF Ways
      <3> QED
        BY <3>1, ThoseNone
    <2> QED
      BY <1>3, <2>1 DEF StopSum, ChatSum
  <1>9. \A r \in Everyone : r # s => StopSum(r)' = StopSum(r) /\ ChatSum(r)' = ChatSum(r)
    BY <1>3 DEF StopSum, ChatSum
  <1>10. Stops'
    <2>1. moveStopCnt' = Cardinality(Flagged(moveStopRecv'))
      BY <1>1, <1>2, <1>6 DEF Stops
    <2>2. ASSUME NEW r \in Everyone
          PROVE  /\ moveStopRecv'[r] => Stopping(r)'
                 /\ StopSum(r)' = IF moveStopRecv'[r] THEN 1 ELSE 0
      <3>1. CASE r = s
        BY <1>6, <1>8, <3>1
      <3>2. CASE r # s
        BY <1>2, <1>4, <1>6, <1>7, <1>9, <3>2 DEF Stops
      <3> QED
        BY <3>1, <3>2
    <2> QED
      BY <2>1, <2>2 DEF Stops
  <1>11. Chats'
    <2>1. chatPlayerCnt' = Cardinality(Flagged(chatSent'))
      BY <1>1, <1>2, <1>5 DEF Chats
    <2>2. ASSUME NEW r \in Everyone
          PROVE  /\ chatSent'[r] => conn'[r] = "active" /\ Talking(r)'
                 /\ ChatSum(r)' = IF chatSent'[r] /\ ~Busy(Keeper(r), "CHATTING")'
                                  THEN 1 ELSE 0
      <3>1. CASE r = s
        BY <1>5, <1>8, <3>1
      <3>2. CASE r # s
        BY <1>2, <1>4, <1>5, <1>7, <1>9, <3>2 DEF Chats
      <3> QED
        BY <3>1, <3>2
    <2> QED
      BY <2>1, <2>2 DEF Chats
  <1>12. Offline'
    BY <1>2, <1>3, <1>4 DEF Offline
  <1>13. FlagTypes'
    <2>1. moveStopCnt' \in Int /\ chatPlayerCnt' \in Int
      BY <1>1, <1>2 DEF FlagTypes
    <2> QED
      BY <1>4, <1>5, <1>6, <2>1 DEF FlagTypes
  <1>14. Roomy'
    <2>1. Len(<<>>) = 0
      OBVIOUS
    <2> QED
      BY <1>2, <1>3, <2>1, SMTT(20) DEF Roomy
  <1> QED
    BY <1>3, <1>7, <1>10, <1>11, <1>12, <1>13, <1>14 DEF OlderInv, OlderTypes

LEMMA OlderCountsStay ==
    ASSUME ProgramsAssumption, OlderInv, UNCHANGED O!states, conn' = conn,
           \A r \in Everyone : trustMode # 0 /\ moveStopRecv[r] => ~isMoving'[r],
           UNCHANGED <<moveStopRecv, chatSent, moveStopCnt, chatPlayerCnt>>,
           \A r \in Everyone : StopSum(r)' = StopSum(r) /\ ChatSum(r)' = ChatSum(r)
    PROVE  StageTypes' /\ Stages' /\ Stops' /\ Chats'
  <1>1. StageTypes /\ Stages /\ Stops /\ Chats
    BY DEF OlderInv, OlderTypes
  <1>2. /\ StageTypes' /\ Stages'
        /\ \A t, stage : Busy(t, stage)' <=> Busy(t, stage)
        /\ \A r : Talking(r)' <=> Talking(r)
        /\ \A r : trustMode = 0 => (Stopping(r)' <=> Stopping(r))
        /\ trustMode' = trustMode
    BY <1>1, StatesStill
  <1>3. Flagged(moveStopRecv)' = Flagged(moveStopRecv) /\ Flagged(chatSent)' = Flagged(chatSent)
    BY DEF Flagged
  <1>4. ASSUME NEW r \in Everyone, moveStopRecv[r]
        PROVE  Stopping(r)'
    <2>1. CASE trustMode = 0
      BY <1>1, <1>2, <1>4, <2>1 DEF Stops
    <2>2. CASE trustMode # 0
      BY <1>2, <1>4, <2>2 DEF Stopping
    <2> QED
      BY <2>1, <2>2
  <1>5. Stops'
    BY <1>1, <1>3, <1>4 DEF Stops
  <1>6. Chats'
    BY <1>1, <1>2, <1>3 DEF Chats
  <1> QED
    BY <1>2, <1>5, <1>6

(* What a session sends when there is room for it.                         *)
Fits(S, m) ==
    \A s \in Everyone : s \in S => m[s] \in MsgType /\ RoomFor(s, 1)

(* A session sends one message.                                             *)
LEMMA OlderSendsOne ==
    ASSUME ProgramsAssumption, Ways, Roomy, NEW S, NEW m, Fits(S, m), Sending(S, m),
           inq' = inq
    PROVE  /\ outq' \in [Everyone -> Seq(MsgType)] /\ Roomy'
           /\ \A r \in Everyone : r \notin S => outq'[r] = outq[r]
           /\ \A r \in Everyone :
                 StopSum(r)' = StopSum(r)
                    + (IF r \in S /\ m[r].type = "MoveStop" THEN 1 ELSE 0)
           /\ \A r \in Everyone :
                 ChatSum(r)' = ChatSum(r)
                    + (IF r \in S /\ m[r].type = "ChatEnd" THEN 1 ELSE 0)
           /\ \A r \in Everyone : StopSum(r) \in Nat /\ ChatSum(r) \in Nat
  <1>1. \A s \in Everyone : s \in S => m[s] \in MsgType
    BY DEF Fits
  <1>2. /\ outq' \in [Everyone -> Seq(MsgType)]
        /\ \A r \in Everyone : Len(outq'[r]) = Len(outq[r]) + (IF r \in S THEN 1 ELSE 0)
        /\ \A r \in Everyone : outq'[r] = IF r \in S THEN Append(outq[r], m[r]) ELSE outq[r]
    BY <1>1, SentMessage
  <1>3. ASSUME NEW r \in Everyone
        PROVE  /\ StopSum(r)' = StopSum(r)
                    + (IF r \in S /\ m[r].type = "MoveStop" THEN 1 ELSE 0)
               /\ ChatSum(r)' = ChatSum(r)
                    + (IF r \in S /\ m[r].type = "ChatEnd" THEN 1 ELSE 0)
               /\ StopSum(r) \in Nat /\ ChatSum(r) \in Nat
    <2>1. \A kind : Those(outq[r], kind) \in Nat /\ Those(inq[r], kind) \in Nat
      BY ThoseFinite DEF Ways
    <2>2. r \in S =>
             /\ One(m[r], Of("MoveStop")) = (IF m[r].type = "MoveStop" THEN 1 ELSE 0)
             /\ One(m[r], Of("ChatEnd")) = (IF m[r].type = "ChatEnd" THEN 1 ELSE 0)
      BY <1>1, KindOf
    <2>3. \A kind : Those(outq'[r], kind) =
             Those(outq[r], kind) + (IF r \in S THEN One(m[r], kind) ELSE 0)
      <3>1. outq[r] \in Seq(MsgType) /\ \A kind : Those(outq[r], kind) \in Nat
        BY <2>1 DEF Ways
      <3>2. r \in S => \A kind : Those(Append(outq[r], m[r]), kind)
                                    = Those(outq[r], kind) + One(m[r], kind)
        BY <1>1, <3>1, ThoseMore
      <3>3. CASE r \in S
        BY <1>2, <3>2, <3>3
      <3>4. CASE r \notin S
        BY <1>2, <3>1, <3>4, SMTT(20)
      <3> QED
        BY <3>3, <3>4
    <2> DEFINE x == IF r \in S /\ m[r].type = "MoveStop" THEN 1 ELSE 0
               y == IF r \in S /\ m[r].type = "ChatEnd" THEN 1 ELSE 0
    <2>4. /\ Those(outq'[r], Of("MoveStop")) = Those(outq[r], Of("MoveStop")) + x
          /\ Those(outq'[r], Of("ChatEnd")) = Those(outq[r], Of("ChatEnd")) + y
          /\ x \in Nat /\ y \in Nat
      BY <2>2, <2>3
    <2> HIDE DEF x, y
    <2>5. StopSum(r) \in Nat /\ StopSum(r)' = StopSum(r) + x
      BY <2>1, <2>4 DEF StopSum
    <2>6. ChatSum(r) \in Nat /\ ChatSum(r)' = ChatSum(r) + y
      BY <2>1, <2>4 DEF ChatSum
    <2> QED
      BY <2>5, <2>6 DEF x, y
  <1>4. ASSUME NEW r \in Everyone
        PROVE  Len(outq'[r]) <= MaxOnWay
    <2>1. outq[r] \in Seq(MsgType) /\ Len(outq[r]) <= MaxOnWay
      BY DEF Ways, Roomy
    <2>2. PICK n \in Nat : n = Len(outq[r])
      BY <2>1
    <2>3. r \in S => n + 1 <= MaxOnWay
      BY <2>2 DEF Fits, RoomFor
    <2>4. Len(outq'[r]) = n + (IF r \in S THEN 1 ELSE 0)
      BY <1>2, <2>2
    <2>5. CASE r \in S
      BY <2>3, <2>4, <2>5
    <2>6. CASE r \notin S
      BY <2>1, <2>2, <2>4, <2>6
    <2> QED
      BY <2>5, <2>6
  <1>5. Roomy'
    BY <1>4 DEF Roomy
  <1> QED
    BY <1>2, <1>3, <1>5

(* A character starts to move, or moves on.                                *)
LEMMA OlderMoves ==
    ASSUME ProgramsAssumption, OlderInv, NEW s \in Everyone, conn[s] = "active",
           trustMode = 0 \/ ~moveStopRecv[s],
           isMoving' = [isMoving EXCEPT ![s] = TRUE],
           \/ outq' = outq
           \/ /\ RoomFor(s, 1)
              /\ Sending({s}, [r \in Everyone |-> Placing("MoveStart", place[r])]),
           place' \in [Everyone -> 0 .. MAX_SECTOR], O!OnlyMoves
    PROVE  OlderInv'
  <1>1. /\ UNCHANGED O!states /\ conn' = conn /\ inq' = inq /\ at' = at
        /\ isReadyForChat' = isReadyForChat
        /\ UNCHANGED <<moveStopRecv, chatSent, moveStopCnt, chatPlayerCnt>>
    BY DEF O!OnlyMoves, O!counts
  <1>2. OlderTypes /\ Offline /\ Ways /\ FlagTypes /\ Roomy /\ Stops
        /\ MAX_SECTOR \in Nat /\ MaxOnWay \in Nat
    BY DEF OlderInv, OlderTypes, ProgramsAssumption
  <1>3. /\ isMoving' \in [Everyone -> BOOLEAN]
        /\ \A r \in Everyone : trustMode # 0 /\ moveStopRecv[r] => ~isMoving'[r]
    <2>1. \A r \in Everyone : trustMode # 0 /\ moveStopRecv[r] => ~isMoving[r] /\ r # s
      BY <1>2 DEF Stops, Stopping
    <2> QED
      BY <1>2, <2>1 DEF FlagTypes
  <1>4. /\ outq' \in [Everyone -> Seq(MsgType)] /\ Roomy'
        /\ \A r \in Everyone : r # s => outq'[r] = outq[r]
        /\ \A r \in Everyone : StopSum(r)' = StopSum(r) /\ ChatSum(r)' = ChatSum(r)
    <2>1. CASE outq' = outq
      BY <1>1, <1>2, <2>1 DEF Ways, Roomy, StopSum, ChatSum
    <2>2. CASE /\ RoomFor(s, 1)
               /\ Sending({s}, [r \in Everyone |-> Placing("MoveStart", place[r])])
      <3> DEFINE m == [r \in Everyone |-> Placing("MoveStart", place[r])]
      <3>1. \A r \in Everyone : m[r] \in MsgType /\ m[r].type = "MoveStart"
        BY <1>2, MessageTypes DEF Ways, Placing
      <3>2. Fits({s}, m)
        BY <2>2, <3>1 DEF Fits
      <3>3. Sending({s}, m)
        BY <2>2
      <3> HIDE DEF m
      <3>4. /\ outq' \in [Everyone -> Seq(MsgType)] /\ Roomy'
            /\ \A r \in Everyone : r \notin {s} => outq'[r] = outq[r]
            /\ \A r \in Everyone :
                  StopSum(r)' = StopSum(r)
                     + (IF r \in {s} /\ m[r].type = "MoveStop" THEN 1 ELSE 0)
            /\ \A r \in Everyone :
                  ChatSum(r)' = ChatSum(r)
                     + (IF r \in {s} /\ m[r].type = "ChatEnd" THEN 1 ELSE 0)
            /\ \A r \in Everyone : StopSum(r) \in Nat /\ ChatSum(r) \in Nat
        BY <1>1, <1>2, <3>2, <3>3, OlderSendsOne
      <3>5. ASSUME NEW r \in Everyone
            PROVE  StopSum(r)' = StopSum(r) /\ ChatSum(r)' = ChatSum(r)
        <4>1. m[r].type = "MoveStart"
          BY <3>1
        <4>2. /\ StopSum(r)' = StopSum(r) + 0 /\ ChatSum(r)' = ChatSum(r) + 0
              /\ StopSum(r) \in Nat /\ ChatSum(r) \in Nat
          BY <3>4, <4>1
        <4> QED
          BY <4>2
      <3> QED
        BY <3>4, <3>5
    <2> QED
      BY <2>1, <2>2
  <1>5. StageTypes' /\ Stages' /\ Stops' /\ Chats'
    BY <1>1, <1>3, <1>4, OlderCountsStay
  <1>6. Offline'
    BY <1>1, <1>2, <1>4 DEF Offline
  <1>7. Ways' /\ FlagTypes'
    <2>1. Ways'
      BY <1>1, <1>2, <1>4 DEF Ways
    <2> QED
      BY <1>1, <1>2, <1>3, <2>1 DEF FlagTypes
  <1> QED
    BY <1>4, <1>5, <1>6, <1>7 DEF OlderInv, OlderTypes

(* UpdateContent and the free steps.                                        *)
LEMMA OlderUpdates ==
    ASSUME ProgramsAssumption, OlderInv, NEW s \in Everyone, O!UpdateContent(s)
    PROVE  OlderInv'
  <1>1. CASE O!CloseSession(s) /\ UNCHANGED O!states
    BY <1>1, OlderCloses
  <1>2. CASE /\ O!Room(s, 1)
             /\ isMoving' = [isMoving EXCEPT ![s] = TRUE]
             /\ IF isMoving[s] THEN UNCHANGED outq
                ELSE O!Sent({s}, LAMBDA r : <<O!Placed("MoveStart", place[r])>>)
             /\ \E p \in O!Around(place[s]) : place' = [place EXCEPT ![s] = p]
             /\ O!OnlyMoves
    <2>1. Ways /\ MAX_SECTOR \in Nat
      BY DEF OlderInv, OlderTypes, ProgramsAssumption
    <2>2. trustMode = 0 /\ conn[s] = "active" /\ RoomFor(s, 1)
      BY <1>2, OlderNames DEF O!UpdateContent, O!In
    <2>3. outq' = outq \/ Sending({s}, [r \in Everyone |-> Placing("MoveStart", place[r])])
      BY <1>2, <2>1, OlderSends
    <2>4. place' \in [Everyone -> 0 .. MAX_SECTOR]
      <3>1. PICK p : /\ p \in 1 .. MAX_SECTOR /\ place' = [place EXCEPT ![s] = p]
        BY <1>2, OlderWay DEF Beside
      <3>2. p \in 0 .. MAX_SECTOR
        BY <2>1, <3>1
      <3> QED
        BY <2>1, <3>1, <3>2 DEF Ways
    <2> QED
      BY <1>2, <2>2, <2>3, <2>4, OlderMoves
  <1> QED
    BY <1>1, <1>2 DEF O!UpdateContent

LEMMA OlderMoveStart ==
    ASSUME ProgramsAssumption, OlderInv, NEW s \in Everyone, O!MoveStart(s)
    PROVE  OlderInv'
  <1>1. Ways
    BY DEF OlderInv, OlderTypes
  <1>2. /\ conn[s] = "active" /\ RoomFor(s, 1) /\ ~moveStopRecv[s]
        /\ isMoving' = [isMoving EXCEPT ![s] = TRUE] /\ place' = place /\ O!OnlyMoves
        /\ O!Sent({s}, LAMBDA r : <<O!Placed("MoveStart", place[r])>>)
    BY OlderNames DEF O!MoveStart, O!Freely
  <1>3. Sending({s}, [r \in Everyone |-> Placing("MoveStart", place[r])])
    BY <1>1, <1>2, OlderSends
  <1>4. place' \in [Everyone -> 0 .. MAX_SECTOR]
    BY <1>1, <1>2 DEF Ways
  <1> QED
    BY <1>2, <1>3, <1>4, OlderMoves

LEMMA OlderMoveStop ==
    ASSUME ProgramsAssumption, OlderInv, NEW s \in Everyone, O!MoveStop(s)
    PROVE  OlderInv'
  <1>1. /\ trustMode # 0 /\ conn[s] = "active" /\ UNCHANGED O!states
        /\ isMoving[s] /\ RoomFor(s, 1)
        /\ isMoving' = [isMoving EXCEPT ![s] = FALSE]
        /\ moveStopRecv' = [moveStopRecv EXCEPT ![s] = TRUE]
        /\ moveStopCnt' = moveStopCnt + 1
        /\ UNCHANGED <<conn, isReadyForChat, chatSent, chatPlayerCnt, place, inq, at>>
    BY OlderNames DEF O!MoveStop, O!Freely
  <1>2. OlderTypes /\ Offline /\ Ways /\ FlagTypes /\ StageTypes /\ Stages /\ Stops /\ Chats
        /\ Roomy /\ MAX_SECTOR \in Nat /\ MaxOnWay \in Nat
    BY DEF OlderInv, OlderTypes, ProgramsAssumption
  <1> DEFINE m == [r \in Everyone |-> Placing("MoveStop", place[r])]
  <1>3. \A r \in Everyone : m[r] \in MsgType /\ m[r].type = "MoveStop"
    BY <1>2, MessageTypes DEF Ways, Placing
  <1>4. Sending({s}, m)
    <2>1. O!Sent({s}, LAMBDA r : <<O!Placed("MoveStop", place[r])>>)
      BY DEF O!MoveStop
    <2> QED
      BY <1>2, <2>1, OlderSends
  <1> HIDE DEF m
  <1>5. Fits({s}, m)
    BY <1>1, <1>3 DEF Fits
  <1>6. /\ outq' \in [Everyone -> Seq(MsgType)] /\ Roomy'
        /\ \A r \in Everyone : r \notin {s} => outq'[r] = outq[r]
        /\ \A r \in Everyone :
              StopSum(r)' = StopSum(r)
                 + (IF r \in {s} /\ m[r].type = "MoveStop" THEN 1 ELSE 0)
        /\ \A r \in Everyone :
              ChatSum(r)' = ChatSum(r)
                 + (IF r \in {s} /\ m[r].type = "ChatEnd" THEN 1 ELSE 0)
        /\ \A r \in Everyone : StopSum(r) \in Nat /\ ChatSum(r) \in Nat
    BY <1>1, <1>2, <1>4, <1>5, OlderSendsOne
  <1>7. ~moveStopRecv[s]
    BY <1>1, <1>2 DEF Stops, Stopping
  <1>8. /\ StopSum(s)' = 1
        /\ \A r \in Everyone : r # s => StopSum(r)' = StopSum(r)
        /\ \A r \in Everyone : ChatSum(r)' = ChatSum(r)
    <2>1. StopSum(s) = 0
      BY <1>2, <1>7 DEF Stops
    <2>2. StopSum(s)' = StopSum(s) + 1
      BY <1>3, <1>6
    <2>3. ASSUME NEW r \in Everyone
          PROVE  /\ r # s => StopSum(r)' = StopSum(r) + 0
                 /\ ChatSum(r)' = ChatSum(r) + 0
                 /\ StopSum(r) \in Nat /\ ChatSum(r) \in Nat
      BY <1>3, <1>6
    <2> QED
      BY <2>1, <2>2, <2>3
  <1>9. /\ moveStopRecv' \in [Everyone -> BOOLEAN] /\ moveStopRecv'[s] = TRUE
        /\ \A r \in Everyone : r # s => moveStopRecv'[r] = moveStopRecv[r]
        /\ Cardinality(Flagged(moveStopRecv)) \in Nat
        /\ Cardinality(Flagged(moveStopRecv')) = Cardinality(Flagged(moveStopRecv)) + 1
    BY <1>1, <1>2, <1>7, FlagOne DEF FlagTypes
  <1>10. /\ isMoving' \in [Everyone -> BOOLEAN] /\ isMoving'[s] = FALSE
         /\ \A r \in Everyone : r # s => isMoving'[r] = isMoving[r]
    BY <1>1, <1>2 DEF FlagTypes
  <1>11. /\ StageTypes' /\ Stages'
         /\ \A t, stage : Busy(t, stage)' <=> Busy(t, stage)
         /\ \A r : Talking(r)' <=> Talking(r)
         /\ \A r : isMoving'[r] = isMoving[r] => (Stopping(r)' <=> Stopping(r))
         /\ trustMode' = trustMode
    BY <1>1, <1>2, StatesStill
  <1>12. Stops'
    <2>1. moveStopCnt' = Cardinality(Flagged(moveStopRecv'))
      BY <1>1, <1>2, <1>9 DEF Stops
    <2>2. ASSUME NEW r \in Everyone
          PROVE  /\ moveStopRecv'[r] => Stopping(r)'
                 /\ StopSum(r)' = IF moveStopRecv'[r] THEN 1 ELSE 0
      <3>1. CASE r = s
        <4>1. Stopping(s)'
          BY <1>1, <1>10, <1>11 DEF Stopping
        <4> QED
          BY <1>8, <1>9, <3>1, <4>1
      <3>2. CASE r # s
        BY <1>2, <1>8, <1>9, <1>10, <1>11, <3>2 DEF Stops
      <3> QED
        BY <3>1, <3>2
    <2> QED
      BY <2>1, <2>2 DEF Stops
  <1>13. Chats'
    <2>1. Flagged(chatSent)' = Flagged(chatSent)
      BY <1>1 DEF Flagged
    <2> QED
      BY <1>1, <1>2, <1>8, <1>11, <2>1 DEF Chats
  <1>14. Offline'
    BY <1>1, <1>2, <1>6 DEF Offline
  <1>15. Ways'
    BY <1>1, <1>2, <1>6 DEF Ways
  <1>16. FlagTypes'
    <2>1. moveStopCnt' \in Int
      BY <1>1, <1>2 DEF FlagTypes
    <2> QED
      BY <1>1, <1>2, <1>9, <1>10, <2>1 DEF FlagTypes
  <1> QED
    BY <1>6, <1>11, <1>12, <1>13, <1>14, <1>15, <1>16 DEF OlderInv, OlderTypes

LEMMA OlderChat ==
    ASSUME ProgramsAssumption, OlderInv, NEW s \in Everyone, O!Chat(s)
    PROVE  OlderInv'
  <1>1. /\ trustMode # 0 /\ conn[s] = "active" /\ UNCHANGED O!states
        /\ ~chatSent[s] /\ RoomFor(s, 2)
        /\ chatSent' = [chatSent EXCEPT ![s] = TRUE]
        /\ chatPlayerCnt' = chatPlayerCnt + 1
        /\ UNCHANGED <<conn, isMoving, isReadyForChat, moveStopRecv, moveStopCnt, place, inq, at>>
    BY OlderNames DEF O!Chat, O!Freely
  <1>2. OlderTypes /\ Offline /\ Ways /\ FlagTypes /\ StageTypes /\ Stages /\ Stops /\ Chats
        /\ Roomy /\ MAX_SECTOR \in Nat /\ MaxOnWay \in Nat
    BY DEF OlderInv, OlderTypes, ProgramsAssumption
  <1>3. PICK text \in Text :
           SendingTwo({s}, [r \in Everyone |-> Speech("LocalChat", text)],
                           [r \in Everyone |-> Plain("ChatEnd")])
    <2>1. PICK text \in Text :
             O!Sent({s}, LAMBDA r : <<O!Saying("LocalChat", text), O!Msg("ChatEnd")>>)
      BY DEF O!Chat
    <2> QED
      BY <1>2, <2>1, OlderSends
  <1> DEFINE m == [r \in Everyone |-> Speech("LocalChat", text)]
             n == [r \in Everyone |-> Plain("ChatEnd")]
  <1>4. \A r \in Everyone : /\ m[r] \in MsgType /\ m[r].type = "LocalChat"
                            /\ n[r] \in MsgType /\ n[r].type = "ChatEnd"
    BY <1>2, <1>3, MessageTypes DEF Speech, Plain
  <1>5. SendingTwo({s}, m, n)
    BY <1>3
  <1> HIDE DEF m, n
  <1>6. \A r \in Everyone : r \in {s} => m[r] \in MsgType /\ n[r] \in MsgType
    BY <1>4
  <1>7. /\ outq' \in [Everyone -> Seq(MsgType)]
        /\ \A r \in Everyone :
              Len(outq'[r]) = Len(outq[r]) + (IF r \in {s} THEN 2 ELSE 0)
        /\ \A r \in Everyone : outq'[r] = IF r \in {s} THEN Append(Append(outq[r], m[r]), n[r])
                                                    ELSE outq[r]
    BY <1>2, <1>5, <1>6, SentTwo
  <1>8. /\ ChatSum(s)' = 1
        /\ \A r \in Everyone : r # s => ChatSum(r)' = ChatSum(r)
        /\ \A r \in Everyone : StopSum(r)' = StopSum(r)
    <2>1. ChatSum(s) = 0
      BY <1>1, <1>2 DEF Chats
    <2>2. /\ One(m[s], Of("ChatEnd")) = 0 /\ One(n[s], Of("ChatEnd")) = 1
          /\ One(m[s], Of("MoveStop")) = 0 /\ One(n[s], Of("MoveStop")) = 0
      BY <1>4, KindOf
    <2>3. ASSUME NEW kind
          PROVE  /\ Those(outq'[s], kind) = Those(Append(outq[s], m[s]), kind) + One(n[s], kind)
                 /\ Those(Append(outq[s], m[s]), kind) = Those(outq[s], kind) + One(m[s], kind)
      <3>1. outq[s] \in Seq(MsgType) /\ m[s] \in MsgType /\ n[s] \in MsgType
        BY <1>2, <1>4 DEF Ways
      <3>2. Append(outq[s], m[s]) \in Seq(MsgType)
        BY <3>1
      <3>3. outq'[s] = Append(Append(outq[s], m[s]), n[s])
        BY <1>7
      <3> QED
        BY <3>1, <3>2, <3>3, ThoseMore
    <2>4. \A r \in Everyone : r # s => outq'[r] = outq[r]
      BY <1>7
    <2>5. /\ Those(outq[s], Of("ChatEnd")) \in Nat /\ Those(inq[s], Of("ChatComplete")) \in Nat
          /\ Those(outq[s], Of("MoveStop")) \in Nat
      BY <1>2, ThoseFinite DEF Ways
    <2>6. /\ Those(outq'[s], Of("ChatEnd")) = Those(outq[s], Of("ChatEnd")) + 1
          /\ Those(outq'[s], Of("MoveStop")) = Those(outq[s], Of("MoveStop")) + 0
      <3>1. /\ Those(outq'[s], Of("ChatEnd")) = Those(Append(outq[s], m[s]), Of("ChatEnd")) + 1
            /\ Those(Append(outq[s], m[s]), Of("ChatEnd")) = Those(outq[s], Of("ChatEnd")) + 0
        BY <2>2, <2>3
      <3>2. /\ Those(outq'[s], Of("MoveStop")) = Those(Append(outq[s], m[s]), Of("MoveStop")) + 0
            /\ Those(Append(outq[s], m[s]), Of("MoveStop")) = Those(outq[s], Of("MoveStop")) + 0
        BY <2>2, <2>3
      <3> QED
        BY <2>5, <3>1, <3>2
    <2>7. StopSum(s)' = StopSum(s)
      BY <1>1, <2>5, <2>6 DEF StopSum
    <2>8. ChatSum(s)' = ChatSum(s) + 1
      BY <1>1, <2>5, <2>6 DEF ChatSum
    <2> QED
      BY <1>1, <2>1, <2>4, <2>7, <2>8 DEF StopSum, ChatSum
  <1>9. /\ chatSent' \in [Everyone -> BOOLEAN] /\ chatSent'[s] = TRUE
        /\ \A r \in Everyone : r # s => chatSent'[r] = chatSent[r]
        /\ Cardinality(Flagged(chatSent)) \in Nat
        /\ Cardinality(Flagged(chatSent')) = Cardinality(Flagged(chatSent)) + 1
    BY <1>1, <1>2, FlagOne DEF FlagTypes
  <1>10. /\ StageTypes' /\ Stages'
         /\ \A t, stage : Busy(t, stage)' <=> Busy(t, stage)
         /\ \A r : Talking(r)' <=> Talking(r)
         /\ \A r : Stopping(r)' <=> Stopping(r)
         /\ trustMode' = trustMode
    BY <1>1, <1>2, StatesStill
  <1>11. Stops'
    <2>1. Flagged(moveStopRecv)' = Flagged(moveStopRecv)
      BY <1>1 DEF Flagged
    <2> QED
      BY <1>1, <1>2, <1>8, <1>10, <2>1 DEF Stops
  <1>12. Chats'
    <2>1. chatPlayerCnt' = Cardinality(Flagged(chatSent'))
      BY <1>1, <1>2, <1>9 DEF Chats
    <2>2. ASSUME NEW r \in Everyone
          PROVE  /\ chatSent'[r] => conn'[r] = "active" /\ Talking(r)'
                 /\ ChatSum(r)' = IF chatSent'[r] /\ ~Busy(Keeper(r), "CHATTING")'
                                  THEN 1 ELSE 0
      <3>1. CASE r = s
        <4>1. Talking(s)' /\ ~Busy(Keeper(s), "CHATTING")'
          BY <1>1, <1>10 DEF Talking, Busy
        <4> QED
          BY <1>1, <1>8, <1>9, <3>1, <4>1
      <3>2. CASE r # s
        BY <1>1, <1>2, <1>8, <1>9, <1>10, <3>2 DEF Chats
      <3> QED
        BY <3>1, <3>2
    <2> QED
      BY <2>1, <2>2 DEF Chats
  <1>13. Offline'
    BY <1>1, <1>2, <1>7 DEF Offline
  <1>14. Ways'
    BY <1>1, <1>2, <1>7 DEF Ways
  <1>15. FlagTypes'
    <2>1. chatPlayerCnt' \in Int
      BY <1>1, <1>2 DEF FlagTypes
    <2> QED
      BY <1>1, <1>2, <1>9, <2>1 DEF FlagTypes
  <1>16. Roomy'
    <2> SUFFICES ASSUME NEW r \in Everyone
                 PROVE  Len(inq[r]) <= MaxOnWay /\ Len(outq'[r]) <= MaxOnWay
      BY <1>1 DEF Roomy
    <2>1. Len(inq[r]) <= MaxOnWay /\ Len(outq[r]) <= MaxOnWay
      BY <1>2 DEF Roomy
    <2>2. PICK k \in Nat : k = Len(outq[r])
      <3>1. outq[r] \in Seq(MsgType)
        BY <1>2 DEF Ways
      <3> QED
        BY <3>1
    <2>3. CASE r = s
      <3>1. Len(outq'[r]) = k + 2
        BY <1>7, <2>2, <2>3
      <3>2. k + 2 <= MaxOnWay
        BY <1>1, <2>2, <2>3 DEF RoomFor
      <3> QED
        BY <2>1, <3>1, <3>2
    <2>4. CASE r # s
      <3>1. outq'[r] = outq[r]
        BY <1>7, <2>4
      <3> QED
        BY <2>1, <3>1
    <2> QED
      BY <2>3, <2>4
  <1> QED
    BY <1>10, <1>11, <1>12, <1>13, <1>14, <1>15, <1>16 DEF OlderInv, OlderTypes

LEMMA OlderUpdateChat ==
    ASSUME ProgramsAssumption, OlderInv, NEW s \in Everyone, O!UpdateChat(s)
    PROVE  OlderInv'
  <1>1. /\ Busy(Keeper(s), "CHATTING") /\ conn[s] = "active" /\ UNCHANGED O!states
        /\ RoomFor(s, 2)
        /\ chatSent' = [chatSent EXCEPT ![s] = TRUE]
        /\ chatPlayerCnt' = IF chatSent[s] THEN chatPlayerCnt ELSE chatPlayerCnt + 1
        /\ UNCHANGED <<conn, isMoving, isReadyForChat, moveStopRecv, moveStopCnt, place, inq, at>>
    BY OlderNames, CrewsAre DEF O!UpdateChat
  <1>2. OlderTypes /\ Offline /\ Ways /\ FlagTypes /\ StageTypes /\ Stages /\ Stops /\ Chats
        /\ Roomy /\ MAX_SECTOR \in Nat /\ MaxOnWay \in Nat
    BY DEF OlderInv, OlderTypes, ProgramsAssumption
  <1>3. PICK text \in Text : Sending({s}, [r \in Everyone |-> Speech("LocalChat", text)])
    <2>1. PICK text \in Text : O!Sent({s}, LAMBDA r : <<O!Saying("LocalChat", text)>>)
      BY DEF O!UpdateChat
    <2> QED
      BY <1>2, <2>1, OlderSends
  <1> DEFINE m == [r \in Everyone |-> Speech("LocalChat", text)]
  <1>4. \A r \in Everyone : m[r] \in MsgType /\ m[r].type = "LocalChat"
    BY <1>2, <1>3, MessageTypes DEF Speech
  <1>5. Sending({s}, m)
    BY <1>3
  <1> HIDE DEF m
  <1>6. Fits({s}, m)
    <2>1. outq[s] \in Seq(MsgType)
      BY <1>2 DEF Ways
    <2>2. Len(outq[s]) \in Nat
      BY <2>1
    <2>3. RoomFor(s, 1)
      <3>1. RoomFor(s, 2) /\ MaxOnWay \in Nat
        BY <1>1, <1>2
      <3> QED
        BY <2>2, <3>1 DEF RoomFor
    <2> QED
      BY <1>4, <2>3 DEF Fits
  <1>7. /\ outq' \in [Everyone -> Seq(MsgType)] /\ Roomy'
        /\ \A r \in Everyone : r \notin {s} => outq'[r] = outq[r]
        /\ \A r \in Everyone :
              StopSum(r)' = StopSum(r)
                 + (IF r \in {s} /\ m[r].type = "MoveStop" THEN 1 ELSE 0)
        /\ \A r \in Everyone :
              ChatSum(r)' = ChatSum(r)
                 + (IF r \in {s} /\ m[r].type = "ChatEnd" THEN 1 ELSE 0)
        /\ \A r \in Everyone : StopSum(r) \in Nat /\ ChatSum(r) \in Nat
    BY <1>1, <1>2, <1>5, <1>6, OlderSendsOne
  <1>8. \A r \in Everyone : StopSum(r)' = StopSum(r) /\ ChatSum(r)' = ChatSum(r)
    <2> SUFFICES ASSUME NEW r \in Everyone
                 PROVE  StopSum(r)' = StopSum(r) /\ ChatSum(r)' = ChatSum(r)
      OBVIOUS
    <2>1. m[r].type = "LocalChat"
      BY <1>4
    <2>2. /\ StopSum(r)' = StopSum(r) + 0 /\ ChatSum(r)' = ChatSum(r) + 0
          /\ StopSum(r) \in Nat /\ ChatSum(r) \in Nat
      BY <1>7, <2>1
    <2> QED
      BY <2>2
  <1>9. /\ chatSent' \in [Everyone -> BOOLEAN] /\ chatSent'[s] = TRUE
        /\ \A r \in Everyone : r # s => chatSent'[r] = chatSent[r]
        /\ Cardinality(Flagged(chatSent)) \in Nat
        /\ Cardinality(Flagged(chatSent'))
             = Cardinality(Flagged(chatSent)) + (IF chatSent[s] THEN 0 ELSE 1)
    BY <1>1, <1>2, FlagOne, ZenonT(60) DEF FlagTypes
  <1>10. /\ StageTypes' /\ Stages'
         /\ \A t, stage : Busy(t, stage)' <=> Busy(t, stage)
         /\ \A r : Talking(r)' <=> Talking(r)
         /\ \A r : Stopping(r)' <=> Stopping(r)
         /\ trustMode' = trustMode
    BY <1>1, <1>2, StatesStill
  <1>11. Stops'
    <2>1. Flagged(moveStopRecv)' = Flagged(moveStopRecv)
      BY <1>1 DEF Flagged
    <2> QED
      BY <1>1, <1>2, <1>8, <1>10, <2>1 DEF Stops
  <1>12. Chats'
    <2>1. chatPlayerCnt' = Cardinality(Flagged(chatSent'))
      BY <1>1, <1>2, <1>9 DEF Chats
    <2>2. ASSUME NEW r \in Everyone
          PROVE  /\ chatSent'[r] => conn'[r] = "active" /\ Talking(r)'
                 /\ ChatSum(r)' = IF chatSent'[r] /\ ~Busy(Keeper(r), "CHATTING")'
                                  THEN 1 ELSE 0
      <3>1. CASE r = s
        <4>1. Talking(s) /\ Busy(Keeper(s), "CHATTING")'
          BY <1>1, <1>10 DEF Talking, Busy
        <4>2. ChatSum(s)' = 0
          BY <1>1, <1>2, <1>8 DEF Chats
        <4> QED
          BY <1>1, <1>10, <3>1, <4>1, <4>2
      <3>2. CASE r # s
        BY <1>1, <1>2, <1>8, <1>9, <1>10, <3>2 DEF Chats
      <3> QED
        BY <3>1, <3>2
    <2> QED
      BY <2>1, <2>2 DEF Chats
  <1>13. Offline'
    BY <1>1, <1>2, <1>7 DEF Offline
  <1>14. Ways'
    BY <1>1, <1>2, <1>7 DEF Ways
  <1>15. FlagTypes'
    <2>1. chatPlayerCnt' \in Int
      BY <1>1, <1>2 DEF FlagTypes
    <2> QED
      BY <1>1, <1>2, <1>9, <2>1 DEF FlagTypes
  <1> QED
    BY <1>7, <1>10, <1>11, <1>12, <1>13, <1>14, <1>15 DEF OlderInv, OlderTypes

LEMMA OlderFreely ==
    ASSUME ProgramsAssumption, OlderInv, NEW s \in Everyone, O!FreeStep(s)
    PROVE  OlderInv'
  <1>1. CASE O!Freely(s) /\ O!CloseSession(s)
    BY <1>1, OlderCloses DEF O!Freely
  <1> QED
    BY <1>1, OlderMoveStart, OlderMoveStop, OlderChat DEF O!FreeStep

(* The steps of the threads.                                                *)
LEMMA OlderGoesOn ==
    ASSUME ProgramsAssumption, OlderInv, O!GoOn
    PROVE  OlderInv'
  <1>1. /\ UNCHANGED <<conn, isMoving, isReadyForChat, moveStopRecv, chatSent>>
        /\ UNCHANGED <<moveStopCnt, chatPlayerCnt, place, inq, outq, at>>
    BY DEF O!GoOn, O!flags, O!counts
  <1>2. OlderTypes /\ Offline /\ Ways /\ FlagTypes /\ StageTypes /\ Stages /\ Stops /\ Chats
        /\ Roomy
    BY DEF OlderInv, OlderTypes
  <1>3. /\ StageTypes' /\ Stages'
        /\ trustMode' = trustMode /\ oldState' = oldState /\ threadEnd' = threadEnd
        /\ \/ g_GlobalState' = g_GlobalState
           \/ /\ g_GlobalState' = Following[g_GlobalState]
              /\ \A t \in Crew : threadEnd[t] /\ oldState[t] = g_GlobalState
    BY <1>2, GoingOnStages
  <1>4. ASSUME NEW s \in Everyone, moveStopRecv[s]
        PROVE  Stopping(s)'
    <2>1. Stopping(s)
      BY <1>2, <1>4 DEF Stops
    <2>2. CASE g_GlobalState' = g_GlobalState
      BY <1>1, <1>3, <2>1, <2>2 DEF Stopping
    <2>3. CASE trustMode # 0
      BY <1>1, <1>3, <2>1, <2>3 DEF Stopping
    <2>4. CASE /\ trustMode = 0 /\ g_GlobalState' = Following[g_GlobalState]
               /\ \A t \in Crew : threadEnd[t] /\ oldState[t] = g_GlobalState
      <3>1. 1 \in Crew
        BY CrewFacts
      <3>2. g_GlobalState = "MOVING"
        BY <2>1, <2>4, <3>1 DEF Stopping
      <3>3. g_GlobalState' = "WAIT_STOP"
        BY <2>4, <3>2 DEF Following
      <3>4. \A t \in Crew : oldState'[t] # "WAIT_STOP"
        BY <1>3, <2>4, <3>2
      <3> QED
        BY <1>3, <2>4, <3>3, <3>4 DEF Stopping
    <2> QED
      BY <1>3, <2>2, <2>3, <2>4
  <1>5. Stops'
    <2>1. Flagged(moveStopRecv)' = Flagged(moveStopRecv)
      BY <1>1 DEF Flagged
    <2>2. \A s \in Everyone : StopSum(s)' = StopSum(s)
      BY <1>1 DEF StopSum
    <2> QED
      BY <1>1, <1>2, <1>4, <2>1, <2>2 DEF Stops
  <1>6. Chats'
    <2>1. Flagged(chatSent)' = Flagged(chatSent)
      BY <1>1 DEF Flagged
    <2>2. \A s \in Everyone : ChatSum(s)' = ChatSum(s)
      BY <1>1 DEF ChatSum
    <2>3. \A s \in Everyone : /\ Talking(s)' <=> Talking(s)
                              /\ Busy(Keeper(s), "CHATTING")' <=> Busy(Keeper(s), "CHATTING")
      BY <1>3 DEF Talking, Busy
    <2> QED
      BY <1>1, <1>2, <2>1, <2>2, <2>3 DEF Chats
  <1>7. Offline' /\ Ways' /\ FlagTypes' /\ Roomy'
    BY <1>1, <1>2 DEF Offline, Ways, FlagTypes, Roomy
  <1> QED
    BY <1>3, <1>5, <1>6, <1>7 DEF OlderInv, OlderTypes

LEMMA OlderSees ==
    ASSUME ProgramsAssumption, OlderInv, NEW t \in Crew, O!SeeState(t)
    PROVE  OlderInv'
  <1>1. /\ UNCHANGED <<conn, isMoving, isReadyForChat, moveStopRecv, chatSent>>
        /\ UNCHANGED <<moveStopCnt, chatPlayerCnt, place, inq, outq, at>>
        /\ oldState[t] # g_GlobalState
        /\ oldState' = [oldState EXCEPT ![t] = g_GlobalState]
        /\ threadEnd' = [threadEnd EXCEPT ![t] = FALSE]
        /\ UNCHANGED <<trustMode, g_GlobalState, waitThreadCount, storing>>
    BY DEF O!SeeState, O!flags, O!counts
  <1>2. OlderTypes /\ Offline /\ Ways /\ FlagTypes /\ StageTypes /\ Stages /\ Stops /\ Chats
        /\ Roomy
    BY DEF OlderInv, OlderTypes
  <1>3. /\ StageTypes' /\ Stages' /\ threadEnd[t]
        /\ Following[oldState[t]] = g_GlobalState
        /\ trustMode' = trustMode /\ g_GlobalState' = g_GlobalState
        /\ oldState'[t] = g_GlobalState /\ threadEnd'[t] = FALSE
        /\ \A u \in Crew : u # t => /\ threadEnd'[u] = threadEnd[u]
                                    /\ oldState'[u] = oldState[u]
    BY <1>1, <1>2, SeeingStages
  <1>4. ASSUME NEW s \in Everyone, moveStopRecv[s]
        PROVE  Stopping(s)'
    <2>1. Stopping(s) /\ Keeper(s) \in Crew
      BY <1>2, <1>4, CrewFacts DEF Stops
    <2>2. CASE trustMode # 0
      BY <1>1, <1>3, <2>1, <2>2 DEF Stopping
    <2>3. CASE trustMode = 0
      <3>1. CASE /\ g_GlobalState = "MOVING"
                 /\ threadEnd[Keeper(s)] /\ oldState[Keeper(s)] = "MOVING"
        <4>1. Keeper(s) # t
          BY <1>1, <3>1
        <4> QED
          BY <1>3, <2>1, <2>3, <3>1, <4>1 DEF Stopping
      <3>2. CASE /\ g_GlobalState = "WAIT_STOP"
                 /\ \A u \in Crew : ~(oldState[u] = "WAIT_STOP" /\ threadEnd[u])
        BY <1>3, <2>3, <3>2 DEF Stopping
      <3> QED
        BY <2>1, <2>3, <3>1, <3>2 DEF Stopping
    <2> QED
      BY <2>2, <2>3
  <1>5. Stops'
    <2>1. Flagged(moveStopRecv)' = Flagged(moveStopRecv)
      BY <1>1 DEF Flagged
    <2>2. \A s \in Everyone : StopSum(s)' = StopSum(s)
      BY <1>1 DEF StopSum
    <2> QED
      BY <1>1, <1>2, <1>4, <2>1, <2>2 DEF Stops
  <1>6. ASSUME NEW s \in Everyone, chatSent[s]
        PROVE  /\ Talking(s)'
               /\ Busy(Keeper(s), "CHATTING")' <=> Busy(Keeper(s), "CHATTING")
    <2>1. Talking(s) /\ Keeper(s) \in Crew
      BY <1>2, <1>6, CrewFacts DEF Chats
    <2>2. CASE trustMode # 0 \/ Keeper(s) # t
      BY <1>3, <2>1, <2>2 DEF Talking, Busy
    <2>3. CASE trustMode = 0 /\ Keeper(s) = t
      <3>1. oldState[t] = "CHATTING"
        BY <1>3, <2>1, <2>3 DEF Talking
      <3>2. g_GlobalState = "WAIT_CHAT"
        BY <1>3, <3>1 DEF Following
      <3> QED
        BY <1>3, <2>3, <3>1, <3>2 DEF Talking, Busy
    <2> QED
      BY <2>2, <2>3
  <1>7. Chats'
    <2>1. Flagged(chatSent)' = Flagged(chatSent)
      BY <1>1 DEF Flagged
    <2>2. \A s \in Everyone : ChatSum(s)' = ChatSum(s)
      BY <1>1 DEF ChatSum
    <2> QED
      BY <1>1, <1>2, <1>6, <2>1, <2>2 DEF Chats
  <1>8. Offline' /\ Ways' /\ FlagTypes' /\ Roomy'
    BY <1>1, <1>2 DEF Offline, Ways, FlagTypes, Roomy
  <1> QED
    BY <1>3, <1>5, <1>7, <1>8 DEF OlderInv, OlderTypes

LEMMA OlderStops ==
    ASSUME ProgramsAssumption, OlderInv, NEW t \in Crew, O!EndMoving(t)
    PROVE  OlderInv'
  <1> DEFINE S == {s \in Everyone : Keeper(s) = t /\ conn[s] = "active" /\ isMoving[s]}
             m == [s \in Everyone |-> Placing("MoveStop", place[s])]
  <1>1. S = {s \in O!Active(O!Mine(t)) : isMoving[s]}
    BY OlderNames, CrewsAre
  <1>2. /\ Busy(t, "MOVING") /\ Ending(t) /\ \A s \in S : RoomFor(s, 1)
        /\ isMoving' = [s \in Everyone |-> isMoving[s] /\ s \notin S]
        /\ moveStopRecv' = [s \in Everyone |-> moveStopRecv[s] \/ s \in S]
        /\ moveStopCnt' = moveStopCnt + Cardinality(S)
        /\ UNCHANGED <<conn, isReadyForChat, chatSent, chatPlayerCnt, place, inq, at>>
    <2>1. O!Session = Everyone
      BY OlderWay
    <2>2. O!EndOfThread(t) => Ending(t)
      BY DEF O!EndOfThread, Ending
    <2> HIDE DEF S
    <2> QED
      BY <1>1, <2>1, <2>2, OlderNames DEF O!EndMoving
  <1>3. Ways
    BY DEF OlderInv, OlderTypes
  <1>4. Sending(S, m)
    <2>1. O!Sent({s \in O!Active(O!Mine(t)) : isMoving[s]},
                 LAMBDA s : <<O!Placed("MoveStop", place[s])>>)
      BY DEF O!EndMoving
    <2> HIDE DEF S
    <2>2. O!Sent(S, LAMBDA s : <<O!Placed("MoveStop", place[s])>>)
      BY <1>1, <2>1
    <2> QED
      BY <1>3, <2>2, OlderSends
  <1>5. OlderTypes /\ Offline /\ FlagTypes /\ StageTypes /\ Stages /\ Stops /\ Chats
        /\ Roomy /\ MAX_SECTOR \in Nat
    BY DEF OlderInv, OlderTypes, ProgramsAssumption
  <1>6. S \subseteq Everyone /\ \A s \in S : Keeper(s) = t /\ conn[s] = "active" /\ isMoving[s]
    OBVIOUS
  <1>7. \A s \in Everyone : m[s] \in MsgType /\ m[s].type = "MoveStop"
    BY <1>3, <1>5, MessageTypes DEF Ways, Placing
  <1> HIDE DEF S, m
  <1>8. Fits(S, m)
    BY <1>2, <1>7 DEF Fits
  <1>9. /\ outq' \in [Everyone -> Seq(MsgType)] /\ Roomy'
        /\ \A r \in Everyone : r \notin S => outq'[r] = outq[r]
        /\ \A r \in Everyone :
              StopSum(r)' = StopSum(r)
                 + (IF r \in S /\ m[r].type = "MoveStop" THEN 1 ELSE 0)
        /\ \A r \in Everyone :
              ChatSum(r)' = ChatSum(r)
                 + (IF r \in S /\ m[r].type = "ChatEnd" THEN 1 ELSE 0)
        /\ \A r \in Everyone : StopSum(r) \in Nat /\ ChatSum(r) \in Nat
    BY <1>2, <1>3, <1>4, <1>5, <1>8, OlderSendsOne
  <1>10. /\ StageTypes' /\ Stages' /\ oldState[t] = g_GlobalState
         /\ trustMode' = trustMode /\ oldState' = oldState
         /\ g_GlobalState' = g_GlobalState /\ threadEnd'[t] = TRUE
         /\ \A u \in Crew : u # t => threadEnd'[u] = threadEnd[u]
         /\ oldState[t] = "MOVING" /\ ~threadEnd[t] /\ trustMode = 0
    BY <1>2, <1>5, EndingStages DEF Busy
  <1>11. \A s \in S : ~moveStopRecv[s]
    BY <1>5, <1>6, <1>10 DEF Stops, Stopping
  <1>12. \A r \in Everyone : /\ r \in S => StopSum(r)' = 1
                             /\ r \notin S => StopSum(r)' = StopSum(r)
                             /\ ChatSum(r)' = ChatSum(r)
    <2> SUFFICES ASSUME NEW r \in Everyone
                 PROVE  /\ r \in S => StopSum(r)' = 1
                        /\ r \notin S => StopSum(r)' = StopSum(r)
                        /\ ChatSum(r)' = ChatSum(r)
      OBVIOUS
    <2>1. m[r].type = "MoveStop"
      BY <1>7
    <2>2. /\ r \in S => StopSum(r)' = StopSum(r) + 1
          /\ r \notin S => StopSum(r)' = StopSum(r) + 0
          /\ ChatSum(r)' = ChatSum(r) + 0
          /\ StopSum(r) \in Nat /\ ChatSum(r) \in Nat
      BY <1>9, <2>1
    <2>3. r \in S => StopSum(r) = 0
      BY <1>5, <1>11 DEF Stops
    <2> QED
      BY <2>2, <2>3
  <1>13. /\ moveStopRecv' \in [Everyone -> BOOLEAN]
         /\ Cardinality(Flagged(moveStopRecv')) =
               Cardinality(Flagged(moveStopRecv)) + Cardinality(S)
         /\ Cardinality(S) \in Nat
    BY <1>2, <1>5, <1>6, <1>11, FlagSome DEF FlagTypes
  <1>14. \A r \in Everyone : moveStopRecv'[r] <=> moveStopRecv[r] \/ r \in S
    BY <1>2
  <1>15. ASSUME NEW r \in Everyone, moveStopRecv'[r]
         PROVE  Stopping(r)'
    <2>1. Keeper(r) \in Crew
      BY CrewFacts
    <2>2. CASE r \in S
      BY <1>6, <1>10, <2>2 DEF Stopping
    <2>3. CASE r \notin S
      <3>1. Stopping(r)
        BY <1>5, <1>14, <1>15, <2>3 DEF Stops
      <3>2. threadEnd'[Keeper(r)] /\ oldState[Keeper(r)] = "MOVING"
        BY <1>10, <2>1, <3>1 DEF Stopping
      <3> QED
        BY <1>10, <3>2 DEF Stopping
    <2> QED
      BY <2>2, <2>3
  <1>16. Stops'
    <2>1. moveStopCnt' = Cardinality(Flagged(moveStopRecv'))
      BY <1>2, <1>5, <1>13 DEF Stops
    <2>2. ASSUME NEW r \in Everyone
          PROVE  /\ moveStopRecv'[r] => Stopping(r)'
                 /\ StopSum(r)' = IF moveStopRecv'[r] THEN 1 ELSE 0
      BY <1>5, <1>12, <1>14, <1>15 DEF Stops
    <2> QED
      BY <2>1, <2>2 DEF Stops
  <1>17. Chats'
    <2>1. Flagged(chatSent)' = Flagged(chatSent)
      BY <1>2 DEF Flagged
    <2>2. ASSUME NEW s \in Everyone
          PROVE  /\ Talking(s) => Talking(s)'
                 /\ Busy(Keeper(s), "CHATTING")' <=> Busy(Keeper(s), "CHATTING")
      <3>1. Keeper(s) \in Crew
        BY CrewFacts
      <3> QED
        BY <1>10, <3>1 DEF Talking, Busy
    <2> QED
      BY <1>2, <1>5, <1>12, <2>1, <2>2 DEF Chats
  <1>18. Offline'
    <2>1. \A s \in S : conn[s] \notin {"none", "session"}
      BY <1>6
    <2> QED
      BY <1>2, <1>5, <1>9, <2>1 DEF Offline
  <1>19. Ways'
    BY <1>2, <1>3, <1>9 DEF Ways
  <1>20. FlagTypes'
    <2>1. moveStopCnt' \in Int
      BY <1>2, <1>5, <1>13 DEF FlagTypes
    <2>2. isMoving' \in [Everyone -> BOOLEAN]
      BY <1>2
    <2> QED
      BY <1>2, <1>5, <1>13, <2>1, <2>2 DEF FlagTypes
  <1> QED
    BY <1>9, <1>10, <1>16, <1>17, <1>18, <1>19, <1>20 DEF OlderInv, OlderTypes

LEMMA OlderWaited ==
    ASSUME ProgramsAssumption, OlderInv, NEW t \in Crew, O!AllStopped(t)
    PROVE  OlderInv'
  <1>1. /\ Busy(t, "WAIT_STOP") /\ Ending(t) /\ moveStopCnt = 0
        /\ isReadyForChat' = [s \in Everyone |-> isReadyForChat[s] \/ s \in O!Active(O!Mine(t))]
        /\ UNCHANGED <<conn, isMoving, moveStopRecv, chatSent>>
        /\ UNCHANGED <<moveStopCnt, chatPlayerCnt, place, inq, outq, at>>
    <2>1. O!Session = Everyone
      BY OlderWay
    <2>2. O!EndOfThread(t) => Ending(t)
      BY DEF O!EndOfThread, Ending
    <2> QED
      BY <2>1, <2>2, OlderNames DEF O!AllStopped, O!counts
  <1>2. OlderTypes /\ Offline /\ Ways /\ FlagTypes /\ StageTypes /\ Stages /\ Stops /\ Chats
        /\ Roomy
    BY DEF OlderInv, OlderTypes
  <1>3. /\ StageTypes' /\ Stages'
        /\ trustMode' = trustMode /\ oldState' = oldState
        /\ \A u \in Crew : u # t => threadEnd'[u] = threadEnd[u]
        /\ oldState[t] = "WAIT_STOP" /\ trustMode = 0
    BY <1>1, <1>2, EndingStages DEF Busy
  <1>4. \A s \in Everyone : ~moveStopRecv[s]
    BY <1>1, <1>2, FlagNone DEF Stops, FlagTypes
  <1>5. Stops'
    <2>1. Flagged(moveStopRecv)' = Flagged(moveStopRecv)
      BY <1>1 DEF Flagged
    <2>2. \A s \in Everyone : StopSum(s)' = StopSum(s)
      BY <1>1 DEF StopSum
    <2> QED
      BY <1>1, <1>2, <1>4, <2>1, <2>2 DEF Stops
  <1>6. Chats'
    <2>1. Flagged(chatSent)' = Flagged(chatSent)
      BY <1>1 DEF Flagged
    <2>2. \A s \in Everyone : ChatSum(s)' = ChatSum(s)
      BY <1>1 DEF ChatSum
    <2>3. ASSUME NEW s \in Everyone
          PROVE  /\ Talking(s) => Talking(s)'
                 /\ Busy(Keeper(s), "CHATTING")' <=> Busy(Keeper(s), "CHATTING")
      <3>1. Keeper(s) \in Crew
        BY CrewFacts
      <3>2. CASE Keeper(s) = t
        BY <1>3, <3>2 DEF Talking, Busy
      <3>3. CASE Keeper(s) # t
        BY <1>3, <3>1, <3>3 DEF Talking, Busy
      <3> QED
        BY <3>2, <3>3
    <2> QED
      BY <1>1, <1>2, <2>1, <2>2, <2>3 DEF Chats
  <1>7. Offline' /\ Ways' /\ FlagTypes' /\ Roomy'
    <2>1. isReadyForChat' \in [Everyone -> BOOLEAN]
      BY <1>1
    <2> QED
      BY <1>1, <1>2, <2>1 DEF Offline, Ways, FlagTypes, Roomy
  <1> QED
    BY <1>3, <1>5, <1>6, <1>7 DEF OlderInv, OlderTypes

LEMMA OlderTalked ==
    ASSUME ProgramsAssumption, OlderInv, NEW t \in Crew, O!EndChatting(t)
    PROVE  OlderInv'
  <1> DEFINE S == {s \in Everyone : Keeper(s) = t /\ conn[s] = "active" /\ chatSent[s]}
             m == [s \in Everyone |-> Plain("ChatEnd")]
  <1>1. S = {s \in O!Active(O!Mine(t)) : chatSent[s]}
    BY OlderNames, CrewsAre
  <1>2. /\ Busy(t, "CHATTING") /\ Ending(t) /\ \A s \in S : RoomFor(s, 1)
        /\ UNCHANGED <<conn, isMoving, isReadyForChat, moveStopRecv, chatSent>>
        /\ UNCHANGED <<moveStopCnt, chatPlayerCnt, place, inq, at>>
    <2>1. O!EndOfThread(t) => Ending(t)
      BY DEF O!EndOfThread, Ending
    <2> HIDE DEF S
    <2> QED
      BY <1>1, <2>1, OlderNames DEF O!EndChatting, O!flags, O!counts
  <1>3. Ways
    BY DEF OlderInv, OlderTypes
  <1>4. Sending(S, m)
    <2>1. O!Sent({s \in O!Active(O!Mine(t)) : chatSent[s]},
                 LAMBDA s : <<O!Msg("ChatEnd")>>)
      BY DEF O!EndChatting
    <2> HIDE DEF S
    <2>2. O!Sent(S, LAMBDA s : <<O!Msg("ChatEnd")>>)
      BY <1>1, <2>1
    <2> QED
      BY <1>3, <2>2, OlderSends
  <1>5. OlderTypes /\ Offline /\ FlagTypes /\ StageTypes /\ Stages /\ Stops /\ Chats
        /\ Roomy
    BY DEF OlderInv, OlderTypes
  <1>6. S \subseteq Everyone /\ \A s \in S : Keeper(s) = t /\ conn[s] = "active" /\ chatSent[s]
    OBVIOUS
  <1>7. \A s \in Everyone : m[s] \in MsgType /\ m[s].type = "ChatEnd"
    BY <1>3, <1>5, MessageTypes DEF Ways, Plain
  <1>8. \A r \in Everyone : chatSent[r] /\ Keeper(r) = t => r \in S
    BY <1>5 DEF Chats
  <1> HIDE DEF S, m
  <1>9. Fits(S, m)
    BY <1>2, <1>7 DEF Fits
  <1>10. /\ outq' \in [Everyone -> Seq(MsgType)] /\ Roomy'
         /\ \A r \in Everyone : r \notin S => outq'[r] = outq[r]
         /\ \A r \in Everyone :
               StopSum(r)' = StopSum(r)
                  + (IF r \in S /\ m[r].type = "MoveStop" THEN 1 ELSE 0)
         /\ \A r \in Everyone :
               ChatSum(r)' = ChatSum(r)
                  + (IF r \in S /\ m[r].type = "ChatEnd" THEN 1 ELSE 0)
         /\ \A r \in Everyone : StopSum(r) \in Nat /\ ChatSum(r) \in Nat
    BY <1>2, <1>3, <1>4, <1>5, <1>9, OlderSendsOne
  <1>11. /\ StageTypes' /\ Stages' /\ oldState[t] = g_GlobalState
         /\ trustMode' = trustMode /\ oldState' = oldState
         /\ g_GlobalState' = g_GlobalState /\ threadEnd'[t] = TRUE
         /\ \A u \in Crew : u # t => threadEnd'[u] = threadEnd[u]
         /\ oldState[t] = "CHATTING" /\ ~threadEnd[t] /\ trustMode = 0
    BY <1>2, <1>5, EndingStages DEF Busy
  <1>12. \A s \in Everyone : ~moveStopRecv[s]
    BY <1>5, <1>11 DEF Stops, Stopping
  <1>13. \A r \in Everyone : /\ r \in S => ChatSum(r)' = 1
                             /\ r \notin S => ChatSum(r)' = ChatSum(r)
                             /\ StopSum(r)' = StopSum(r)
    <2> SUFFICES ASSUME NEW r \in Everyone
                 PROVE  /\ r \in S => ChatSum(r)' = 1
                        /\ r \notin S => ChatSum(r)' = ChatSum(r)
                        /\ StopSum(r)' = StopSum(r)
      OBVIOUS
    <2>1. m[r].type = "ChatEnd"
      BY <1>7
    <2>2. /\ r \in S => ChatSum(r)' = ChatSum(r) + 1
          /\ r \notin S => ChatSum(r)' = ChatSum(r) + 0
          /\ StopSum(r)' = StopSum(r) + 0
          /\ StopSum(r) \in Nat /\ ChatSum(r) \in Nat
      BY <1>10, <2>1
    <2>3. r \in S => ChatSum(r) = 0
      BY <1>2, <1>5, <1>6 DEF Chats
    <2> QED
      BY <2>2, <2>3
  <1>14. Stops'
    <2>1. Flagged(moveStopRecv)' = Flagged(moveStopRecv)
      BY <1>2 DEF Flagged
    <2> QED
      BY <1>2, <1>5, <1>12, <1>13, <2>1 DEF Stops
  <1>15. Chats'
    <2>1. Flagged(chatSent)' = Flagged(chatSent)
      BY <1>2 DEF Flagged
    <2>2. ASSUME NEW r \in Everyone
          PROVE  /\ chatSent[r] => conn[r] = "active" /\ Talking(r)'
                 /\ ChatSum(r)' = IF chatSent[r] /\ ~Busy(Keeper(r), "CHATTING")'
                                  THEN 1 ELSE 0
      <3>1. /\ chatSent[r] => conn[r] = "active" /\ Talking(r)
            /\ ChatSum(r) = IF chatSent[r] /\ ~Busy(Keeper(r), "CHATTING") THEN 1 ELSE 0
        BY <1>5 DEF Chats
      <3>2. Keeper(r) \in Crew
        BY CrewFacts
      <3>3. CASE Keeper(r) = t
        <4>1. Talking(r)' /\ ~Busy(Keeper(r), "CHATTING")'
          BY <1>11, <3>3 DEF Talking, Busy
        <4>2. ~chatSent[r] => r \notin S
          BY <1>6
        <4> QED
          BY <1>8, <1>13, <3>1, <3>3, <4>1, <4>2
      <3>4. CASE Keeper(r) # t
        <4>1. /\ Talking(r)' <=> Talking(r)
              /\ Busy(Keeper(r), "CHATTING")' <=> Busy(Keeper(r), "CHATTING")
          BY <1>11, <3>2, <3>4 DEF Talking, Busy
        <4>2. r \notin S
          BY <1>6, <3>4
        <4> QED
          BY <1>13, <3>1, <4>1, <4>2
      <3> QED
        BY <3>3, <3>4
    <2> QED
      BY <1>2, <1>5, <2>1, <2>2 DEF Chats
  <1>16. Offline'
    <2>1. \A s \in S : conn[s] \notin {"none", "session"}
      BY <1>6
    <2> QED
      BY <1>2, <1>5, <1>10, <2>1 DEF Offline
  <1>17. Ways' /\ FlagTypes'
    BY <1>2, <1>3, <1>5, <1>10 DEF Ways, FlagTypes
  <1> QED
    BY <1>10, <1>11, <1>14, <1>15, <1>16, <1>17 DEF OlderInv, OlderTypes

LEMMA OlderHeard ==
    ASSUME ProgramsAssumption, OlderInv, NEW t \in Crew, O!AllHeard(t)
    PROVE  OlderInv'
  <1>1. /\ Busy(t, "WAIT_CHAT") /\ Ending(t) /\ chatPlayerCnt = 0
        /\ chatSent' = [s \in Everyone |-> chatSent[s] /\ s \notin O!Mine(t)]
        /\ moveStopRecv' = [s \in Everyone |-> moveStopRecv[s] /\ s \notin O!Mine(t)]
        /\ isReadyForChat' = [s \in Everyone |-> isReadyForChat[s] /\ s \notin O!Mine(t)]
        /\ UNCHANGED <<conn, isMoving>>
        /\ UNCHANGED <<moveStopCnt, chatPlayerCnt, place, inq, outq, at>>
    <2>1. O!Session = Everyone
      BY OlderWay
    <2>2. O!EndOfThread(t) => Ending(t)
      BY DEF O!EndOfThread, Ending
    <2> QED
      BY <2>1, <2>2, OlderNames DEF O!AllHeard, O!counts
  <1>2. OlderTypes /\ Offline /\ Ways /\ FlagTypes /\ StageTypes /\ Stages /\ Stops /\ Chats
        /\ Roomy
    BY DEF OlderInv, OlderTypes
  <1>3. /\ StageTypes' /\ Stages' /\ oldState[t] = g_GlobalState
        /\ trustMode' = trustMode /\ oldState' = oldState
        /\ \A u \in Crew : u # t => threadEnd'[u] = threadEnd[u]
        /\ oldState[t] = "WAIT_CHAT" /\ trustMode = 0
    BY <1>1, <1>2, EndingStages DEF Busy
  <1>4. \A s \in Everyone : ~moveStopRecv[s]
    BY <1>2, <1>3 DEF Stops, Stopping
  <1>5. \A s \in Everyone : ~chatSent[s]
    BY <1>1, <1>2, FlagNone DEF Chats, FlagTypes
  <1>6. moveStopRecv' = moveStopRecv /\ chatSent' = chatSent
        /\ isReadyForChat' \in [Everyone -> BOOLEAN]
    BY <1>1, <1>2, <1>4, <1>5 DEF FlagTypes
  <1>7. Stops'
    <2>1. Flagged(moveStopRecv)' = Flagged(moveStopRecv)
      BY <1>6 DEF Flagged
    <2>2. \A s \in Everyone : StopSum(s)' = StopSum(s)
      BY <1>1 DEF StopSum
    <2> QED
      BY <1>1, <1>2, <1>4, <1>6, <2>1, <2>2 DEF Stops
  <1>8. Chats'
    <2>1. Flagged(chatSent)' = Flagged(chatSent)
      BY <1>6 DEF Flagged
    <2>2. \A s \in Everyone : ChatSum(s)' = ChatSum(s)
      BY <1>1 DEF ChatSum
    <2> QED
      BY <1>1, <1>2, <1>5, <1>6, <2>1, <2>2 DEF Chats
  <1>9. Offline' /\ Ways' /\ FlagTypes' /\ Roomy'
    BY <1>1, <1>2, <1>6 DEF Offline, Ways, FlagTypes, Roomy
  <1> QED
    BY <1>3, <1>7, <1>8, <1>9 DEF OlderInv, OlderTypes

(* Every step keeps the invariant.                                          *)
LEMMA OlderKept ==
    ASSUME ProgramsAssumption, OlderInv, O!ChatNext
    PROVE  OlderInv'
  <1>1. O!Session = Everyone /\ O!Threads = Crew
    BY OlderWay, CrewsAre
  <1>2. ASSUME NEW s \in Everyone,
               \/ O!Connect(s) \/ O!Connects(s) \/ O!Answers(s) \/ O!Receive(s)
               \/ O!UpdateContent(s) \/ O!UpdateChat(s) \/ O!FreeStep(s)
        PROVE  OlderInv'
    <2>1. CASE O!Receive(s)
      BY <2>1, OlderCreates, OlderHears, OlderStopped, OlderChatted DEF O!Receive
    <2> QED
      BY <1>2, <2>1, OlderConnect, OlderConnects, OlderAnswers, OlderUpdates, OlderUpdateChat,
         OlderFreely
  <1>3. ASSUME NEW t \in Crew, O!ThreadStep(t)
        PROVE  OlderInv'
    BY <1>3, OlderSees, OlderStops, OlderWaited, OlderTalked, OlderHeard, OlderGoesOn
       DEF O!ThreadStep
  <1> QED
    BY <1>1, <1>2, <1>3 DEF O!ChatNext

(* So the counters are exact, and no thread is ahead.                       *)
LEMMA OlderThen ==
    ASSUME ProgramsAssumption, OlderInv
    PROVE  O!CountsAgree /\ O!InStep
  <1>1. O!Session = Everyone /\ O!Threads = Crew
    BY OlderWay, CrewsAre
  <1>2. Stages /\ Stops /\ Chats
    BY DEF OlderInv
  <1>3. O!CountsAgree
    <2>1. \A s \in Everyone : O!On(outq[s], "MoveStop") + O!On(inq[s], "MoveStopComplete")
                                 = StopSum(s)
      <3>1. \A s \in Everyone : outq[s] \in Seq(MsgType) /\ inq[s] \in Seq(MsgType)
        BY DEF OlderInv, OlderTypes, Ways
      <3>2. \A s \in Everyone : /\ O!On(outq[s], "MoveStop") = Those(outq[s], Of("MoveStop"))
                                 /\ O!On(inq[s], "MoveStopComplete")
                                       = Those(inq[s], Of("MoveStopComplete"))
        BY <3>1, CountedOnWay
      <3> QED
        BY <3>2 DEF StopSum
    <2> QED
      BY <1>1, <1>2, <2>1, OlderNames DEF O!CountsAgree, Stops, Chats, Flagged
  <1>4. O!InStep
    BY <1>1, <1>2, OlderNames DEF O!InStep, Stages, Through
  <1> QED
    BY <1>3, <1>4

(* What Total computes, set by set. *)
Picked(T) == CHOOSE text \in T : TRUE
Summing(sum, f, X) ==
    sum = [T \in X |-> IF T = {} THEN 0 ELSE f[Picked(T)] + sum[T \ {Picked(T)}]]
SumOf(f) == (CHOOSE sum : Summing(sum, f, SUBSET Text))[Text]
Small(n) == {T \in SUBSET Text : Cardinality(T) <= n}

(* Total is a recursive function over the sets of texts: there is one, its  *)
(* values are numbers, and grow as a summand does.                          *)
LEMMA Smaller ==
    ASSUME ProgramsAssumption, NEW T \in SUBSET Text
    PROVE  /\ Cardinality(T) \in Nat /\ Cardinality(T) <= Cardinality(Text)
           /\ Cardinality(Text) \in Nat
           /\ T # {} => /\ Picked(T) \in T /\ T \ {Picked(T)} \in SUBSET Text
                        /\ Cardinality(T \ {Picked(T)}) = Cardinality(T) - 1
           /\ Cardinality(T) = 0 <=> T = {}
  <1>1. IsFiniteSet(Text)
    BY DEF ProgramsAssumption
  <1>2. IsFiniteSet(T) /\ Cardinality(T) <= Cardinality(Text)
    BY <1>1, FS_Subset
  <1>3. Cardinality(T) \in Nat /\ Cardinality(Text) \in Nat
    BY <1>1, <1>2, FS_CardinalityType
  <1>4. ASSUME T # {}
        PROVE  /\ Picked(T) \in T /\ T \ {Picked(T)} \in SUBSET Text
               /\ Cardinality(T \ {Picked(T)}) = Cardinality(T) - 1
    <2>1. PICK x : x = Picked(T)
      OBVIOUS
    <2>2. x \in T
      BY <1>4, <2>1 DEF Picked
    <2>3. Cardinality(T \ {x}) = Cardinality(T) - 1
      BY <1>2, <2>2, FS_RemoveElement
    <2> QED
      BY <2>1, <2>2, <2>3
  <1>5. Cardinality(T) = 0 <=> T = {}
    BY <1>2, FS_EmptySet
  <1> QED
    BY <1>2, <1>3, <1>4, <1>5

LEMMA SmallSums ==
    ASSUME ProgramsAssumption, NEW f, NEW n \in Nat, NEW sum, Summing(sum, f, Small(n))
    PROVE  \E big : Summing(big, f, Small(n + 1))
  <1> DEFINE big == [T \in Small(n + 1) |->
                        IF T = {} THEN 0 ELSE f[Picked(T)] + sum[T \ {Picked(T)}]]
  <1>1. \A T \in Small(n + 1) :
           /\ T # {} => T \ {Picked(T)} \in Small(n)
           /\ big[T] = IF T = {} THEN 0 ELSE f[Picked(T)] + sum[T \ {Picked(T)}]
    <2> SUFFICES ASSUME NEW T \in Small(n + 1)
                 PROVE  /\ T # {} => T \ {Picked(T)} \in Small(n)
                        /\ big[T] = IF T = {} THEN 0 ELSE f[Picked(T)] + sum[T \ {Picked(T)}]
      OBVIOUS
    <2>1. T \in SUBSET Text /\ Cardinality(T) <= n + 1
      BY DEF Small
    <2>2. T # {} => T \ {Picked(T)} \in Small(n)
      <3>1. T # {} => /\ T \ {Picked(T)} \in SUBSET Text
                      /\ Cardinality(T \ {Picked(T)}) = Cardinality(T) - 1
                      /\ Cardinality(T) \in Nat
        BY <2>1, Smaller
      <3>2. T # {} => Cardinality(T \ {Picked(T)}) <= n
        BY <2>1, <3>1
      <3> QED
        BY <3>1, <3>2 DEF Small
    <2> QED
      BY <2>2
  <1>2. DOMAIN big = Small(n + 1)
    OBVIOUS
  <1>3. \A T \in Small(n) : T \in Small(n + 1) /\ sum[T] = big[T]
    <2> SUFFICES ASSUME NEW T \in Small(n)
                 PROVE  T \in Small(n + 1) /\ sum[T] = big[T]
      OBVIOUS
    <2>1. T \in Small(n + 1)
      <3>1. T \in SUBSET Text /\ Cardinality(T) <= n /\ Cardinality(T) \in Nat
        BY Smaller DEF Small
      <3> QED
        BY <3>1 DEF Small
    <2>2. sum[T] = IF T = {} THEN 0 ELSE f[Picked(T)] + sum[T \ {Picked(T)}]
      BY DEF Summing
    <2> HIDE DEF big
    <2> QED
      BY <1>1, <2>1, <2>2
  <1>4. big = [T \in Small(n + 1) |->
                        IF T = {} THEN 0 ELSE f[Picked(T)] + big[T \ {Picked(T)}]]
    <2>1. ASSUME NEW T \in Small(n + 1)
          PROVE  (IF T = {} THEN 0 ELSE f[Picked(T)] + sum[T \ {Picked(T)}])
                   = (IF T = {} THEN 0 ELSE f[Picked(T)] + big[T \ {Picked(T)}])
      <3> HIDE DEF big
      <3> QED
        BY <1>1, <1>3
    <2> DEFINE h == [T \in Small(n + 1) |->
                        IF T = {} THEN 0 ELSE f[Picked(T)] + big[T \ {Picked(T)}]]
    <2>2. \A T \in Small(n + 1) : big[T] = h[T]
      BY <2>1
    <2>3. big = [T \in Small(n + 1) |-> big[T]]
      OBVIOUS
    <2>4. h = [T \in Small(n + 1) |-> h[T]]
      OBVIOUS
    <2> HIDE DEF big, h
    <2>5. big = h
      BY <2>2, <2>3, <2>4
    <2> QED
      BY <2>5 DEF h
  <1> HIDE DEF big
  <1>5. Summing(big, f, Small(n + 1))
    BY <1>4 DEF Summing
  <1> QED
    BY <1>5

LEMMA SumExists ==
    ASSUME ProgramsAssumption, NEW f
    PROVE  /\ \E sum : Summing(sum, f, SUBSET Text) /\ SumOf(f) = sum[Text]
           /\ O!Total(f) = SumOf(f)
  <1> DEFINE Z == {n \in Nat : \E sum : Summing(sum, f, Small(n))}
  <1>1. Cardinality(Text) \in Nat
    BY Smaller
  <1>2. 0 \in Z
    <2> DEFINE sum == [T \in Small(0) |-> 0]
    <2>1. \A T \in Small(0) : T = {}
      <3> SUFFICES ASSUME NEW T \in Small(0)
                   PROVE  T = {}
        OBVIOUS
      <3>1. T \in SUBSET Text /\ Cardinality(T) <= 0
        BY DEF Small
      <3>2. Cardinality(T) \in Nat /\ (Cardinality(T) = 0 <=> T = {})
        BY <3>1, Smaller
      <3> QED
        BY <3>1, <3>2
    <2>2. Summing(sum, f, Small(0))
      BY <2>1 DEF Summing
    <2> HIDE DEF sum
    <2>3. \E s : Summing(s, f, Small(0))
      BY <2>2
    <2> QED
      BY <2>3
  <1>3. ASSUME NEW i \in 0 .. Cardinality(Text), i < Cardinality(Text), i \in Z
        PROVE  i + 1 \in Z
    <2>1. i \in Nat /\ i + 1 \in Nat /\ \E sum : Summing(sum, f, Small(i))
      BY <1>3
    <2>2. \E sum : Summing(sum, f, Small(i + 1))
      BY <2>1, SmallSums
    <2> QED
      BY <2>1, <2>2
  <1>4. Cardinality(Text) \in Z
    <2> HIDE DEF Z
    <2> QED
      BY <1>1, <1>2, <1>3, Induction
  <1>5. Small(Cardinality(Text)) = SUBSET Text
    <2>1. \A T \in SUBSET Text : Cardinality(T) <= Cardinality(Text)
      BY Smaller
    <2> QED
      BY <2>1 DEF Small
  <1>6. \E sum : Summing(sum, f, SUBSET Text)
    BY <1>4, <1>5
  <1>7. Summing(CHOOSE sum : Summing(sum, f, SUBSET Text), f, SUBSET Text)
    BY <1>6
  <1>8. O!Total(f) = SumOf(f)
    BY DEF O!Total, SumOf, Summing, Picked
  <1>9. PICK sum : sum = CHOOSE sum2 : Summing(sum2, f, SUBSET Text)
    OBVIOUS
  <1>10. Summing(sum, f, SUBSET Text) /\ SumOf(f) = sum[Text]
    BY <1>7, <1>9 DEF SumOf
  <1> QED
    BY <1>8, <1>10

LEMMA SumIsNat ==
    ASSUME ProgramsAssumption, NEW f \in [Text -> Nat]
    PROVE  O!Total(f) \in Nat /\ ((\A text \in Text : f[text] = 0) => O!Total(f) = 0)
  <1>1. PICK sum : Summing(sum, f, SUBSET Text) /\ O!Total(f) = sum[Text]
    <2>1. O!Total(f) = SumOf(f) /\ \E sum : Summing(sum, f, SUBSET Text) /\ SumOf(f) = sum[Text]
      BY SumExists
    <2> QED
      BY <2>1
  <1>2. \A T \in SUBSET Text :
           sum[T] = IF T = {} THEN 0 ELSE f[Picked(T)] + sum[T \ {Picked(T)}]
    BY <1>1 DEF Summing
  <1> DEFINE Good(T) == sum[T] \in Nat /\ ((\A text \in Text : f[text] = 0) => sum[T] = 0)
             Z == {n \in Nat : \A T \in Small(n) : Good(T)}
  <1>3. 0 \in Z
    <2>1. \A T \in Small(0) : T = {}
      <3> SUFFICES ASSUME NEW T \in Small(0)
                   PROVE  T = {}
        OBVIOUS
      <3>1. T \in SUBSET Text /\ Cardinality(T) <= 0
        BY DEF Small
      <3>2. Cardinality(T) \in Nat /\ (Cardinality(T) = 0 <=> T = {})
        BY <3>1, Smaller
      <3> QED
        BY <3>1, <3>2
    <2>2. sum[{}] = 0
      BY <1>2
    <2>3. Good({})
      BY <2>2
    <2> HIDE DEF Good
    <2> QED
      BY <2>1, <2>3
  <1>4. ASSUME NEW i \in 0 .. Cardinality(Text), i < Cardinality(Text), i \in Z
        PROVE  i + 1 \in Z
    <2>1. i \in Nat /\ i + 1 \in Nat /\ \A T \in Small(i) : Good(T)
      BY <1>4
    <2>2. ASSUME NEW T \in Small(i + 1)
          PROVE  Good(T)
      <3>1. T \in SUBSET Text /\ Cardinality(T) <= i + 1 /\ Cardinality(T) \in Nat
        BY Smaller DEF Small
      <3>2. sum[T] = IF T = {} THEN 0 ELSE f[Picked(T)] + sum[T \ {Picked(T)}]
        BY <1>2, <3>1
      <3>3. ASSUME T # {}
            PROVE  Good(T)
        <4>1. /\ Picked(T) \in Text /\ T \ {Picked(T)} \in SUBSET Text
              /\ Cardinality(T \ {Picked(T)}) = Cardinality(T) - 1
          BY <3>1, <3>3, Smaller
        <4>2. T \ {Picked(T)} \in Small(i)
          BY <2>1, <3>1, <4>1 DEF Small
        <4>3. Good(T \ {Picked(T)})
          BY <2>1, <4>2
        <4>4. f[Picked(T)] \in Nat
          BY <4>1
        <4> QED
          BY <3>2, <3>3, <4>1, <4>3, <4>4
      <3> QED
        BY <3>2, <3>3
    <2> HIDE DEF Good
    <2> QED
      BY <2>1, <2>2
  <1>5. Cardinality(Text) \in Nat /\ Text \in Small(Cardinality(Text))
    <2>1. Cardinality(Text) \in Nat
      BY Smaller
    <2> QED
      BY <2>1 DEF Small
  <1>6. Cardinality(Text) \in Z
    <2> HIDE DEF Z
    <2> QED
      BY <1>3, <1>4, <1>5, Induction
  <1>7. Good(Text)
    BY <1>5, <1>6
  <1> QED
    BY <1>1, <1>7

LEMMA SumMore ==
    ASSUME ProgramsAssumption, NEW f \in [Text -> Nat], NEW x \in Text,
           NEW g, g = [f EXCEPT ![x] = f[x] + 1]
    PROVE  g \in [Text -> Nat] /\ O!Total(g) = O!Total(f) + 1
  <1>1. g \in [Text -> Nat] /\ \A y \in Text : g[y] = IF y = x THEN f[y] + 1 ELSE f[y]
    OBVIOUS
  <1>2. PICK sum : Summing(sum, f, SUBSET Text) /\ O!Total(f) = sum[Text]
    <2>1. O!Total(f) = SumOf(f) /\ \E sum : Summing(sum, f, SUBSET Text) /\ SumOf(f) = sum[Text]
      BY SumExists
    <2> QED
      BY <2>1
  <1>3. PICK more : Summing(more, g, SUBSET Text) /\ O!Total(g) = more[Text]
    <2>1. O!Total(g) = SumOf(g) /\ \E more : Summing(more, g, SUBSET Text) /\ SumOf(g) = more[Text]
      BY SumExists
    <2> QED
      BY <2>1
  <1>4. \A T \in SUBSET Text :
           /\ sum[T] = IF T = {} THEN 0 ELSE f[Picked(T)] + sum[T \ {Picked(T)}]
           /\ more[T] = IF T = {} THEN 0 ELSE g[Picked(T)] + more[T \ {Picked(T)}]
    BY <1>2, <1>3 DEF Summing
  <1> DEFINE Good(T) == /\ sum[T] \in Nat
                        /\ more[T] = IF x \in T THEN sum[T] + 1 ELSE sum[T]
             Z == {n \in Nat : \A T \in Small(n) : Good(T)}
  <1>5. 0 \in Z
    <2>1. \A T \in Small(0) : T = {}
      <3> SUFFICES ASSUME NEW T \in Small(0)
                   PROVE  T = {}
        OBVIOUS
      <3>1. T \in SUBSET Text /\ Cardinality(T) <= 0
        BY DEF Small
      <3>2. Cardinality(T) \in Nat /\ (Cardinality(T) = 0 <=> T = {})
        BY <3>1, Smaller
      <3> QED
        BY <3>1, <3>2
    <2>2. sum[{}] = 0 /\ more[{}] = 0
      BY <1>4
    <2>3. Good({})
      BY <2>2
    <2> HIDE DEF Good
    <2> QED
      BY <2>1, <2>3
  <1>6. ASSUME NEW i \in 0 .. Cardinality(Text), i < Cardinality(Text), i \in Z
        PROVE  i + 1 \in Z
    <2>1. i \in Nat /\ i + 1 \in Nat /\ \A T \in Small(i) : Good(T)
      BY <1>6
    <2>2. ASSUME NEW T \in Small(i + 1)
          PROVE  Good(T)
      <3>1. T \in SUBSET Text /\ Cardinality(T) <= i + 1 /\ Cardinality(T) \in Nat
        BY Smaller DEF Small
      <3>2. /\ sum[T] = IF T = {} THEN 0 ELSE f[Picked(T)] + sum[T \ {Picked(T)}]
            /\ more[T] = IF T = {} THEN 0 ELSE g[Picked(T)] + more[T \ {Picked(T)}]
        BY <1>4, <3>1
      <3>3. ASSUME T # {}
            PROVE  Good(T)
        <4>1. PICK p : p = Picked(T)
          OBVIOUS
        <4>2. /\ p \in T /\ p \in Text /\ T \ {p} \in SUBSET Text
              /\ Cardinality(T \ {p}) = Cardinality(T) - 1
          BY <3>1, <3>3, <4>1, Smaller
        <4>3. T \ {p} \in Small(i)
          BY <2>1, <3>1, <4>2 DEF Small
        <4>4. Good(T \ {p})
          BY <2>1, <4>3
        <4>5. f[p] \in Nat /\ g[p] = IF p = x THEN f[p] + 1 ELSE f[p]
          BY <1>1, <4>2
        <4>6. sum[T] = f[p] + sum[T \ {p}] /\ more[T] = g[p] + more[T \ {p}]
          BY <3>2, <3>3, <4>1
        <4>7. x \in T \ {p} <=> x \in T /\ p # x
          OBVIOUS
        <4> QED
          BY <4>2, <4>4, <4>5, <4>6, <4>7
      <3>4. CASE T = {}
        BY <3>2, <3>4
      <3> QED
        BY <3>3, <3>4
    <2> HIDE DEF Good
    <2> QED
      BY <2>1, <2>2
  <1>7. Cardinality(Text) \in Nat /\ Text \in Small(Cardinality(Text))
    <2>1. Cardinality(Text) \in Nat
      BY Smaller
    <2> QED
      BY <2>1 DEF Small
  <1>8. Cardinality(Text) \in Z
    <2> HIDE DEF Z
    <2> QED
      BY <1>5, <1>6, <1>7, Induction
  <1>9. Good(Text)
    BY <1>7, <1>8
  <1> QED
    BY <1>1, <1>2, <1>3, <1>9

(* The sums of what is counted for the sessions up to each. *)
Adding(g, mc) ==
    /\ g \in [0 .. clientCount -> Nat] /\ g[0] = 0
    /\ \A k \in Everyone : g[k] = g[k - 1] + O!Total(mc[k])
SumsTo(mc, n) ==
    /\ mc \in [Everyone -> [Text -> Nat]]
    /\ \E g : Adding(g, mc) /\ n = g[clientCount]

(* What ProgramsAssumption says of the numbers of the sessions.             *)
LEMMA EveryoneIs ==
    ASSUME ProgramsAssumption
    PROVE  /\ clientCount \in Nat /\ clientCount \in 0 .. clientCount /\ 0 \in 0 .. clientCount
           /\ \A k \in Everyone : /\ k \in Nat /\ k - 1 \in 0 .. clientCount
                                  /\ k \in 0 .. clientCount /\ k <= clientCount /\ k > 0
           /\ \A k \in 0 .. clientCount : k < clientCount => k + 1 \in Everyone
           /\ \A k \in 0 .. clientCount : k \in Nat
  BY DEF ProgramsAssumption, Everyone

(* At first nothing is heard.                                               *)
LEMMA SumsStart ==
    ASSUME ProgramsAssumption, NEW mc, mc = [s \in Everyone |-> [text \in Text |-> 0]]
    PROVE  SumsTo(mc, 0)
  <1>1. mc \in [Everyone -> [Text -> Nat]] /\ \A k \in Everyone : O!Total(mc[k]) = 0
    <2>1. [text \in Text |-> 0] \in [Text -> Nat]
      OBVIOUS
    <2>2. O!Total([text \in Text |-> 0]) = 0
      BY <2>1, SumIsNat
    <2> QED
      BY <2>1, <2>2
  <1> DEFINE g == [k \in 0 .. clientCount |-> 0]
  <1>2. /\ g \in [0 .. clientCount -> Nat] /\ g[0] = 0 /\ g[clientCount] = 0
        /\ \A k \in Everyone : g[k] = 0 /\ g[k - 1] = 0
    BY EveryoneIs
  <1> HIDE DEF g
  <1>3. \A k \in Everyone : g[k] = g[k - 1] + O!Total(mc[k])
    <2> SUFFICES ASSUME NEW k \in Everyone PROVE g[k] = g[k - 1] + O!Total(mc[k])
      OBVIOUS
    <2>1. g[k] = 0 /\ g[k - 1] = 0
      BY <1>2
    <2>2. O!Total(mc[k]) = 0
      BY <1>1
    <2> QED
      BY <2>1, <2>2
  <1>4. Adding(g, mc)
    BY <1>2, <1>3 DEF Adding
  <1> QED
    BY <1>1, <1>2, <1>4 DEF SumsTo

(* One session is heard of no more.                                        *)
LEMMA SumsLess ==
    ASSUME ProgramsAssumption, NEW mc, NEW n, SumsTo(mc, n), NEW s \in Everyone,
           NEW mc2, mc2 = [mc EXCEPT ![s] = [text \in Text |-> 0]]
    PROVE  SumsTo(mc2, n - O!Total(mc[s]))
  <1>1. PICK g : Adding(g, mc) /\ n = g[clientCount]
    BY DEF SumsTo
  <1>2. /\ mc2 \in [Everyone -> [Text -> Nat]]
        /\ \A k \in Everyone : /\ O!Total(mc[k]) \in Nat
                               /\ O!Total(mc2[k]) = IF k = s THEN 0 ELSE O!Total(mc[k])
    <2>1. [text \in Text |-> 0] \in [Text -> Nat]
      OBVIOUS
    <2>2. O!Total([text \in Text |-> 0]) = 0
      BY <2>1, SumIsNat
    <2>3. \A k \in Everyone : mc[k] \in [Text -> Nat] /\ O!Total(mc[k]) \in Nat
      BY SumIsNat DEF SumsTo
    <2>4. mc2 \in [Everyone -> [Text -> Nat]]
      BY <2>1 DEF SumsTo
    <2>5. \A k \in Everyone : mc2[k] = IF k = s THEN [text \in Text |-> 0] ELSE mc[k]
      BY DEF SumsTo
    <2> QED
      BY <2>2, <2>3, <2>4, <2>5
  <1>3. PICK d : d = O!Total(mc[s]) /\ d \in Nat
    BY <1>2
  <1> DEFINE h == [k \in 0 .. clientCount |-> IF k >= s THEN g[k] - d ELSE g[k]]
  <1>4. /\ g \in [0 .. clientCount -> Nat] /\ g[0] = 0
        /\ \A k \in Everyone : g[k] = g[k - 1] + O!Total(mc[k])
    BY <1>1 DEF Adding
  <1>5. /\ s \in Nat /\ s > 0 /\ s <= clientCount /\ clientCount \in Nat
    BY EveryoneIs
  <1>6. /\ h[0] = 0 /\ h[clientCount] = g[clientCount] - d
        /\ DOMAIN h = 0 .. clientCount
    BY <1>4, <1>5
  <1>7. ASSUME NEW k \in Everyone
        PROVE  h[k] = h[k - 1] + O!Total(mc2[k])
    <2>1. /\ k \in Nat /\ k - 1 \in 0 .. clientCount /\ k \in 0 .. clientCount
          /\ g[k] \in Nat /\ g[k - 1] \in Nat
      BY <1>4, EveryoneIs
    <2>2. g[k] = g[k - 1] + O!Total(mc[k]) /\ O!Total(mc[k]) \in Nat
      BY <1>2, <1>4
    <2>3. CASE k = s
      <3>1. h[k] = g[k] - d /\ h[k - 1] = g[k - 1]
        BY <1>5, <2>1, <2>3
      <3>2. O!Total(mc2[k]) = 0
        BY <1>2, <2>3
      <3>3. g[k] = g[k - 1] + d
        BY <1>3, <2>2, <2>3
      <3> HIDE DEF h
      <3> QED
        BY <1>3, <2>1, <3>1, <3>2, <3>3
    <2>4. CASE k < s
      <3>1. h[k] = g[k] /\ h[k - 1] = g[k - 1]
        BY <1>5, <2>1, <2>4
      <3>2. O!Total(mc2[k]) = O!Total(mc[k])
        BY <1>2, <1>5, <2>1, <2>4
      <3> HIDE DEF h
      <3> QED
        BY <2>2, <3>1, <3>2
    <2>5. CASE k > s
      <3>1. h[k] = g[k] - d /\ h[k - 1] = g[k - 1] - d
        BY <1>5, <2>1, <2>5
      <3>2. O!Total(mc2[k]) = O!Total(mc[k])
        BY <1>2, <1>5, <2>1, <2>5
      <3> HIDE DEF h
      <3> QED
        BY <1>3, <2>1, <2>2, <3>1, <3>2
    <2> QED
      BY <1>5, <2>1, <2>3, <2>4, <2>5
  <1> HIDE DEF h
  <1>8. ASSUME NEW k \in 0 .. clientCount
        PROVE  h[k] \in Nat
    <2> DEFINE Z == {i \in 0 .. clientCount : h[i] \in Nat}
    <2>1. 0 \in Z
      BY <1>6, EveryoneIs
    <2>2. ASSUME NEW i \in 0 .. k, i < k, i \in Z
          PROVE  i + 1 \in Z
      <3>1. i \in 0 .. clientCount /\ i < clientCount /\ k \in Nat /\ i \in Nat
        BY <1>5, <2>2
      <3>2. i + 1 \in Everyone /\ i + 1 - 1 = i /\ i + 1 \in 0 .. clientCount
        BY <3>1, EveryoneIs
      <3>3. h[i + 1] = h[i + 1 - 1] + O!Total(mc2[i + 1])
        BY <1>7, <3>2
      <3>4. O!Total(mc2[i + 1]) \in Nat
        BY <1>2, <3>2
      <3>5. h[i + 1] = h[i] + O!Total(mc2[i + 1]) /\ h[i] \in Nat
        BY <2>2, <3>2, <3>3
      <3> QED
        BY <3>2, <3>4, <3>5
    <2>3. k \in Nat
      BY <1>5
    <2> HIDE DEF Z
    <2>4. k \in Z
      BY <2>1, <2>2, <2>3, Induction
    <2> QED
      BY <2>4 DEF Z
  <1>9. h \in [0 .. clientCount -> Nat]
    <2>1. h = [k \in 0 .. clientCount |-> h[k]]
      BY DEF h
    <2> QED
      BY <1>8, <2>1
  <1>10. Adding(h, mc2)
    BY <1>6, <1>7, <1>9 DEF Adding
  <1>11. n - O!Total(mc[s]) = h[clientCount]
    BY <1>1, <1>3, <1>6
  <1> QED
    BY <1>2, <1>10, <1>11 DEF SumsTo

(* Those of S are to hear a text more.                                     *)
LEMMA SumsMore ==
    ASSUME ProgramsAssumption, NEW mc, NEW n, SumsTo(mc, n), NEW S, S \subseteq Everyone,
           NEW x \in Text,
           NEW mc2, mc2 = [r \in Everyone |->
                              IF r \in S THEN [mc[r] EXCEPT ![x] = mc[r][x] + 1] ELSE mc[r]]
    PROVE  SumsTo(mc2, n + Cardinality(S))
  <1>1. PICK g : Adding(g, mc) /\ n = g[clientCount]
    BY DEF SumsTo
  <1>2. \A k \in Everyone :
           /\ mc2[k] \in [Text -> Nat] /\ O!Total(mc[k]) \in Nat
           /\ O!Total(mc2[k]) = IF k \in S THEN O!Total(mc[k]) + 1 ELSE O!Total(mc[k])
    <2> SUFFICES ASSUME NEW k \in Everyone
                 PROVE  /\ mc2[k] \in [Text -> Nat] /\ O!Total(mc[k]) \in Nat
                        /\ O!Total(mc2[k]) = IF k \in S THEN O!Total(mc[k]) + 1
                                                        ELSE O!Total(mc[k])
      OBVIOUS
    <2>1. mc[k] \in [Text -> Nat] /\ O!Total(mc[k]) \in Nat
      BY SumIsNat DEF SumsTo
    <2>2. CASE k \in S
      <3>1. mc2[k] = [mc[k] EXCEPT ![x] = mc[k][x] + 1]
        BY <2>2
      <3> QED
        BY <2>1, <2>2, <3>1, SumMore
    <2>3. CASE k \notin S
      BY <2>1, <2>3
    <2> QED
      BY <2>2, <2>3
  <1>3. /\ g \in [0 .. clientCount -> Nat] /\ g[0] = 0
        /\ \A k \in Everyone : g[k] = g[k - 1] + O!Total(mc[k])
    BY <1>1 DEF Adding
  <1> DEFINE Upto(k) == {r \in S : r <= k}
             h == [k \in 0 .. clientCount |-> g[k] + Cardinality(Upto(k))]
  <1>4. \A k : IsFiniteSet(Upto(k)) /\ Cardinality(Upto(k)) \in Nat
    <2>1. \A k : Upto(k) \subseteq Everyone
      OBVIOUS
    <2> QED
      BY <2>1, EveryoneFinite
  <1>5. Upto(0) = {} /\ Upto(clientCount) = S
    BY EveryoneIs
  <1>6. \A k \in Everyone :
           /\ k \in S => Upto(k) = Upto(k - 1) \cup {k} /\ k \notin Upto(k - 1)
           /\ k \notin S => Upto(k) = Upto(k - 1)
    <2>1. \A k \in Everyone : \A r \in S : r <= k <=> r <= k - 1 \/ r = k
      BY EveryoneIs
    <2>2. \A k \in Everyone : ~(k <= k - 1)
      BY EveryoneIs
    <2> QED
      BY <2>1, <2>2
  <1> HIDE DEF Upto
  <1>7. \A k \in Everyone :
           Cardinality(Upto(k)) = Cardinality(Upto(k - 1)) + (IF k \in S THEN 1 ELSE 0)
    <2> SUFFICES ASSUME NEW k \in Everyone
                 PROVE  Cardinality(Upto(k))
                           = Cardinality(Upto(k - 1)) + (IF k \in S THEN 1 ELSE 0)
      OBVIOUS
    <2>1. PICK A : A = Upto(k - 1) /\ IsFiniteSet(A) /\ Cardinality(A) \in Nat
      BY <1>4
    <2>2. CASE k \in S
      <3>1. Upto(k) = A \cup {k} /\ k \notin A
        BY <1>6, <2>1, <2>2
      <3>2. Cardinality(Upto(k)) = Cardinality(A) + 1
        BY <2>1, <3>1, OneMore
      <3> QED
        BY <2>1, <2>2, <3>2
    <2>3. CASE k \notin S
      <3>1. Upto(k) = A
        BY <1>6, <2>1, <2>3
      <3> QED
        BY <2>1, <2>3, <3>1
    <2> QED
      BY <2>2, <2>3
  <1>8. h \in [0 .. clientCount -> Nat]
    BY <1>3, <1>4, SMTT(20)
  <1>9. h[0] = 0 /\ h[clientCount] = n + Cardinality(S)
    <2>1. Cardinality(Upto(0)) = 0
      BY <1>5, FS_EmptySet
    <2> QED
      BY <1>1, <1>3, <1>5, <2>1, EveryoneIs
  <1>10. ASSUME NEW k \in Everyone
         PROVE  h[k] = h[k - 1] + O!Total(mc2[k])
    <2>1. h[k] = g[k] + Cardinality(Upto(k)) /\ h[k - 1] = g[k - 1] + Cardinality(Upto(k - 1))
      BY EveryoneIs
    <2> HIDE DEF h
    <2>2. /\ g[k] \in Nat /\ g[k - 1] \in Nat /\ Cardinality(Upto(k)) \in Nat
          /\ Cardinality(Upto(k - 1)) \in Nat /\ O!Total(mc[k]) \in Nat
      BY <1>2, <1>3, <1>4, EveryoneIs
    <2>3. g[k] = g[k - 1] + O!Total(mc[k])
      BY <1>3
    <2>4. Cardinality(Upto(k)) = Cardinality(Upto(k - 1)) + (IF k \in S THEN 1 ELSE 0)
      BY <1>7
    <2>5. O!Total(mc2[k]) = O!Total(mc[k]) + (IF k \in S THEN 1 ELSE 0)
      BY <1>2, <2>2
    <2> QED
      BY <2>1, <2>2, <2>3, <2>4, <2>5
  <1> HIDE DEF h
  <1>11. Adding(h, mc2)
    BY <1>8, <1>9, <1>10 DEF Adding
  <1>12. mc2 \in [Everyone -> [Text -> Nat]]
    BY <1>2
  <1> QED
    BY <1>9, <1>11, <1>12 DEF SumsTo

HeardSums == SumsTo(messageCount, chatCompleteCnt)

(* chatCompleteCnt is the sum of messageCount: at first, and after every    *)
(* step.                                                                    *)
LEMMA HeardSame ==
    ASSUME HeardSums, UNCHANGED <<messageCount, chatCompleteCnt>>
    PROVE  HeardSums'
  BY DEF HeardSums

LEMMA HeardStarts ==
    ASSUME ProgramsAssumption, O!ChatInit
    PROVE  HeardSums
  <1>1. O!Session = Everyone
    BY OlderWay
  <1>2. /\ messageCount = [s \in Everyone |-> [text \in Text |-> 0]]
        /\ chatCompleteCnt = 0
    BY <1>1 DEF O!ChatInit
  <1> QED
    BY <1>2, SumsStart DEF HeardSums

LEMMA HeardCloses ==
    ASSUME ProgramsAssumption, HeardSums, NEW s \in Everyone, O!CloseSession(s)
    PROVE  HeardSums'
  <1>1. /\ messageCount' = [messageCount EXCEPT ![s] = [text \in Text |-> 0]]
        /\ chatCompleteCnt' = chatCompleteCnt - O!Total(messageCount[s])
    BY DEF O!CloseSession
  <1>2. SumsTo(messageCount', chatCompleteCnt - O!Total(messageCount[s]))
    BY <1>1, SumsLess DEF HeardSums
  <1> QED
    BY <1>1, <1>2 DEF HeardSums

LEMMA HeardSays ==
    ASSUME ProgramsAssumption, HeardSums, NEW s \in Everyone, O!UpdateChat(s)
    PROVE  HeardSums'
  <1>1. O!Session = Everyone
    BY OlderWay
  <1> DEFINE to == {r \in O!Active(O!Session) \ {s} :
                       isReadyForChat[r] /\ place[r] \in O!Around(place[s])}
  <1>2. /\ \E text \in Text :
              messageCount' = [r \in O!Session |-> IF r \in to
                                 THEN [messageCount[r] EXCEPT ![text] = @ + 1]
                                 ELSE messageCount[r]]
        /\ chatCompleteCnt' = chatCompleteCnt + O!Cardinality(to)
    BY Zenon DEF O!UpdateChat
  <1>3. to \subseteq Everyone /\ O!Cardinality(to) = Cardinality(to)
    BY <1>1, OlderNames DEF O!Active
  <1> HIDE DEF to
  <1>4. PICK text \in Text :
              messageCount' = [r \in O!Session |-> IF r \in to
                                 THEN [messageCount[r] EXCEPT ![text] = @ + 1]
                                 ELSE messageCount[r]]
    BY <1>2
  <1>5. messageCount' = [r \in Everyone |-> IF r \in to
                           THEN [messageCount[r] EXCEPT ![text] = messageCount[r][text] + 1]
                           ELSE messageCount[r]]
    BY <1>1, <1>4
  <1>6. SumsTo(messageCount', chatCompleteCnt + Cardinality(to))
    BY <1>3, <1>5, SumsMore DEF HeardSums
  <1> QED
    BY <1>2, <1>3, <1>6 DEF HeardSums

LEMMA HeardKept ==
    ASSUME ProgramsAssumption, HeardSums, O!ChatNext
    PROVE  HeardSums'
  <1>1. O!Session = Everyone /\ O!Threads = Crew
    BY OlderWay, CrewsAre
  <1>2. ASSUME NEW s \in Everyone,
               \/ O!Connect(s) \/ O!Connects(s) \/ O!Answers(s) \/ O!Receive(s)
               \/ O!UpdateContent(s) \/ O!UpdateChat(s) \/ O!FreeStep(s)
        PROVE  HeardSums'
    <2>1. O!Connect(s) => UNCHANGED <<messageCount, chatCompleteCnt>>
      BY Zenon DEF O!Connect, O!counts
    <2>2. O!Connects(s) => UNCHANGED <<messageCount, chatCompleteCnt>>
      BY Zenon DEF O!Connects, O!counts
    <2>3. O!Answers(s) => UNCHANGED <<messageCount, chatCompleteCnt>>
      BY Zenon DEF O!Answers, O!counts
    <2>4. O!Receive(s) => UNCHANGED <<messageCount, chatCompleteCnt>>
      <3>1. \A type : O!Received(s, type) => UNCHANGED <<messageCount, chatCompleteCnt>>
        BY DEF O!Received
      <3>2. O!Receive(s) => \E type : O!Received(s, type)
        BY DEF O!Receive, O!Packet_CreateCharacter, O!Packet_LocalChat,
               O!Packet_MoveStopOk, O!Packet_ChatComplete
      <3> QED
        BY <3>1, <3>2
    <2>5. O!UpdateContent(s) =>
             O!CloseSession(s) \/ UNCHANGED <<messageCount, chatCompleteCnt>>
      BY Zenon DEF O!UpdateContent, O!OnlyMoves, O!counts
    <2>6. O!FreeStep(s) => O!CloseSession(s) \/ UNCHANGED <<messageCount, chatCompleteCnt>>
      <3>1. O!MoveStart(s) => UNCHANGED <<messageCount, chatCompleteCnt>>
        BY Zenon DEF O!MoveStart, O!OnlyMoves, O!counts
      <3>2. O!MoveStop(s) => UNCHANGED <<messageCount, chatCompleteCnt>>
        BY Zenon DEF O!MoveStop
      <3>3. O!Chat(s) => UNCHANGED <<messageCount, chatCompleteCnt>>
        BY Zenon DEF O!Chat
      <3> QED
        BY <3>1, <3>2, <3>3, Zenon DEF O!FreeStep
    <2> QED
      BY <1>2, <2>1, <2>2, <2>3, <2>4, <2>5, <2>6, HeardSame, HeardCloses, HeardSays
  <1>3. ASSUME NEW t \in Crew, O!ThreadStep(t)
        PROVE  HeardSums'
    <2>1. O!SeeState(t) => UNCHANGED <<messageCount, chatCompleteCnt>>
      BY Zenon DEF O!SeeState, O!counts
    <2>2. O!EndMoving(t) => UNCHANGED <<messageCount, chatCompleteCnt>>
      BY Zenon DEF O!EndMoving
    <2>3. O!AllStopped(t) => UNCHANGED <<messageCount, chatCompleteCnt>>
      BY Zenon DEF O!AllStopped, O!counts
    <2>4. O!EndChatting(t) => UNCHANGED <<messageCount, chatCompleteCnt>>
      BY Zenon DEF O!EndChatting, O!counts
    <2>5. O!AllHeard(t) => UNCHANGED <<messageCount, chatCompleteCnt>>
      BY Zenon DEF O!AllHeard, O!counts
    <2>6. O!GoOn => UNCHANGED <<messageCount, chatCompleteCnt>>
      BY Zenon DEF O!GoOn, O!counts
    <2> QED
      BY <1>3, <2>1, <2>2, <2>3, <2>4, <2>5, <2>6, HeardSame DEF O!ThreadStep
  <1> QED
    BY <1>1, <1>2, <1>3 DEF O!ChatNext

(* So its counters have their types.                                        *)
LEMMA OlderTypesThen ==
    ASSUME ProgramsAssumption, OlderInv, HeardSums
    PROVE  O!ChatTypeOK
  <1>1. O!Session = Everyone /\ O!Threads = Crew
    BY OlderWay, CrewsAre
  <1>2. OlderTypes /\ Stages /\ Stops /\ Chats
    BY DEF OlderInv
  <1>3. waitThreadCount \in 0 .. O!threadCount
    <2>1. O!threadCount = CrewSize /\ CrewSize \in Nat
      BY CrewsAre, CrewFacts
    <2>2. IsFiniteSet(Crew) /\ Cardinality(Crew) = CrewSize
      BY CrewFacts
    <2>3. Through \subseteq Crew
      BY DEF Through
    <2>4. Cardinality(Through) \in Nat /\ Cardinality(Through) <= CrewSize
      BY <2>2, <2>3, FS_Subset, FS_CardinalityType
    <2> QED
      BY <1>2, <2>1, <2>4 DEF Stages
  <1>4. place \in [Everyone -> 0 .. MAX_SECTOR]
    BY <1>2 DEF OlderTypes, Ways
  <1>5. moveStopCnt \in Nat /\ chatPlayerCnt \in Nat
    BY <1>2, FlagNone DEF OlderTypes, FlagTypes, Stops, Chats
  <1>6. chatCompleteCnt \in Nat
    <2>1. PICK g : Adding(g, messageCount) /\ chatCompleteCnt = g[clientCount]
      BY DEF HeardSums, SumsTo
    <2>2. g \in [0 .. clientCount -> Nat]
      BY <2>1 DEF Adding
    <2>3. clientCount \in 0 .. clientCount
      BY EveryoneIs
    <2> QED
      BY <2>1, <2>2, <2>3
  <1>7. \A s \in Everyone : Len(inq[s]) <= MaxOnWay /\ Len(outq[s]) <= MaxOnWay
    BY <1>2 DEF OlderTypes, Roomy
  <1> QED
    BY <1>1, <1>3, <1>4, <1>5, <1>6, <1>7 DEF O!ChatTypeOK

-----------------------------------------------------------------------------
(* The places a message takes a character to; a chat message whose end        *)
(* follows; a queue whose last such place is p.                            *)
Moving == {m \in MsgType : m.sector # 0}
Followed(q) ==
    \A i \in 1 .. Len(q) : q[i].type = "LocalChat" =>
       \E j \in 1 .. Len(q) : i < j /\ q[j].type = "ChatEnd"
Halting(q, p) ==
    \E i \in 1 .. Len(q) :
       /\ q[i].type = "MoveStop" /\ q[i].sector = p
       /\ \A j \in 1 .. Len(q) : i < j => q[j].sector = 0

(* The order of the messages to come of a session, when one is put in or    *)
(* taken.                                                                   *)
LEMMA Appended ==
    ASSUME NEW q \in Seq(MsgType), NEW m \in MsgType
    PROVE  \E n \in Nat : /\ n = Len(q) /\ Len(Append(q, m)) = n + 1
                          /\ Append(q, m) \in Seq(MsgType)
                          /\ Append(q, m)[n + 1] = m
                          /\ \A i \in 1 .. n : Append(q, m)[i] = q[i]
  OBVIOUS

LEMMA Shortened ==
    ASSUME NEW q \in Seq(MsgType), q # <<>>
    PROVE  \E n \in Nat : /\ n + 1 = Len(q) /\ Len(Tail(q)) = n
                          /\ Tail(q) \in Seq(MsgType) /\ Head(q) = q[1]
                          /\ Head(q) \in MsgType
                          /\ \A i \in 1 .. n : Tail(q)[i] = q[i + 1]
  <1>1. PICK k \in Nat : k = Len(q)
    OBVIOUS
  <1>2. k # 0
    BY <1>1
  <1>3. PICK n \in Nat : n + 1 = Len(q)
    BY <1>1, <1>2
  <1> QED
    BY <1>3

LEMMA FollowedMore ==
    ASSUME NEW q \in Seq(MsgType), NEW m \in MsgType
    PROVE  /\ m.type = "ChatEnd" => Followed(Append(q, m))
           /\ m.type # "LocalChat" /\ Followed(q) => Followed(Append(q, m))
           /\ Those(q, Of("LocalChat")) = 0 => Followed(q)
  <1>1. PICK n \in Nat : /\ n = Len(q) /\ Len(Append(q, m)) = n + 1
                         /\ Append(q, m)[n + 1] = m
                         /\ \A i \in 1 .. n : Append(q, m)[i] = q[i]
    BY Appended
  <1> DEFINE r == Append(q, m)
  <1> HIDE DEF r
  <1>2. Len(r) = n + 1 /\ r[n + 1] = m /\ \A i \in 1 .. n : r[i] = q[i]
    BY <1>1 DEF r
  <1>3. ASSUME m.type = "ChatEnd"
        PROVE  Followed(r)
    <2> SUFFICES ASSUME NEW i \in 1 .. n + 1, r[i].type = "LocalChat"
                 PROVE  \E j \in 1 .. n + 1 : i < j /\ r[j].type = "ChatEnd"
      BY <1>2 DEF Followed
    <2>1. i # n + 1
      BY <1>2, <1>3
    <2>2. n + 1 \in 1 .. n + 1 /\ i < n + 1
      BY <1>1, <2>1
    <2> QED
      BY <1>2, <1>3, <2>2
  <1>4. ASSUME m.type # "LocalChat", Followed(q)
        PROVE  Followed(r)
    <2> SUFFICES ASSUME NEW i \in 1 .. n + 1, r[i].type = "LocalChat"
                 PROVE  \E j \in 1 .. n + 1 : i < j /\ r[j].type = "ChatEnd"
      BY <1>2 DEF Followed
    <2>1. i # n + 1
      BY <1>2, <1>4
    <2>2. i \in 1 .. n /\ r[i] = q[i]
      BY <1>1, <1>2, <2>1
    <2>3. PICK j \in 1 .. n : i < j /\ q[j].type = "ChatEnd"
      BY <1>1, <1>4, <2>2 DEF Followed
    <2>4. j \in 1 .. n + 1 /\ r[j] = q[j]
      BY <1>1, <1>2
    <2> QED
      BY <2>3, <2>4
  <1>5. ASSUME Those(q, Of("LocalChat")) = 0
        PROVE  Followed(q)
    <2>1. \A i \in 1 .. Len(q) : q[i] \notin Of("LocalChat")
      BY <1>5, ThoseNone
    <2>2. \A i \in 1 .. Len(q) : q[i] \in MsgType
      OBVIOUS
    <2> QED
      BY <2>1, <2>2 DEF Followed, Of
  <1> QED
    BY <1>3, <1>4, <1>5 DEF r

LEMMA FollowedLess ==
    ASSUME NEW q \in Seq(MsgType), Followed(q)
    PROVE  /\ q # <<>> => Followed(Tail(q))
           /\ Those(q, Of("ChatEnd")) = 0 => Those(q, Of("LocalChat")) = 0
  <1>1. ASSUME q # <<>>
        PROVE  Followed(Tail(q))
    <2> DEFINE r == Tail(q)
    <2>1. PICK n \in Nat : /\ n + 1 = Len(q) /\ Len(Tail(q)) = n
                           /\ \A i \in 1 .. n : Tail(q)[i] = q[i + 1]
      BY <1>1, Shortened
    <2> HIDE DEF r
    <2>2. Len(r) = n /\ \A i \in 1 .. n : r[i] = q[i + 1]
      BY <2>1 DEF r
    <2>3. ASSUME NEW i \in 1 .. n, r[i].type = "LocalChat"
          PROVE  \E j \in 1 .. n : i < j /\ r[j].type = "ChatEnd"
      <3>1. i + 1 \in 1 .. Len(q) /\ q[i + 1].type = "LocalChat"
        BY <2>1, <2>2, <2>3
      <3>2. PICK k \in 1 .. Len(q) : i + 1 < k /\ q[k].type = "ChatEnd"
        BY <3>1 DEF Followed
      <3>3. k - 1 \in 1 .. n /\ i < k - 1 /\ k - 1 + 1 = k
        BY <2>1, <3>2
      <3> QED
        BY <2>2, <3>2, <3>3
    <2>4. Followed(r)
      BY <2>2, <2>3 DEF Followed
    <2> QED
      BY <2>4 DEF r
  <1>2. ASSUME Those(q, Of("ChatEnd")) = 0
        PROVE  Those(q, Of("LocalChat")) = 0
    <2>1. \A i \in 1 .. Len(q) : q[i] \in MsgType /\ q[i] \notin Of("ChatEnd")
      BY <1>2, ThoseNone
    <2>2. \A i \in 1 .. Len(q) : q[i] \notin Of("LocalChat")
      BY <2>1 DEF Of, Followed
    <2> QED
      BY <2>2, ThoseNone
  <1> QED
    BY <1>1, <1>2

LEMMA HaltingMore ==
    ASSUME NEW q \in Seq(MsgType), NEW m \in MsgType, NEW p
    PROVE  /\ m.type = "MoveStop" /\ m.sector = p => Halting(Append(q, m), p)
           /\ m.sector = 0 /\ Halting(q, p) => Halting(Append(q, m), p)
           /\ Halting(q, p) => Those(q, Of("MoveStop")) > 0
  <1>1. PICK n \in Nat : /\ n = Len(q) /\ Len(Append(q, m)) = n + 1
                         /\ Append(q, m)[n + 1] = m
                         /\ \A i \in 1 .. n : Append(q, m)[i] = q[i]
    BY Appended
  <1> DEFINE r == Append(q, m)
  <1> HIDE DEF r
  <1>2. Len(r) = n + 1 /\ r[n + 1] = m /\ \A i \in 1 .. n : r[i] = q[i]
    BY <1>1 DEF r
  <1>3. ASSUME m.type = "MoveStop", m.sector = p
        PROVE  Halting(r, p)
    <2>1. n + 1 \in 1 .. n + 1 /\ \A j \in 1 .. n + 1 : ~(n + 1 < j)
      BY <1>1
    <2> QED
      BY <1>2, <1>3, <2>1 DEF Halting
  <1>4. ASSUME m.sector = 0, Halting(q, p)
        PROVE  Halting(r, p)
    <2>1. PICK i \in 1 .. n : /\ q[i].type = "MoveStop" /\ q[i].sector = p
                              /\ \A j \in 1 .. n : i < j => q[j].sector = 0
      BY <1>1, <1>4 DEF Halting
    <2>2. i \in 1 .. n + 1 /\ r[i] = q[i]
      BY <1>1, <1>2, <2>1
    <2>3. \A j \in 1 .. n + 1 : i < j => r[j].sector = 0
      <3> SUFFICES ASSUME NEW j \in 1 .. n + 1, i < j
                   PROVE  r[j].sector = 0
        OBVIOUS
      <3>1. CASE j = n + 1
        BY <1>2, <1>4, <3>1
      <3>2. CASE j # n + 1
        <4>1. j \in 1 .. n
          BY <1>1, <3>2
        <4> QED
          BY <1>2, <2>1, <4>1
      <3> QED
        BY <3>1, <3>2
    <2> QED
      BY <1>2, <2>1, <2>2, <2>3 DEF Halting
  <1>5. ASSUME Halting(q, p)
        PROVE  Those(q, Of("MoveStop")) > 0
    <2>1. PICK i \in 1 .. Len(q) : q[i].type = "MoveStop"
      BY <1>5 DEF Halting
    <2>2. q[i] \in Of("MoveStop")
      BY <2>1 DEF Of
    <2>3. Those(q, Of("MoveStop")) # 0
      BY <2>2, ThoseNone
    <2>4. PICK k \in Nat : k = Those(q, Of("MoveStop"))
      BY ThoseFinite
    <2> QED
      BY <2>3, <2>4
  <1> QED
    BY <1>3, <1>4, <1>5 DEF r

LEMMA HaltingLess ==
    ASSUME NEW q \in Seq(MsgType), q # <<>>, NEW p, Halting(q, p)
    PROVE  \/ Halting(Tail(q), p)
           \/ Head(q).sector = p /\ Those(Tail(q), Moving) = 0
  <1> DEFINE r == Tail(q)
  <1>1. PICK n \in Nat : /\ n + 1 = Len(q) /\ Len(Tail(q)) = n
                         /\ Tail(q) \in Seq(MsgType) /\ Head(q) = q[1]
                         /\ \A i \in 1 .. n : Tail(q)[i] = q[i + 1]
    BY Shortened
  <1> HIDE DEF r
  <1>2. Len(r) = n /\ r \in Seq(MsgType) /\ \A i \in 1 .. n : r[i] = q[i + 1]
    BY <1>1 DEF r
  <1>3. PICK i \in 1 .. n + 1 : /\ q[i].type = "MoveStop" /\ q[i].sector = p
                                /\ \A j \in 1 .. n + 1 : i < j => q[j].sector = 0
    BY <1>1 DEF Halting
  <1>4. CASE i = 1
    <2>1. \A j \in 1 .. n : r[j].sector = 0
      <3> SUFFICES ASSUME NEW j \in 1 .. n
                   PROVE  r[j].sector = 0
        OBVIOUS
      <3>1. j + 1 \in 1 .. n + 1 /\ 1 < j + 1
        OBVIOUS
      <3> QED
        BY <1>2, <1>3, <1>4, <3>1
    <2>2. Those(r, Moving) = 0
      BY <1>2, <2>1, ThoseNone DEF Moving
    <2> QED
      BY <1>1, <1>3, <1>4, <2>2 DEF r
  <1>5. CASE i # 1
    <2>1. PICK k \in 1 .. n : k + 1 = i
      <3>1. i - 1 \in 1 .. n /\ i - 1 + 1 = i
        BY <1>5
      <3> QED
        BY <3>1
    <2>2. r[k].type = "MoveStop" /\ r[k].sector = p
      BY <1>2, <1>3, <2>1
    <2>3. \A j \in 1 .. n : k < j => r[j].sector = 0
      <3> SUFFICES ASSUME NEW j \in 1 .. n, k < j
                   PROVE  r[j].sector = 0
        OBVIOUS
      <3>1. j + 1 \in 1 .. n + 1 /\ i < j + 1
        BY <2>1
      <3> QED
        BY <1>2, <1>3, <3>1
    <2>4. Halting(r, p)
      BY <1>2, <2>2, <2>3 DEF Halting
    <2> QED
      BY <2>4 DEF r
  <1> QED
    BY <1>4, <1>5

(* One session of the test client: whether its thread has started, its status, *)
(* where it is, what is on the way to it and from it, and where the server     *)
(* has its character.                                                      *)
Condition == {0, 1, 3, 4, 6, 7, 8, 9, 10, 11}
View(st, p, in, out, a) ==
    /\ st \in Condition /\ p \in 0 .. MAX_SECTOR /\ a \in 0 .. MAX_SECTOR
    /\ in \in Seq(MsgType) /\ out \in Seq(MsgType)

Home(begun, st, p, in, out, a) ==
    /\ Len(in) <= MaxOnWay
    /\ a = 0 => in = <<>> /\ out = <<>>
    /\ st < 3 => a = 0
    /\ st > 3 => a # 0 /\ p # 0
    /\ ~begun => st = 0
    /\ Those(in, Of("CreateCharacter")) = IF st = 3 /\ a # 0 THEN 1 ELSE 0
    /\ st = 3 => /\ out = <<>>
                 /\ Those(in, Of("MoveStopComplete")) = 0
                 /\ Those(in, Of("ChatComplete")) = 0

Asked(st, in, out) ==
    /\ Those(out, Of("MoveStop")) + Those(in, Of("MoveStopComplete"))
         = IF st = 7 THEN 1 ELSE 0
    /\ Those(out, Of("ChatEnd")) + Those(in, Of("ChatComplete"))
         = IF st = 10 THEN 1 ELSE 0

Settled(p, out, a) == a = p /\ Those(out, Moving) = 0
Steady(st, p, out, a) ==
    /\ Those(out, Of("LocalChat")) <= 1
    /\ Those(out, Of("LocalChat")) > 0 => st \in {9, 10}
    /\ st = 10 => Followed(out)
    /\ st \in {8, 9, 10, 11} => Settled(p, out, a)
    /\ st = 7 => Settled(p, out, a) \/ Halting(out, p)

Fair(tr, st, p, in, out, a) == Asked(st, in, out) /\ (tr => Steady(st, p, out, a))

(* What a step of one session does to Home.                                 *)
LEMMA EmptyWay ==
    \A kind : Those(<<>>, kind) = 0
  <1>1. <<>> \in Seq(MsgType)
    OBVIOUS
  <1> QED
    BY <1>1, ThoseNone

-----------------------------------------------------------------------------
(* Home *)

LEMMA HomeSends ==
    ASSUME NEW st, NEW p, NEW in, NEW out, NEW a, NEW st2, NEW p2, NEW out2,
           st \in Condition, st2 \in Condition, Home(TRUE, st, p, in, out, a),
           st > 3, st2 > 3, p2 # 0
    PROVE  Home(TRUE, st2, p2, in, out2, a)
  BY DEF Home, Condition

LEMMA HomeClears ==
    ASSUME MaxOnWay \in Nat
    PROVE  Home(TRUE, 1, 0, <<>>, <<>>, 0)
  BY EmptyWay DEF Home

LEMMA HomeBegins ==
    ASSUME NEW p, NEW in, NEW out, NEW a, NEW st, st \in Condition, st < 3,
           NEW b, Home(b, st, p, in, out, a)
    PROVE  /\ Home(TRUE, 1, p, in, out, a)
           /\ Home(TRUE, 3, p, in, out, a)
           /\ Home(TRUE, st, p, in, out, a)
  BY EmptyWay DEF Home, Condition

LEMMA HomeTakes ==
    ASSUME NEW st, NEW p, NEW in, NEW out, NEW a, View(st, p, in, out, a),
           MaxOnWay \in Nat, Home(TRUE, st, p, in, out, a), in # <<>>
    PROVE  /\ Head(in).type = "CreateCharacter" =>
                 /\ st = 3 /\ out = <<>>
                 /\ Home(TRUE, 4, Head(in).sector, Tail(in), out, a)
           /\ Head(in).type = "LocalChat" => Home(TRUE, st, p, Tail(in), out, a)
           /\ Head(in).type = "MoveStopComplete" =>
                 (st > 3 /\ Home(TRUE, 8, p, Tail(in), out, a))
           /\ Head(in).type = "ChatComplete" =>
                 (st > 3 /\ Home(TRUE, 11, p, Tail(in), out, a))
  <1>1. /\ Head(in) \in MsgType /\ Tail(in) \in Seq(MsgType)
        /\ \A kind : Those(in, kind) = Those(Tail(in), kind) + One(Head(in), kind)
        /\ \A kind : Those(in, kind) \in Nat /\ Those(Tail(in), kind) \in Nat
    BY ThoseLess, ThoseFinite DEF View
  <1>2. Len(Tail(in)) <= MaxOnWay
    <2>1. PICK n \in Nat : n + 1 = Len(in) /\ Len(Tail(in)) = n
      BY Shortened DEF View
    <2> QED
      BY <2>1 DEF Home
  <1>3. \A type : One(Head(in), Of(type)) = IF Head(in).type = type THEN 1 ELSE 0
    BY <1>1, KindOf
  <1> DEFINE c == Those(Tail(in), Of("CreateCharacter"))
             d == Those(Tail(in), Of("MoveStopComplete"))
             e == Those(Tail(in), Of("ChatComplete"))
  <1>4. /\ c \in Nat /\ d \in Nat /\ e \in Nat
        /\ Those(in, Of("CreateCharacter"))
              = c + (IF Head(in).type = "CreateCharacter" THEN 1 ELSE 0)
        /\ Those(in, Of("MoveStopComplete"))
              = d + (IF Head(in).type = "MoveStopComplete" THEN 1 ELSE 0)
        /\ Those(in, Of("ChatComplete"))
              = e + (IF Head(in).type = "ChatComplete" THEN 1 ELSE 0)
    BY <1>1, <1>3
  <1>5. /\ a # 0 /\ st \in Condition /\ st >= 3
        /\ st > 3 => p # 0
        /\ st = 3 => out = <<>>
        /\ c + (IF Head(in).type = "CreateCharacter" THEN 1 ELSE 0)
              = IF st = 3 THEN 1 ELSE 0
        /\ st = 3 => /\ d + (IF Head(in).type = "MoveStopComplete" THEN 1 ELSE 0) = 0
                     /\ e + (IF Head(in).type = "ChatComplete" THEN 1 ELSE 0) = 0
    <2>1. a # 0
      BY DEF Home
    <2>2. st \in Condition /\ st >= 3
      BY <2>1 DEF Home, View, Condition
    <2> QED
      BY <1>4, <2>1, <2>2 DEF Home
  <1>6. ASSUME Head(in).type = "CreateCharacter"
        PROVE  st = 3 /\ out = <<>> /\ Home(TRUE, 4, Head(in).sector, Tail(in), out, a)
    <2>1. Head(in).sector # 0
      BY <1>1, <1>6 DEF MsgType
    <2>2. st = 3 /\ c = 0
      BY <1>4, <1>5, <1>6 DEF Condition
    <2> QED
      BY <1>2, <1>5, <2>1, <2>2 DEF Home
  <1>7. ASSUME Head(in).type = "LocalChat"
        PROVE  Home(TRUE, st, p, Tail(in), out, a)
    <2>1. c = (IF st = 3 THEN 1 ELSE 0) /\ (st = 3 => d = 0 /\ e = 0)
      BY <1>4, <1>5, <1>7 DEF Condition
    <2> QED
      BY <1>2, <1>5, <2>1 DEF Home, Condition
  <1>8. ASSUME Head(in).type \in {"MoveStopComplete", "ChatComplete"}
        PROVE  st > 3 /\ c = 0 /\ p # 0
    <2>1. st # 3
      BY <1>4, <1>5, <1>8
    <2>2. st > 3
      BY <1>5, <2>1 DEF Condition
    <2> QED
      BY <1>4, <1>5, <1>8, <2>1, <2>2
  <1>9. Head(in).type = "MoveStopComplete" => (st > 3 /\ Home(TRUE, 8, p, Tail(in), out, a))
    BY <1>2, <1>5, <1>8 DEF Home
  <1>10. Head(in).type = "ChatComplete" => (st > 3 /\ Home(TRUE, 11, p, Tail(in), out, a))
    BY <1>2, <1>5, <1>8 DEF Home
  <1> QED
    BY <1>6, <1>7, <1>9, <1>10

LEMMA HomeAccepted ==
    ASSUME NEW st, NEW p, NEW in, NEW in2, NEW out, NEW b,
           st = 3, Home(TRUE, st, p, in, out, 0), b # 0, Len(in2) = Len(in) + 1,
           MaxOnWay \in Nat \ {0},
           Those(in2, Of("CreateCharacter")) = 1,
           Those(in2, Of("MoveStopComplete")) = 0, Those(in2, Of("ChatComplete")) = 0
    PROVE  Home(TRUE, st, p, in2, out, b)
  <1>1. in = <<>> /\ Len(<<>>) = 0
    BY DEF Home
  <1>2. Len(in2) <= MaxOnWay
    BY <1>1
  <1> QED
    BY <1>2 DEF Home

LEMMA HomeAnswered ==
    ASSUME NEW begun, NEW st, NEW p, NEW in, NEW in2, NEW out, NEW out2, NEW a, NEW b,
           View(st, p, in, out, a), Home(begun, st, p, in, out, a),
           View(st, p, in2, out2, b), Len(in2) <= MaxOnWay,
           a = 0 => b = 0 /\ in2 = in /\ out2 = out, a # 0 => b # 0,
           out = <<>> => out2 = <<>>,
           Those(in2, Of("CreateCharacter")) = Those(in, Of("CreateCharacter")),
           Those(out2, Of("MoveStop")) + Those(in2, Of("MoveStopComplete"))
               = Those(out, Of("MoveStop")) + Those(in, Of("MoveStopComplete")),
           Those(out2, Of("ChatEnd")) + Those(in2, Of("ChatComplete"))
               = Those(out, Of("ChatEnd")) + Those(in, Of("ChatComplete"))
    PROVE  Home(begun, st, p, in2, out2, b)
  <1>1. Those(in2, Of("MoveStopComplete")) \in Nat /\ Those(in2, Of("ChatComplete")) \in Nat
    BY ThoseFinite DEF View
  <1>2. ASSUME st = 3
        PROVE  /\ out2 = <<>>
               /\ Those(in2, Of("MoveStopComplete")) = 0
               /\ Those(in2, Of("ChatComplete")) = 0
    <2>1. out = <<>> /\ out2 = <<>>
      BY <1>2 DEF Home
    <2>2. 0 + Those(in2, Of("MoveStopComplete")) = 0 + 0
          /\ 0 + Those(in2, Of("ChatComplete")) = 0 + 0
      BY <1>2, <2>1, EmptyWay DEF Home
    <2> QED
      BY <1>1, <2>1, <2>2
  <1> QED
    BY <1>2 DEF Home

(* What a step of one session does to Fair.                                 *)
LEMMA SteadyQuiet ==
    ASSUME NEW st, NEW p, NEW out, NEW a, out \in Seq(MsgType),
           Steady(st, p, out, a), st \notin {9, 10}
    PROVE  Those(out, Of("LocalChat")) = 0
  <1>1. Those(out, Of("LocalChat")) \in Nat
    BY ThoseFinite
  <1> QED
    BY <1>1 DEF Steady

(* Nothing is sent, nothing arrives, and the session waits for nothing.     *)
LEMMA FairTurns ==
    ASSUME NEW tr, NEW st, NEW p, NEW in, NEW out, NEW a, NEW st2, NEW p2,
           View(st, p, in, out, a), Fair(tr, st, p, in, out, a),
           st \notin {7, 9, 10}, st2 \in {1, 3, 4, 6}
    PROVE  Fair(tr, st2, p2, in, out, a)
  <1>1. Asked(st2, in, out)
    BY DEF Fair, Asked
  <1>2. tr => Steady(st2, p2, out, a)
    <2>1. tr => Those(out, Of("LocalChat")) = 0
      BY SteadyQuiet DEF Fair, View
    <2> QED
      BY <2>1 DEF Steady
  <1> QED
    BY <1>1, <1>2 DEF Fair

LEMMA FairClears ==
    ASSUME NEW tr
    PROVE  Fair(tr, 1, 0, <<>>, <<>>, 0)
  BY EmptyWay DEF Fair, Asked, Steady

LEMMA FairMoves ==
    ASSUME NEW tr, NEW st, NEW p, NEW in, NEW out, NEW a, NEW p2,
           View(st, p, in, out, a), Fair(tr, st, p, in, out, a), st \in {4, 6, 8, 11},
           NEW m \in MsgType, m.type = "MoveStart"
    PROVE  Fair(tr, 6, p2, in, Append(out, m), a)
  <1> DEFINE q == Append(out, m)
  <1>1. /\ Those(q, Of("MoveStop")) = Those(out, Of("MoveStop")) + 0
        /\ Those(q, Of("ChatEnd")) = Those(out, Of("ChatEnd")) + 0
        /\ Those(q, Of("LocalChat")) = Those(out, Of("LocalChat")) + 0
    BY ThoseMore, KindOf DEF View
  <1>2. \A kind : Those(out, kind) \in Nat
    BY ThoseFinite DEF View
  <1> HIDE DEF q
  <1>3. Asked(6, in, q)
    BY <1>1, <1>2 DEF Fair, Asked
  <1>4. tr => Steady(6, p2, q, a)
    <2>1. tr => Those(out, Of("LocalChat")) = 0
      BY SteadyQuiet DEF Fair, View
    <2> QED
      BY <1>1, <2>1 DEF Steady
  <1> QED
    BY <1>3, <1>4 DEF Fair, q

LEMMA FairStops ==
    ASSUME NEW tr, NEW p, NEW in, NEW out, NEW a, NEW p2,
           View(6, p, in, out, a), Fair(tr, 6, p, in, out, a),
           NEW m \in MsgType, m.type = "MoveStop", m.sector = p2,
           NEW n \in MsgType, n.type = "HeartBeat", n.sector = 0
    PROVE  Fair(tr, 7, p2, in, Append(Append(out, m), n), a)
  <1> DEFINE q == Append(out, m)
             r == Append(q, n)
  <1>1. /\ Those(q, Of("MoveStop")) = Those(out, Of("MoveStop")) + 1
        /\ Those(q, Of("ChatEnd")) = Those(out, Of("ChatEnd")) + 0
        /\ Those(q, Of("LocalChat")) = Those(out, Of("LocalChat")) + 0
        /\ q \in Seq(MsgType)
    BY ThoseMore, KindOf, Joined DEF View
  <1>2. Halting(q, p2)
    BY HaltingMore DEF View
  <1>3. \A kind : Those(out, kind) \in Nat /\ Those(in, kind) \in Nat
    BY ThoseFinite DEF View
  <1> HIDE DEF q
  <1>4. /\ Those(r, Of("MoveStop")) = Those(q, Of("MoveStop")) + 0
        /\ Those(r, Of("ChatEnd")) = Those(q, Of("ChatEnd")) + 0
        /\ Those(r, Of("LocalChat")) = Those(q, Of("LocalChat")) + 0
    BY <1>1, ThoseMore, KindOf
  <1>5. Halting(r, p2)
    BY <1>1, <1>2, HaltingMore
  <1> HIDE DEF r
  <1> DEFINE b == Those(out, Of("MoveStop"))
             c == Those(out, Of("ChatEnd"))
             d == Those(in, Of("MoveStopComplete"))
             e == Those(in, Of("ChatComplete"))
  <1>6. /\ b + d = 0 /\ c + e = 0 /\ b \in Nat /\ c \in Nat /\ d \in Nat /\ e \in Nat
    BY <1>3 DEF Fair, Asked
  <1>7. Those(r, Of("MoveStop")) = b + 1 /\ Those(r, Of("ChatEnd")) = c
        /\ Those(r, Of("LocalChat")) = Those(out, Of("LocalChat"))
    BY <1>1, <1>3, <1>4
  <1> HIDE DEF b, c, d, e
  <1>8. b + 1 + d = 1 /\ c + e = 0
    BY <1>6
  <1>9. Asked(7, in, r)
    BY <1>7, <1>8 DEF Asked, d, e
  <1>10. tr => Steady(7, p2, r, a)
    <2>1. tr => Those(out, Of("LocalChat")) = 0
      BY SteadyQuiet DEF Fair, View
    <2> QED
      BY <1>5, <1>7, <2>1 DEF Steady
  <1> QED
    BY <1>9, <1>10 DEF Fair, q, r

LEMMA FairSays ==
    ASSUME NEW tr, NEW st, NEW p, NEW in, NEW out, NEW a,
           View(st, p, in, out, a), Fair(tr, st, p, in, out, a), st \in {4, 8, 11},
           tr => st = 8, NEW m \in MsgType, m.type = "LocalChat"
    PROVE  Fair(tr, 9, p, in, Append(out, m), a)
  <1> DEFINE q == Append(out, m)
  <1>1. m.sector = 0
    BY DEF MsgType
  <1>2. /\ Those(q, Of("MoveStop")) = Those(out, Of("MoveStop")) + 0
        /\ Those(q, Of("ChatEnd")) = Those(out, Of("ChatEnd")) + 0
        /\ Those(q, Of("LocalChat")) = Those(out, Of("LocalChat")) + 1
        /\ Those(q, Moving) = Those(out, Moving) + 0
    BY <1>1, ThoseMore, KindOf DEF View, One, Moving
  <1>3. \A kind : Those(out, kind) \in Nat
    BY ThoseFinite DEF View
  <1> HIDE DEF q
  <1>4. Asked(9, in, q)
    BY <1>2, <1>3 DEF Fair, Asked
  <1>5. tr => Steady(9, p, q, a)
    <2>1. tr => Those(out, Of("LocalChat")) = 0
      BY SteadyQuiet DEF Fair, View
    <2>2. tr => Settled(p, out, a)
      BY DEF Fair, Steady
    <2>3. tr => Settled(p, q, a)
      BY <1>2, <2>2 DEF Settled
    <2> QED
      BY <1>2, <2>1, <2>3 DEF Steady
  <1> QED
    BY <1>4, <1>5 DEF Fair, q

LEMMA FairEnds ==
    ASSUME NEW tr, NEW p, NEW in, NEW out, NEW a,
           View(9, p, in, out, a), Fair(tr, 9, p, in, out, a),
           NEW m \in MsgType, m.type = "ChatEnd", m.sector = 0
    PROVE  Fair(tr, 10, p, in, Append(out, m), a)
  <1> DEFINE q == Append(out, m)
  <1>1. /\ Those(q, Of("MoveStop")) = Those(out, Of("MoveStop")) + 0
        /\ Those(q, Of("ChatEnd")) = Those(out, Of("ChatEnd")) + 1
        /\ Those(q, Of("LocalChat")) = Those(out, Of("LocalChat")) + 0
        /\ Those(q, Moving) = Those(out, Moving) + 0
    BY ThoseMore, KindOf DEF View, One, Moving
  <1>2. Followed(q)
    BY FollowedMore DEF View
  <1>3. \A kind : Those(out, kind) \in Nat /\ Those(in, kind) \in Nat
    BY ThoseFinite DEF View
  <1> HIDE DEF q
  <1> DEFINE b == Those(out, Of("MoveStop"))
             c == Those(out, Of("ChatEnd"))
             d == Those(in, Of("MoveStopComplete"))
             e == Those(in, Of("ChatComplete"))
  <1>4. /\ b + d = 0 /\ c + e = 0 /\ b \in Nat /\ c \in Nat /\ d \in Nat /\ e \in Nat
    BY <1>3 DEF Fair, Asked
  <1>5. Those(q, Of("MoveStop")) = b /\ Those(q, Of("ChatEnd")) = c + 1
        /\ Those(q, Of("LocalChat")) = Those(out, Of("LocalChat"))
        /\ Those(q, Moving) = Those(out, Moving)
    BY <1>1, <1>3
  <1> HIDE DEF b, c, d, e
  <1>6. b + d = 0 /\ c + 1 + e = 1
    BY <1>4
  <1>7. Asked(10, in, q)
    BY <1>5, <1>6 DEF Asked, d, e
  <1>8. tr => Steady(10, p, q, a)
    <2>1. tr => Those(out, Of("LocalChat")) <= 1 /\ Settled(p, out, a)
      BY DEF Fair, Steady
    <2> QED
      BY <1>2, <1>5, <2>1 DEF Steady, Settled
  <1> QED
    BY <1>7, <1>8 DEF Fair, q

(* A HeartBeat may follow what is sent; only without the trust mode.        *)
LEMMA FairBeats ==
    ASSUME NEW st, NEW p, NEW in, NEW out, NEW a, NEW tr,
           out \in Seq(MsgType), Fair(tr, st, p, in, out, a), ~tr,
           NEW m \in MsgType, m.type = "HeartBeat"
    PROVE  Fair(tr, st, p, in, Append(out, m), a)
  <1> DEFINE q == Append(out, m)
  <1>1. /\ Those(q, Of("MoveStop")) = Those(out, Of("MoveStop")) + 0
        /\ Those(q, Of("ChatEnd")) = Those(out, Of("ChatEnd")) + 0
    BY ThoseMore, KindOf
  <1>2. \A kind : Those(out, kind) \in Nat
    BY ThoseFinite
  <1> HIDE DEF q
  <1>3. Asked(st, in, q)
    BY <1>1, <1>2 DEF Fair, Asked
  <1> QED
    BY <1>3 DEF Fair, q

LEMMA FairTakes ==
    ASSUME NEW tr, NEW st, NEW p, NEW in, NEW out, NEW a, View(st, p, in, out, a),
           Fair(tr, st, p, in, out, a), in # <<>>, NEW p2
    PROVE  /\ Head(in).type = "CreateCharacter" /\ st = 3 =>
                 Fair(tr, 4, p2, Tail(in), out, a)
           /\ Head(in).type = "LocalChat" => Fair(tr, st, p, Tail(in), out, a)
           /\ Head(in).type = "MoveStopComplete" =>
                 (st = 7 /\ Fair(tr, 8, p, Tail(in), out, a))
           /\ Head(in).type = "ChatComplete" =>
                 (st = 10 /\ Fair(tr, 11, p, Tail(in), out, a))
  <1>1. /\ Head(in) \in MsgType /\ Tail(in) \in Seq(MsgType)
        /\ \A kind : Those(in, kind) = Those(Tail(in), kind) + One(Head(in), kind)
        /\ \A kind : Those(in, kind) \in Nat /\ Those(Tail(in), kind) \in Nat
        /\ \A kind : Those(out, kind) \in Nat
    BY ThoseLess, ThoseFinite DEF View
  <1>2. \A type : One(Head(in), Of(type)) = IF Head(in).type = type THEN 1 ELSE 0
    BY <1>1, KindOf
  <1> DEFINE b == Those(out, Of("MoveStop"))
             c == Those(out, Of("ChatEnd"))
             d == Those(Tail(in), Of("MoveStopComplete"))
             e == Those(Tail(in), Of("ChatComplete"))
  <1>3. /\ b \in Nat /\ c \in Nat /\ d \in Nat /\ e \in Nat
        /\ b + (d + (IF Head(in).type = "MoveStopComplete" THEN 1 ELSE 0))
             = IF st = 7 THEN 1 ELSE 0
        /\ c + (e + (IF Head(in).type = "ChatComplete" THEN 1 ELSE 0))
             = IF st = 10 THEN 1 ELSE 0
    BY <1>1, <1>2 DEF Fair, Asked
  <1> HIDE DEF b, c, d, e
  <1>4. ASSUME Head(in).type = "CreateCharacter", st = 3
        PROVE  Fair(tr, 4, p2, Tail(in), out, a)
    <2>1. b + d = 0 /\ c + e = 0
      BY <1>3, <1>4
    <2>2. Asked(4, Tail(in), out)
      BY <2>1 DEF Asked, b, c, d, e
    <2>3. tr => Those(out, Of("LocalChat")) = 0
      BY <1>4, SteadyQuiet DEF Fair, View
    <2>4. tr => Steady(4, p2, out, a)
      BY <2>3 DEF Steady
    <2> QED
      BY <2>2, <2>4 DEF Fair
  <1>5. ASSUME Head(in).type = "LocalChat"
        PROVE  Fair(tr, st, p, Tail(in), out, a)
    <2>1. b + d = (IF st = 7 THEN 1 ELSE 0) /\ c + e = (IF st = 10 THEN 1 ELSE 0)
      BY <1>3, <1>5
    <2>2. Asked(st, Tail(in), out)
      BY <2>1 DEF Asked, b, c, d, e
    <2> QED
      BY <2>2 DEF Fair
  <1>6. ASSUME Head(in).type = "MoveStopComplete"
        PROVE  st = 7 /\ Fair(tr, 8, p, Tail(in), out, a)
    <2>1. b + (d + 1) = (IF st = 7 THEN 1 ELSE 0) /\ c + e = (IF st = 10 THEN 1 ELSE 0)
      BY <1>3, <1>6
    <2>2. st = 7 /\ b = 0 /\ b + d = 0 /\ c + e = 0
      BY <1>3, <2>1
    <2>3. Asked(8, Tail(in), out)
      BY <2>2 DEF Asked, b, c, d, e
    <2>4. tr => Those(out, Of("LocalChat")) = 0
      BY <2>2, SteadyQuiet DEF Fair, View
    <2>5. ~Halting(out, p)
      <3>1. Halting(out, p) => Those(out, Of("MoveStop")) > 0
        BY <1>1, HaltingMore DEF View
      <3>2. Those(out, Of("MoveStop")) = 0
        BY <2>2 DEF b
      <3> QED
        BY <3>1, <3>2
    <2>6. tr => Steady(8, p, out, a)
      BY <2>2, <2>4, <2>5 DEF Fair, Steady
    <2> QED
      BY <2>2, <2>3, <2>6 DEF Fair
  <1>7. ASSUME Head(in).type = "ChatComplete"
        PROVE  st = 10 /\ Fair(tr, 11, p, Tail(in), out, a)
    <2>1. c + (e + 1) = (IF st = 10 THEN 1 ELSE 0) /\ b + d = (IF st = 7 THEN 1 ELSE 0)
      BY <1>3, <1>7
    <2>2. st = 10 /\ c = 0 /\ b + d = 0 /\ c + e = 0
      BY <1>3, <2>1
    <2>3. Asked(11, Tail(in), out)
      BY <2>2 DEF Asked, b, c, d, e
    <2>4. tr => Those(out, Of("LocalChat")) = 0
      <3>1. tr => Followed(out)
        BY <2>2 DEF Fair, Steady
      <3>2. Those(out, Of("ChatEnd")) = 0
        BY <2>2 DEF c
      <3> QED
        BY <3>1, <3>2, FollowedLess DEF View
    <2>5. tr => Steady(11, p, out, a)
      BY <2>2, <2>4 DEF Fair, Steady
    <2> QED
      BY <2>2, <2>3, <2>5 DEF Fair
  <1> QED
    BY <1>4, <1>5, <1>6, <1>7

(* What the server does with a session leaves the sums alone.              *)
LEMMA FairAnswered ==
    ASSUME NEW tr, NEW st, NEW p, NEW in, NEW out, NEW a, NEW in2, NEW b,
           View(st, p, in, out, a), Fair(tr, st, p, in, out, a), p = 0 => st \notin {7},
           NEW out2,
           Those(out2, Of("MoveStop")) + Those(in2, Of("MoveStopComplete"))
               = Those(out, Of("MoveStop")) + Those(in, Of("MoveStopComplete")),
           Those(out2, Of("ChatEnd")) + Those(in2, Of("ChatComplete"))
               = Those(out, Of("ChatEnd")) + Those(in, Of("ChatComplete")),
           \/ out2 = out /\ (b = a \/ st \in {0, 1, 3})
           \/ /\ out # <<>> /\ out2 = Tail(out)
              /\ b = IF Head(out).sector # 0 THEN Head(out).sector ELSE a
    PROVE  Fair(tr, st, p, in2, out2, b)
  <1>1. Asked(st, in2, out2)
    BY DEF Fair, Asked
  <1>2. ASSUME tr
        PROVE  Steady(st, p, out2, b)
    <2>1. Steady(st, p, out, a)
      BY <1>2 DEF Fair
    <2>2. CASE out2 = out /\ (b = a \/ st \in {0, 1, 3})
      BY <2>1, <2>2 DEF Steady
    <2>3. CASE /\ out # <<>> /\ out2 = Tail(out)
               /\ b = IF Head(out).sector # 0 THEN Head(out).sector ELSE a
      <3>1. /\ Head(out) \in MsgType
            /\ \A kind : Those(out, kind) = Those(out2, kind) + One(Head(out), kind)
            /\ \A kind : Those(out, kind) \in Nat /\ Those(out2, kind) \in Nat
        BY <2>3, ThoseLess, ThoseFinite DEF View
      <3>2. \A kind : One(Head(out), kind) \in {0, 1}
        BY DEF One
      <3>3. \A kind : Those(out2, kind) <= Those(out, kind)
        <4> SUFFICES ASSUME NEW kind
                     PROVE  Those(out2, kind) <= Those(out, kind)
          OBVIOUS
        <4>1. PICK x, y, z : /\ x = Those(out2, kind) /\ y = Those(out, kind)
                             /\ z = One(Head(out), kind)
          OBVIOUS
        <4>2. x \in Nat /\ y \in Nat /\ z \in {0, 1} /\ y = x + z
          BY <3>1, <3>2, <4>1
        <4> QED
          BY <4>1, <4>2
      <3>4. Settled(p, out, a) => Settled(p, out2, b)
        <4> SUFFICES ASSUME a = p, Those(out, Moving) = 0
                     PROVE  Settled(p, out2, b)
          BY DEF Settled
        <4>1. Those(out2, Moving) = 0 /\ One(Head(out), Moving) = 0
          <5>1. 0 = Those(out2, Moving) + One(Head(out), Moving)
            BY <3>1
          <5>2. Those(out2, Moving) \in Nat /\ One(Head(out), Moving) \in {0, 1}
            BY <3>1, <3>2
          <5> QED
            BY <5>1, <5>2
        <4>2. Head(out).sector = 0
          BY <3>1, <4>1 DEF One, Moving
        <4> QED
          BY <2>3, <4>1, <4>2 DEF Settled
      <3>5. Halting(out, p) /\ p # 0 => Settled(p, out2, b) \/ Halting(out2, p)
        BY <2>3, HaltingLess DEF View, Settled
      <3>6. Followed(out) => Followed(out2)
        BY <2>3, FollowedLess DEF View
      <3>7. /\ Those(out2, Of("LocalChat")) <= 1
            /\ Those(out2, Of("LocalChat")) > 0 => st \in {9, 10}
        <4>1. PICK x, y : x = Those(out2, Of("LocalChat")) /\ y = Those(out, Of("LocalChat"))
          OBVIOUS
        <4>2. x \in Nat /\ y \in Nat /\ x <= y
          BY <3>1, <3>3, <4>1
        <4>3. y <= 1 /\ (y > 0 => st \in {9, 10})
          BY <2>1, <4>1 DEF Steady
        <4> QED
          BY <4>1, <4>2, <4>3
      <3> QED
        BY <2>1, <3>4, <3>5, <3>6, <3>7 DEF Steady
    <2> QED
      BY <2>2, <2>3
  <1> QED
    BY <1>1, <1>2 DEF Fair

(* The round the threads of the test client go through together.            *)
Deed == {"CONNECT", "MOVE", "MOVESTOP", "SENDCHATMSG", "CHECKCHATMSG", "CHECKDISCONNECT"}
NextDeed == [CONNECT |-> "MOVE", MOVE |-> "MOVESTOP", MOVESTOP |-> "SENDCHATMSG",
             SENDCHATMSG |-> "CHECKCHATMSG", CHECKCHATMSG |-> "CHECKDISCONNECT",
             CHECKDISCONNECT |-> "CONNECT"]

RoundTypes ==
    /\ trust \in BOOLEAN /\ action \in Deed
    /\ complete \in [Crew -> {0, 1} \cup Fresh]
    /\ pc \in [Crew -> {"no", "frame", "scan", "change", "reset"}]
    /\ doing \in [Crew -> Deed \cup {"none"}]
    /\ next \in [Crew -> Nat]
    /\ \A t \in Crew : pc[t] \in {"scan", "change", "reset"} => doing[t] \in Deed

HomeOf(s) == Home(pc[Keeper(s)] # "no", dummyStatus[s], place[s], inq[s], outq[s], at[s])
FairOf(s) == Fair(trust, dummyStatus[s], place[s], inq[s], outq[s], at[s])
ViewOf(s) == View(dummyStatus[s], place[s], inq[s], outq[s], at[s])
CastTypes ==
    /\ dummyStatus \in [Everyone -> Condition]
    /\ stringCounter \in [Everyone -> [Text -> Nat]]
    /\ Ways
DummyBase == RoundTypes /\ CastTypes /\ \A s \in Everyone : HomeOf(s)

Those4(t, X) == {s \in Everyone : Keeper(s) = t /\ dummyStatus[s] \in X}
Completing(t) ==
    /\ complete' = [complete EXCEPT ![t] = 1]
    /\ doing' = [doing EXCEPT ![t] = action]
    /\ pc' = [pc EXCEPT ![t] = "scan"]
    /\ next' = next
Staying == UNCHANGED <<complete, pc, doing, next>>

(* DummyClient in the words of this module.                                 *)
LEMMA DummyNames ==
    ASSUME ProgramsAssumption
    PROVE  /\ D!After = NextDeed
           /\ \A t \in Crew : \A X : D!With(t, X) = Those4(t, X)
           /\ D!Idle = 0 /\ D!Created = 1 /\ D!Connecting = 3 /\ D!Connected = 4
           /\ D!SendingMove = 6 /\ D!WaitingMoveEnd = 7 /\ D!RecvdMoveEnd = 8
           /\ D!SendingChat = 9 /\ D!WaitingChatEnd = 10 /\ D!RecvdChatComplete = 11
           /\ D!Online = 4 .. 11 /\ D!Ready = {4, 8, 11}
           /\ \A t : D!Complete(t) => Completing(t)
           /\ D!Going => Staying
           /\ \A S, st : D!Status(S, st) =>
                 dummyStatus' = [s \in Everyone |-> IF s \in S THEN st ELSE dummyStatus[s]]
           /\ \A t : D!Running(t) <=> pc[t] = "frame"
           /\ \A S : D!Cardinality(S) = Cardinality(S)
           /\ D!Nothing = [text \in Text |-> 0]
  <1>1. D!Session = Everyone
    BY DummyWay
  <1>2. \A t \in Crew : \A X : D!With(t, X) = Those4(t, X)
    BY CrewsAre DEF D!With, Those4
  <1>3. /\ D!Idle = 0 /\ D!Created = 1 /\ D!Connecting = 3 /\ D!Connected = 4
        /\ D!SendingMove = 6 /\ D!WaitingMoveEnd = 7 /\ D!RecvdMoveEnd = 8
        /\ D!SendingChat = 9 /\ D!WaitingChatEnd = 10 /\ D!RecvdChatComplete = 11
        /\ D!Online = 4 .. 11 /\ D!Ready = {4, 8, 11}
    BY DEF D!Idle, D!Created, D!Connecting, D!Connected, D!SendingMove, D!WaitingMoveEnd,
           D!RecvdMoveEnd, D!SendingChat, D!WaitingChatEnd, D!RecvdChatComplete, D!Online,
           D!Ready
  <1>4. /\ \A t : D!Complete(t) => Completing(t)
        /\ D!Going => Staying
    BY DEF D!Complete, D!Goto, D!Going, Completing, Staying
  <1>5. \A S, st : D!Status(S, st) =>
           dummyStatus' = [s \in Everyone |-> IF s \in S THEN st ELSE dummyStatus[s]]
    BY <1>1 DEF D!Status
  <1> QED
    BY <1>2, <1>3, <1>4, <1>5
    DEF D!After, NextDeed, D!Running, D!Cardinality, Cardinality, D!Nothing

LEMMA DummySends ==
    /\ \A S, p : D!Sent(S, LAMBDA s : <<D!Placed("MoveStart", p[s])>>) =>
          (Ways => Sending(S, [s \in Everyone |-> Placing("MoveStart", p[s])]))
    /\ \A S, p :
          D!Sent(S, LAMBDA s : <<D!Placed("MoveStop", p[s]), D!Msg("HeartBeat")>>) =>
          (Ways => SendingTwo(S, [s \in Everyone |-> Placing("MoveStop", p[s])],
                                 [s \in Everyone |-> Plain("HeartBeat")]))
    /\ \A S, E, said :
          D!Sent(S \cup E, LAMBDA s : <<IF s \in S THEN D!Saying("LocalChat", said[s])
                                                   ELSE D!Msg("ChatEnd")>>) =>
          (Ways => Sending(S \cup E,
                           [s \in Everyone |-> IF s \in S THEN Speech("LocalChat", said[s])
                                                          ELSE Plain("ChatEnd")]))
    /\ \A S, text : D!Sent(S, LAMBDA s : <<D!Saying("LocalChat", text)>>) =>
          (Ways => Sending(S, [s \in Everyone |-> Speech("LocalChat", text)]))
    /\ \A S : D!Sent(S, LAMBDA s : <<D!Msg("ChatEnd"), D!Msg("HeartBeat")>>) =>
          (Ways => SendingTwo(S, [s \in Everyone |-> Plain("ChatEnd")],
                                 [s \in Everyone |-> Plain("HeartBeat")]))
  <1>1. ASSUME Ways
        PROVE  \A s \in Everyone : \A m : outq[s] \o <<m>> = Append(outq[s], m)
    BY <1>1 DEF Ways
  <1>2. ASSUME Ways
        PROVE  \A s \in Everyone : \A m, n :
                  outq[s] \o <<m, n>> = Append(Append(outq[s], m), n)
    BY <1>2 DEF Ways
  <1>3. D!Session = Everyone
    BY DummyWay
  <1>4. ASSUME NEW S, NEW p, D!Sent(S, LAMBDA s : <<D!Placed("MoveStart", p[s])>>), Ways
        PROVE  Sending(S, [s \in Everyone |-> Placing("MoveStart", p[s])])
    BY <1>1, <1>3, <1>4, DummyWay DEF D!Sent, Sending
  <1>5. ASSUME NEW S, NEW p, Ways,
               D!Sent(S, LAMBDA s : <<D!Placed("MoveStop", p[s]), D!Msg("HeartBeat")>>)
        PROVE  SendingTwo(S, [s \in Everyone |-> Placing("MoveStop", p[s])],
                             [s \in Everyone |-> Plain("HeartBeat")])
    <2>1. outq' = [s \in Everyone |->
                      IF s \in S THEN outq[s] \o <<Placing("MoveStop", p[s]), Plain("HeartBeat")>>
                                 ELSE outq[s]]
      BY <1>3, <1>5, DummyWay DEF D!Sent
    <2>2. Ways
      BY <1>5
    <2>3. \A s \in Everyone :
             outq[s] \o <<Placing("MoveStop", p[s]), Plain("HeartBeat")>>
                = Append(Append(outq[s], Placing("MoveStop", p[s])), Plain("HeartBeat"))
      <3>1. \A q \in Seq(MsgType) : \A m, n : q \o <<m, n>> = Append(Append(q, m), n)
        OBVIOUS
      <3>2. \A s \in Everyone : outq[s] \in Seq(MsgType)
        BY <2>2 DEF Ways
      <3> QED
        BY <3>1, <3>2
    <2> QED
      BY <2>1, <2>3 DEF SendingTwo
  <1>6. ASSUME NEW S, NEW E, NEW said, Ways,
               D!Sent(S \cup E, LAMBDA s : <<IF s \in S THEN D!Saying("LocalChat", said[s])
                                                   ELSE D!Msg("ChatEnd")>>)
        PROVE  Sending(S \cup E,
                       [s \in Everyone |-> IF s \in S THEN Speech("LocalChat", said[s])
                                                      ELSE Plain("ChatEnd")])
    BY <1>1, <1>3, <1>6, DummyWay, ZenonT(40) DEF D!Sent, Sending
  <1>7. ASSUME NEW S, NEW text, Ways, D!Sent(S, LAMBDA s : <<D!Saying("LocalChat", text)>>)
        PROVE  Sending(S, [s \in Everyone |-> Speech("LocalChat", text)])
    BY <1>1, <1>3, <1>7, DummyWay DEF D!Sent, Sending
  <1>8. ASSUME NEW S, Ways, D!Sent(S, LAMBDA s : <<D!Msg("ChatEnd"), D!Msg("HeartBeat")>>)
        PROVE  SendingTwo(S, [s \in Everyone |-> Plain("ChatEnd")],
                             [s \in Everyone |-> Plain("HeartBeat")])
    <2>1. outq' = [s \in Everyone |->
                      IF s \in S THEN outq[s] \o <<Plain("ChatEnd"), Plain("HeartBeat")>>
                                 ELSE outq[s]]
      BY <1>3, <1>8, DummyWay DEF D!Sent
    <2>2. Ways
      BY <1>8
    <2>3. \A s \in Everyone :
             outq[s] \o <<Plain("ChatEnd"), Plain("HeartBeat")>>
                = Append(Append(outq[s], Plain("ChatEnd")), Plain("HeartBeat"))
      <3> DEFINE a == Plain("ChatEnd")
                 b == Plain("HeartBeat")
      <3> SUFFICES ASSUME NEW s \in Everyone
                   PROVE  outq[s] \o <<a, b>> = Append(Append(outq[s], a), b)
        OBVIOUS
      <3> HIDE DEF a, b
      <3>1. outq[s] \in Seq(MsgType)
        BY <2>2 DEF Ways
      <3> QED
        BY <3>1
    <2> QED
      BY <2>1, <2>3 DEF SendingTwo
  <1> QED
    BY <1>4, <1>5, <1>6, <1>7, <1>8

-----------------------------------------------------------------------------
(* At first no thread runs, and nobody is connected.                        *)
LEMMA DummyStart ==
    ASSUME ProgramsAssumption, D!DummyInit
    PROVE  DummyBase /\ \A s \in Everyone : FairOf(s)
  <1>1. /\ place = [s \in Everyone |-> 0] /\ inq = [s \in Everyone |-> <<>>]
        /\ outq = [s \in Everyone |-> <<>>] /\ at = [s \in Everyone |-> 0]
        /\ trust \in BOOLEAN /\ action = "CONNECT" /\ complete \in [Crew -> Fresh]
        /\ pc = [t \in Crew |-> "no"] /\ doing = [t \in Crew |-> "none"]
        /\ next = [t \in Crew |-> 1] /\ dummyStatus = [s \in Everyone |-> 0]
        /\ stringCounter = [s \in Everyone |-> [text \in Text |-> 0]]
    BY DummyWay, CrewsAre, DummyNames DEF D!DummyInit
  <1>2. /\ MAX_SECTOR \in Nat /\ MaxOnWay \in Nat /\ <<>> \in Seq(MsgType) /\ Len(<<>>) = 0
        /\ \A s \in Everyone : Keeper(s) \in Crew
    BY CrewFacts DEF ProgramsAssumption
  <1>3. RoundTypes
    BY <1>1 DEF RoundTypes, Deed
  <1>4. CastTypes
    BY <1>1, <1>2 DEF CastTypes, Ways, Condition
  <1>5. \A s \in Everyone : HomeOf(s)
    BY <1>1, <1>2, EmptyWay DEF HomeOf, Home
  <1>6. \A s \in Everyone : FairOf(s)
    BY <1>1, <1>2, EmptyWay DEF FairOf, Fair, Asked, Steady
  <1> QED
    BY <1>3, <1>4, <1>5, <1>6 DEF DummyBase

(* The thread goes on with its action, or has completed it.                *)
LEMMA RoundSteps ==
    ASSUME ProgramsAssumption, RoundTypes, NEW t \in Crew, pc[t] = "frame",
           trust' = trust, action' = action, Completing(t) \/ Staying
    PROVE  /\ RoundTypes'
           /\ \A u \in Crew : pc'[u] # "no" <=> pc[u] # "no"
           /\ \A s \in Everyone : pc'[Keeper(s)] # "no" <=> pc[Keeper(s)] # "no"
  <1>1. CASE Staying
    BY <1>1, CrewFacts DEF Staying, RoundTypes
  <1>2. CASE Completing(t)
    <2>1. /\ complete' \in [Crew -> {0, 1} \cup Fresh]
          /\ doing' \in [Crew -> Deed \cup {"none"}]
          /\ pc' \in [Crew -> {"no", "frame", "scan", "change", "reset"}]
          /\ next' \in [Crew -> Nat]
      BY <1>2 DEF Completing, RoundTypes
    <2>2. /\ doing'[t] \in Deed /\ pc'[t] = "scan"
          /\ \A u \in Crew : u # t => pc'[u] = pc[u] /\ doing'[u] = doing[u]
      BY <1>2 DEF Completing, RoundTypes
    <2>3. \A u \in Crew : pc'[u] # "no" <=> pc[u] # "no"
      BY <2>2
    <2>4. RoundTypes'
      BY <2>1, <2>2 DEF RoundTypes
    <2> QED
      BY <2>3, <2>4, CrewFacts
  <1> QED
    BY <1>1, <1>2

(* Home depends on pc only in whether the thread has begun.                 *)
LEMMA HomeOpen ==
    ASSUME NEW s, pc[Keeper(s)] # "no"
    PROVE  HomeOf(s) <=> Home(TRUE, dummyStatus[s], place[s], inq[s], outq[s], at[s])
  BY DEF HomeOf, Home

LEMMA HomeOpenNext ==
    ASSUME NEW s, pc'[Keeper(s)] # "no"
    PROVE  HomeOf(s)' <=> Home(TRUE, dummyStatus'[s], place'[s], inq'[s], outq'[s], at'[s])
  BY DEF HomeOf, Home

(* A session that stays as it is.                                          *)
LEMMA SessionStays ==
    ASSUME NEW s, pc'[Keeper(s)] # "no" <=> pc[Keeper(s)] # "no", trust' = trust,
           dummyStatus'[s] = dummyStatus[s], place'[s] = place[s], inq'[s] = inq[s],
           outq'[s] = outq[s], at'[s] = at[s]
    PROVE  /\ HomeOf(s) => HomeOf(s)'
           /\ FairOf(s) => FairOf(s)'
  <1>1. HomeOf(s) => HomeOf(s)'
    BY DEF HomeOf, Home
  <1> QED
    BY <1>1 DEF FairOf

(* The turns of a thread, one by one.                                       *)
LEMMA DummyConnects ==
    ASSUME ProgramsAssumption, DummyBase, NEW t \in Crew, D!HandleConnectAction(t)
    PROVE  /\ DummyBase'
           /\ \A s \in Everyone : FairOf(s) => FairOf(s)'
  <1> DEFINE S == Those4(t, {1})
  <1>1. /\ pc[t] = "frame" /\ trust' = trust /\ action' = action /\ at' = at
        /\ UNCHANGED <<place, stringCounter, inq, outq>>
        /\ dummyStatus' = [s \in Everyone |-> IF s \in S THEN 3 ELSE dummyStatus[s]]
        /\ Completing(t) \/ Staying
    <2>1. /\ pc[t] = "frame" /\ trust' = trust /\ action' = action /\ at' = at
          /\ UNCHANGED <<place, stringCounter, inq, outq>>
      BY DummyNames DEF D!HandleConnectAction, D!Works
    <2>2. D!Status(S, 3)
      <3>1. /\ D!Status(D!With(t, {D!Created}), D!Connecting)
            /\ D!Created = 1 /\ D!Connecting = 3 /\ D!With(t, {1}) = S
        BY DummyNames DEF D!HandleConnectAction
      <3> QED
        BY <3>1
    <2>3. dummyStatus' = [s \in Everyone |-> IF s \in S THEN 3 ELSE dummyStatus[s]]
      <3> HIDE DEF S
      <3> QED
        BY <2>2, DummyNames
    <2>4. D!Complete(t) \/ D!Going
      BY Zenon DEF D!HandleConnectAction
    <2>5. Completing(t) \/ Staying
      BY <2>4, DummyNames
    <2> QED
      BY <2>1, <2>3, <2>5
  <1>2. RoundTypes /\ CastTypes /\ \A s \in Everyone : HomeOf(s) /\ ViewOf(s)
    BY DEF DummyBase, CastTypes, Ways, ViewOf, View
  <1>3. /\ RoundTypes'
        /\ \A s \in Everyone : pc'[Keeper(s)] # "no" <=> pc[Keeper(s)] # "no"
    BY <1>1, <1>2, RoundSteps
  <1>4. CastTypes'
    BY <1>1, <1>2 DEF CastTypes, Ways, Condition
  <1>5. \A s \in Everyone : /\ s \in S => Keeper(s) = t /\ dummyStatus[s] = 1
                            /\ dummyStatus'[s] = IF s \in S THEN 3 ELSE dummyStatus[s]
    BY <1>1 DEF Those4
  <1> HIDE DEF S
  <1>6. ASSUME NEW s \in Everyone
        PROVE  HomeOf(s)' /\ (FairOf(s) => FairOf(s)')
    <2>1. CASE s \in S
      <3>1. pc[Keeper(s)] # "no" /\ pc'[Keeper(s)] # "no" /\ dummyStatus[s] = 1
            /\ dummyStatus'[s] = 3
        BY <1>1, <1>3, <1>5, <2>1
      <3>2. Home(TRUE, 3, place[s], inq[s], outq[s], at[s])
        <4>1. Home(TRUE, 1, place[s], inq[s], outq[s], at[s])
          BY <1>2, <3>1, HomeOpen
        <4>2. 1 \in Condition /\ 1 < 3
          BY DEF Condition
        <4> QED
          BY <4>1, <4>2, HomeBegins
      <3>3. HomeOf(s)'
        BY <1>1, <3>1, <3>2, HomeOpenNext
      <3>4. FairOf(s) => Fair(trust, 3, place[s], inq[s], outq[s], at[s])
        BY <1>2, <3>1, FairTurns DEF FairOf, ViewOf
      <3> QED
        BY <1>1, <3>1, <3>3, <3>4 DEF FairOf
    <2>2. CASE s \notin S
      BY <1>1, <1>2, <1>3, <1>5, <2>2, SessionStays
    <2> QED
      BY <2>1, <2>2
  <1> QED
    BY <1>3, <1>4, <1>6 DEF DummyBase

(* What the sessions of a thread send.                                      *)
LEMMA SessionSends ==
    ASSUME NEW s, HomeOf(s), pc[Keeper(s)] # "no", pc'[Keeper(s)] # "no",
           dummyStatus[s] \in Condition, dummyStatus'[s] \in Condition,
           dummyStatus[s] > 3, dummyStatus'[s] > 3, place'[s] # 0,
           inq'[s] = inq[s], at'[s] = at[s]
    PROVE  HomeOf(s)'
  <1>1. Home(TRUE, dummyStatus[s], place[s], inq[s], outq[s], at[s])
    BY HomeOpen
  <1>2. PICK st, st2, p, p2, in, out, out2, a :
           /\ st = dummyStatus[s] /\ st2 = dummyStatus'[s] /\ p = place[s] /\ p2 = place'[s]
           /\ in = inq[s] /\ out = outq[s] /\ out2 = outq'[s] /\ a = at[s]
    OBVIOUS
  <1>3. Home(TRUE, st2, p2, in, out2, a)
    BY <1>1, <1>2, HomeSends
  <1> QED
    BY <1>2, <1>3, HomeOpenNext

LEMMA Online ==
    ASSUME NEW s, HomeOf(s), dummyStatus[s] \in Condition, dummyStatus[s] > 3
    PROVE  pc[Keeper(s)] # "no" /\ at[s] # 0 /\ place[s] # 0
  BY DEF HomeOf, Home, Condition

LEMMA DummyMovesAre ==
    ASSUME ProgramsAssumption, CastTypes, NEW t \in Crew, NEW p, p \in D!Moves(t)
    PROVE  /\ p \in [Everyone -> 0 .. MAX_SECTOR]
           /\ \A s \in Everyone :
                 IF Keeper(s) = t /\ dummyStatus[s] = 6 THEN p[s] \in 1 .. MAX_SECTOR
                                                        ELSE p[s] = place[s]
  <1>1. D!Session = Everyone /\ D!Mine(t) = {s \in Everyone : Keeper(s) = t}
        /\ D!SendingMove = 6 /\ \A x : D!Around(x) \subseteq 1 .. MAX_SECTOR
    BY DummyWay, CrewsAre, DummyNames DEF Beside
  <1> QED
    BY <1>1 DEF D!Moves

LEMMA DummyMoves ==
    ASSUME ProgramsAssumption, DummyBase, NEW t \in Crew, D!HandleMoveAction(t)
    PROVE  /\ DummyBase'
           /\ \A s \in Everyone : FairOf(s) => FairOf(s)'
           /\ stringCounter' = stringCounter /\ inq' = inq /\ at' = at
           /\ \A s \in Everyone : \A text :
                 Those(outq'[s], Said(text)) = Those(outq[s], Said(text))
           /\ dummyStatus' = [s \in Everyone |-> IF s \in Those4(t, {4}) THEN 6 ELSE dummyStatus[s]]
  <1> DEFINE S == Those4(t, {4})
  <1>1. S = D!With(t, {D!Connected})
    BY DummyNames
  <1>2. PICK p : p \in D!Moves(t) /\ place' = p /\ D!SendMoveStart(S, p)
    <2> HIDE DEF S
    <2> QED
      BY <1>1, Zenon DEF D!HandleMoveAction
  <1>3. /\ pc[t] = "frame" /\ trust' = trust /\ action' = action /\ at' = at
        /\ stringCounter' = stringCounter /\ inq' = inq
        /\ Completing(t) \/ Staying
    BY <1>2, DummyNames DEF D!HandleMoveAction, D!Works, D!SendMoveStart
  <1>4. dummyStatus' = [s \in Everyone |-> IF s \in S THEN 6 ELSE dummyStatus[s]]
    <2>1. D!Status(S, D!SendingMove)
      BY <1>2, Zenon DEF D!SendMoveStart
    <2> QED
      BY <2>1, DummyNames
  <1>5. /\ RoundTypes /\ CastTypes /\ Ways /\ MAX_SECTOR \in Nat
        /\ \A s \in Everyone : HomeOf(s) /\ ViewOf(s) /\ dummyStatus[s] \in Condition
    BY DEF DummyBase, CastTypes, Ways, ViewOf, View, ProgramsAssumption
  <1>6. /\ place' \in [Everyone -> 0 .. MAX_SECTOR]
        /\ \A s \in Everyone :
              IF Keeper(s) = t /\ dummyStatus[s] = 6 THEN place'[s] \in 1 .. MAX_SECTOR
                                                     ELSE place'[s] = place[s]
    BY <1>2, <1>5, DummyMovesAre
  <1> DEFINE m == [s \in Everyone |-> Placing("MoveStart", p[s])]
  <1>7. Sending(S, m)
    <2>1. D!Sent(S, LAMBDA s : <<D!Placed("MoveStart", p[s])>>)
      BY <1>2 DEF D!SendMoveStart
    <2> QED
      BY <1>5, <2>1, DummySends
  <1>8. \A s \in Everyone : m[s] \in MsgType /\ m[s].type = "MoveStart"
    BY <1>2, <1>5, <1>6, MessageTypes DEF Placing
  <1>9. \A s \in Everyone : s \in S => Keeper(s) = t /\ dummyStatus[s] = 4
    BY DEF Those4
  <1> HIDE DEF S, m
  <1>10. /\ outq' \in [Everyone -> Seq(MsgType)]
         /\ \A s \in Everyone : outq'[s] = IF s \in S THEN Append(outq[s], m[s]) ELSE outq[s]
    BY <1>5, <1>7, <1>8, SentMessage
  <1>11. /\ RoundTypes'
         /\ \A s \in Everyone : pc'[Keeper(s)] # "no" <=> pc[Keeper(s)] # "no"
    BY <1>3, <1>5, RoundSteps
  <1>12. CastTypes' /\ \A s \in Everyone : dummyStatus'[s] \in Condition
    BY <1>3, <1>4, <1>5, <1>6, <1>10 DEF CastTypes, Ways, Condition
  <1>13. ASSUME NEW s \in Everyone
         PROVE  HomeOf(s)' /\ (FairOf(s) => FairOf(s)')
    <2>1. /\ HomeOf(s) /\ ViewOf(s) /\ dummyStatus[s] \in Condition /\ inq'[s] = inq[s]
          /\ at'[s] = at[s] /\ dummyStatus'[s] \in Condition
          /\ pc'[Keeper(s)] # "no" <=> pc[Keeper(s)] # "no"
          /\ dummyStatus'[s] = IF s \in S THEN 6 ELSE dummyStatus[s]
      BY <1>3, <1>4, <1>5, <1>11, <1>12
    <2>2. CASE s \in S
      <3>1. dummyStatus[s] = 4 /\ dummyStatus'[s] = 6 /\ place'[s] = place[s]
        BY <1>6, <1>9, <2>1, <2>2
      <3>2. HomeOf(s)'
        BY <2>1, <3>1, Online, SessionSends
      <3>3. FairOf(s) => Fair(trust, 6, place[s], inq[s], outq'[s], at[s])
        <4>1. outq'[s] = Append(outq[s], m[s])
          BY <1>10, <2>2
        <4> QED
          BY <1>8, <2>1, <3>1, <4>1, FairMoves DEF FairOf, ViewOf
      <3> QED
        BY <1>3, <2>1, <3>1, <3>2, <3>3 DEF FairOf
    <2>3. CASE s \notin S /\ Keeper(s) = t /\ dummyStatus[s] = 6
      <3>1. dummyStatus'[s] = 6 /\ place'[s] # 0 /\ outq'[s] = outq[s]
        <4>1. dummyStatus'[s] = 6 /\ outq'[s] = outq[s]
          BY <1>10, <2>1, <2>3
        <4>2. place'[s] \in 1 .. MAX_SECTOR
          BY <1>6, <2>3
        <4> QED
          BY <1>5, <4>1, <4>2
      <3>2. HomeOf(s)'
        BY <2>1, <2>3, <3>1, Online, SessionSends
      <3>3. FairOf(s) => Fair(trust, 6, place'[s], inq[s], outq[s], at[s])
        BY <2>1, <2>3, FairTurns DEF FairOf, ViewOf
      <3> QED
        BY <1>3, <2>1, <3>1, <3>2, <3>3 DEF FairOf
    <2>4. CASE s \notin S /\ ~(Keeper(s) = t /\ dummyStatus[s] = 6)
      <3>1. place'[s] = place[s] /\ outq'[s] = outq[s] /\ dummyStatus'[s] = dummyStatus[s]
        BY <1>6, <1>10, <2>1, <2>4
      <3> QED
        BY <1>3, <2>1, <3>1, SessionStays
    <2> QED
      BY <2>2, <2>3, <2>4
  <1>14. ASSUME NEW s \in Everyone, NEW text
         PROVE  Those(outq'[s], Said(text)) = Those(outq[s], Said(text))
    <2>1. outq[s] \in Seq(MsgType)
      BY <1>5 DEF Ways
    <2>2. Those(Append(outq[s], m[s]), Said(text)) = Those(outq[s], Said(text)) + 0
      <3>1. m[s] \in MsgType /\ m[s].type # "LocalChat"
        BY <1>8
      <3>2. One(m[s], Said(text)) = 0
        BY <3>1 DEF One, Said
      <3> QED
        BY <2>1, <3>1, <3>2, ThoseMore
    <2>3. Those(outq[s], Said(text)) \in Nat
      BY <2>1, ThoseFinite
    <2>4. Those(Append(outq[s], m[s]), Said(text)) = Those(outq[s], Said(text))
      BY <2>2, <2>3
    <2>5. outq'[s] = outq[s] \/ outq'[s] = Append(outq[s], m[s])
      BY <1>10
    <2> QED
      BY <2>4, <2>5
  <1> QED
    BY <1>3, <1>4, <1>11, <1>12, <1>13, <1>14 DEF DummyBase, S

(* No text is on the way in a message that is not chat.                     *)
LEMMA NothingSaid ==
    ASSUME NEW q \in Seq(MsgType), NEW m \in MsgType, m.type # "LocalChat"
    PROVE  \A text : Those(Append(q, m), Said(text)) = Those(q, Said(text))
  <1> SUFFICES ASSUME NEW text
               PROVE  Those(Append(q, m), Said(text)) = Those(q, Said(text))
    OBVIOUS
  <1>1. One(m, Said(text)) = 0
    BY DEF One, Said
  <1>2. Those(Append(q, m), Said(text)) = Those(q, Said(text)) + 0
    BY <1>1, ThoseMore
  <1>3. Those(q, Said(text)) \in Nat
    BY ThoseFinite
  <1> QED
    BY <1>2, <1>3

LEMMA TwoSent ==
    ASSUME Ways, NEW S, NEW m, NEW n,
           \A s \in Everyone : s \in S => m[s] \in MsgType /\ n[s] \in MsgType,
           SendingTwo(S, m, n)
    PROVE  /\ outq' \in [Everyone -> Seq(MsgType)]
           /\ \A r \in Everyone : outq'[r] = IF r \in S THEN Append(Append(outq[r], m[r]), n[r])
                                                     ELSE outq[r]
  <1>1. \A r \in Everyone : outq'[r] = IF r \in S THEN Append(Append(outq[r], m[r]), n[r])
                                                   ELSE outq[r]
    BY DEF SendingTwo
  <1>2. \A r \in Everyone :
           /\ outq[r] \in Seq(MsgType)
           /\ r \in S => Append(Append(outq[r], m[r]), n[r]) \in Seq(MsgType)
    BY Joined DEF Ways
  <1>3. outq' \in [Everyone -> Seq(MsgType)]
    <2>1. \A r \in Everyone : (IF r \in S THEN Append(Append(outq[r], m[r]), n[r])
                                            ELSE outq[r]) \in Seq(MsgType)
      <3> SUFFICES ASSUME NEW r \in Everyone
                   PROVE  (IF r \in S THEN Append(Append(outq[r], m[r]), n[r])
                                      ELSE outq[r]) \in Seq(MsgType)
        OBVIOUS
      <3>1. outq[r] \in Seq(MsgType)
        BY <1>2
      <3>2. r \in S => Append(Append(outq[r], m[r]), n[r]) \in Seq(MsgType)
        BY <1>2
      <3> QED
        BY <3>1, <3>2, Zenon
    <2> QED
      BY <2>1 DEF SendingTwo
  <1> QED
    BY <1>1, <1>3

LEMMA DummyStops ==
    ASSUME ProgramsAssumption, DummyBase, NEW t \in Crew, D!HandleMoveStopAction(t)
    PROVE  /\ DummyBase'
           /\ \A s \in Everyone : FairOf(s) => FairOf(s)'
           /\ stringCounter' = stringCounter /\ inq' = inq /\ at' = at
           /\ \A s \in Everyone : \A text :
                 Those(outq'[s], Said(text)) = Those(outq[s], Said(text))
           /\ dummyStatus' = [s \in Everyone |-> IF s \in Those4(t, {6}) THEN 7 ELSE dummyStatus[s]]
  <1> DEFINE S == Those4(t, {6})
  <1>1. S = D!With(t, {D!SendingMove})
    BY DummyNames
  <1>2. PICK p : p \in D!Moves(t) /\ place' = p /\ D!SendMoveStop(S, p)
    <2> HIDE DEF S
    <2> QED
      BY <1>1, Zenon DEF D!HandleMoveStopAction
  <1>3. /\ pc[t] = "frame" /\ trust' = trust /\ action' = action /\ at' = at
        /\ stringCounter' = stringCounter /\ inq' = inq
        /\ Completing(t) \/ Staying
    BY <1>2, DummyNames DEF D!HandleMoveStopAction, D!Works, D!SendMoveStop
  <1>4. dummyStatus' = [s \in Everyone |-> IF s \in S THEN 7 ELSE dummyStatus[s]]
    <2>1. D!Status(S, D!WaitingMoveEnd)
      BY <1>2, Zenon DEF D!SendMoveStop
    <2> QED
      BY <2>1, DummyNames
  <1>5. /\ RoundTypes /\ CastTypes /\ Ways /\ MAX_SECTOR \in Nat
        /\ \A s \in Everyone : HomeOf(s) /\ ViewOf(s) /\ dummyStatus[s] \in Condition
    BY DEF DummyBase, CastTypes, Ways, ViewOf, View, ProgramsAssumption
  <1>6. /\ place' \in [Everyone -> 0 .. MAX_SECTOR]
        /\ \A s \in Everyone :
              IF Keeper(s) = t /\ dummyStatus[s] = 6 THEN place'[s] \in 1 .. MAX_SECTOR
                                                     ELSE place'[s] = place[s]
    BY <1>2, <1>5, DummyMovesAre
  <1> DEFINE m == [s \in Everyone |-> Placing("MoveStop", p[s])]
             n == [s \in Everyone |-> Plain("HeartBeat")]
  <1>7. SendingTwo(S, m, n)
    <2>1. D!Sent(S, LAMBDA s : <<D!Placed("MoveStop", p[s]), D!Msg("HeartBeat")>>)
      BY <1>2 DEF D!SendMoveStop
    <2> QED
      BY <1>5, <2>1, DummySends
  <1>8. \A s \in Everyone : /\ m[s] \in MsgType /\ m[s].type = "MoveStop"
                            /\ m[s].sector = place'[s]
                            /\ n[s] \in MsgType /\ n[s].type = "HeartBeat" /\ n[s].sector = 0
    BY <1>2, <1>5, <1>6, MessageTypes DEF Placing, Plain
  <1>9. \A s \in Everyone : s \in S <=> Keeper(s) = t /\ dummyStatus[s] = 6
    BY DEF Those4
  <1> HIDE DEF S, m, n
  <1>10. /\ outq' \in [Everyone -> Seq(MsgType)]
         /\ \A s \in Everyone : outq'[s] = IF s \in S THEN Append(Append(outq[s], m[s]), n[s])
                                                      ELSE outq[s]
    <2>1. \A s \in Everyone : s \in S => m[s] \in MsgType /\ n[s] \in MsgType
      BY <1>8
    <2>2. Ways
      BY <1>5
    <2>3. /\ outq' \in [Everyone -> Seq(MsgType)]
          /\ \A r \in Everyone : outq'[r] = IF r \in S THEN Append(Append(outq[r], m[r]), n[r])
                                                     ELSE outq[r]
      BY <1>7, <2>1, <2>2, TwoSent
    <2> QED
      BY <2>3
  <1>11. /\ RoundTypes'
         /\ \A s \in Everyone : pc'[Keeper(s)] # "no" <=> pc[Keeper(s)] # "no"
    BY <1>3, <1>5, RoundSteps
  <1>12. CastTypes' /\ \A s \in Everyone : dummyStatus'[s] \in Condition
    BY <1>3, <1>4, <1>5, <1>6, <1>10 DEF CastTypes, Ways, Condition
  <1>13. ASSUME NEW s \in Everyone
         PROVE  HomeOf(s)' /\ (FairOf(s) => FairOf(s)')
    <2>1. /\ HomeOf(s) /\ ViewOf(s) /\ dummyStatus[s] \in Condition /\ inq'[s] = inq[s]
          /\ at'[s] = at[s] /\ dummyStatus'[s] \in Condition
          /\ pc'[Keeper(s)] # "no" <=> pc[Keeper(s)] # "no"
          /\ dummyStatus'[s] = IF s \in S THEN 7 ELSE dummyStatus[s]
      BY <1>3, <1>4, <1>5, <1>11, <1>12
    <2>2. CASE s \in S
      <3>1. dummyStatus[s] = 6 /\ dummyStatus'[s] = 7 /\ place'[s] # 0
        BY <1>6, <1>9, <2>1, <2>2
      <3>2. HomeOf(s)'
        BY <2>1, <3>1, Online, SessionSends
      <3>3. FairOf(s) => Fair(trust, 7, place'[s], inq[s], outq'[s], at[s])
        <4>1. outq'[s] = Append(Append(outq[s], m[s]), n[s])
          BY <1>10, <2>2
        <4>2. /\ View(6, place[s], inq[s], outq[s], at[s])
              /\ FairOf(s) => Fair(trust, 6, place[s], inq[s], outq[s], at[s])
          BY <2>1, <3>1 DEF FairOf, ViewOf
        <4>3. /\ m[s] \in MsgType /\ m[s].type = "MoveStop" /\ m[s].sector = place'[s]
              /\ n[s] \in MsgType /\ n[s].type = "HeartBeat" /\ n[s].sector = 0
          BY <1>8
        <4> QED
          BY <4>1, <4>2, <4>3, FairStops
      <3> QED
        BY <1>3, <2>1, <3>1, <3>2, <3>3 DEF FairOf
    <2>3. CASE s \notin S
      <3>1. place'[s] = place[s] /\ outq'[s] = outq[s] /\ dummyStatus'[s] = dummyStatus[s]
        BY <1>6, <1>9, <1>10, <2>1, <2>3
      <3> QED
        BY <1>3, <2>1, <3>1, SessionStays
    <2> QED
      BY <2>2, <2>3
  <1>14. ASSUME NEW s \in Everyone, NEW text
         PROVE  Those(outq'[s], Said(text)) = Those(outq[s], Said(text))
    <2>1. outq[s] \in Seq(MsgType) /\ Append(outq[s], m[s]) \in Seq(MsgType)
      BY <1>5, <1>8 DEF Ways
    <2>2. Those(Append(outq[s], m[s]), Said(text)) = Those(outq[s], Said(text))
      BY <1>8, <2>1, NothingSaid
    <2>3. Those(Append(Append(outq[s], m[s]), n[s]), Said(text))
            = Those(Append(outq[s], m[s]), Said(text))
      BY <1>8, <2>1, NothingSaid
    <2>4. outq'[s] = outq[s] \/ outq'[s] = Append(Append(outq[s], m[s]), n[s])
      BY <1>10
    <2> QED
      BY <2>2, <2>3, <2>4
  <1> QED
    BY <1>3, <1>4, <1>11, <1>12, <1>13, <1>14 DEF DummyBase, S

LEMMA DummyChecks ==
    ASSUME ProgramsAssumption, DummyBase, NEW t \in Crew, D!HandleCheckMsgAction(t)
    PROVE  /\ DummyBase'
           /\ (\A s \in Everyone : Keeper(s) = t => dummyStatus[s] = 11) =>
                 \A s \in Everyone : FairOf(s) => FairOf(s)'
           /\ dummyStatus' = [s \in Everyone |-> IF s \in Those4(t, 4 .. 11) THEN 4
                                                                        ELSE dummyStatus[s]]
           /\ UNCHANGED <<stringCounter, inq, outq, at>>
  <1> DEFINE S == Those4(t, 4 .. 11)
  <1>1. /\ pc[t] = "frame" /\ trust' = trust /\ action' = action /\ at' = at
        /\ UNCHANGED <<place, stringCounter, inq, outq>>
        /\ dummyStatus' = [s \in Everyone |-> IF s \in S THEN 4 ELSE dummyStatus[s]]
        /\ Completing(t)
    <2>1. S = D!With(t, D!Online) /\ D!Connected = 4
      BY DummyNames
    <2> HIDE DEF S
    <2>2. D!Status(S, 4) /\ D!Complete(t)
      BY <2>1 DEF D!HandleCheckMsgAction
    <2>3. dummyStatus' = [s \in Everyone |-> IF s \in S THEN 4 ELSE dummyStatus[s]]
      BY <2>2, DummyNames
    <2>4. Completing(t)
      BY <2>2, DummyNames
    <2>5. pc[t] = "frame"
      BY DummyNames DEF D!HandleCheckMsgAction, D!Works
    <2>6. /\ trust' = trust /\ action' = action /\ at' = at
          /\ UNCHANGED <<place, stringCounter, inq, outq>>
      BY DEF D!HandleCheckMsgAction, D!Works
    <2> QED
      BY <2>3, <2>4, <2>5, <2>6
  <1>2. RoundTypes /\ CastTypes /\ \A s \in Everyone : HomeOf(s) /\ ViewOf(s)
                                                      /\ dummyStatus[s] \in Condition
    BY DEF DummyBase, CastTypes, Ways, ViewOf, View
  <1>3. /\ RoundTypes'
        /\ \A s \in Everyone : pc'[Keeper(s)] # "no" <=> pc[Keeper(s)] # "no"
    BY <1>1, <1>2, RoundSteps
  <1>4. CastTypes' /\ \A s \in Everyone : dummyStatus'[s] \in Condition
    BY <1>1, <1>2 DEF CastTypes, Ways, Condition
  <1>5. \A s \in Everyone : /\ s \in S => Keeper(s) = t /\ dummyStatus[s] > 3
                            /\ dummyStatus'[s] = IF s \in S THEN 4 ELSE dummyStatus[s]
    BY <1>1 DEF Those4
  <1> HIDE DEF S
  <1>6. ASSUME NEW s \in Everyone
        PROVE  /\ HomeOf(s)'
               /\ (Keeper(s) = t => dummyStatus[s] = 11) => (FairOf(s) => FairOf(s)')
    <2>1. CASE s \in S
      <3>1. HomeOf(s) /\ ViewOf(s) /\ Keeper(s) = t /\ dummyStatus[s] > 3
            /\ dummyStatus'[s] = 4 /\ dummyStatus[s] \in Condition
        BY <1>2, <1>5, <2>1
      <3>2. HomeOf(s)'
        BY <1>1, <1>3, <1>4, <3>1, Online, SessionSends
      <3>3. dummyStatus[s] = 11 /\ FairOf(s) =>
               Fair(trust, 4, place[s], inq[s], outq[s], at[s])
        BY <3>1, FairTurns DEF FairOf, ViewOf
      <3> QED
        BY <1>1, <3>1, <3>2, <3>3 DEF FairOf
    <2>2. CASE s \notin S
      BY <1>1, <1>2, <1>3, <1>5, <2>2, SessionStays
    <2> QED
      BY <2>1, <2>2
  <1> QED
    BY <1>1, <1>3, <1>4, <1>6 DEF DummyBase, S

LEMMA DummyDisconnects ==
    ASSUME ProgramsAssumption, DummyBase, NEW t \in Crew, D!HandleCheckDisconnectAction(t)
    PROVE  /\ DummyBase'
           /\ \A s \in Everyone : FairOf(s) => FairOf(s)'
           /\ \E S : /\ S \subseteq Those4(t, 4 .. 11) /\ Closing(S)
                     /\ stringCounter' = [s \in Everyone |-> IF s \in S THEN [text \in Text |-> 0]
                                                             ELSE stringCounter[s]]
                     /\ dummyStatus' = [s \in Everyone |-> IF s \in S THEN 1 ELSE dummyStatus[s]]
  <1>1. PICK S : /\ S \subseteq Those4(t, 4 .. 11) /\ Closing(S)
                 /\ stringCounter' = [s \in Everyone |-> IF s \in S THEN [text \in Text |-> 0]
                                                         ELSE stringCounter[s]]
                 /\ dummyStatus' = [s \in Everyone |-> IF s \in S THEN 1 ELSE dummyStatus[s]]
    <2>1. PICK S : /\ S \subseteq D!With(t, D!Online) /\ D!Closed(S) /\ D!Status(S, D!Created)
                   /\ stringCounter' = [s \in D!Session |-> IF s \in S THEN D!Nothing
                                                              ELSE stringCounter[s]]
      BY DEF D!HandleCheckDisconnectAction
    <2>2. D!With(t, D!Online) = Those4(t, 4 .. 11) /\ D!Session = Everyone
          /\ D!Nothing = [text \in Text |-> 0] /\ D!Created = 1
      BY DummyNames, DummyWay
    <2>3. S \subseteq Those4(t, 4 .. 11)
      BY <2>1, <2>2
    <2>4. Closing(S)
      BY <2>1, DummyWay
    <2>5. D!Status(S, 1)
      BY <2>1, <2>2
    <2>6. dummyStatus' = [s \in Everyone |-> IF s \in S THEN 1 ELSE dummyStatus[s]]
      BY <2>5, DummyNames
    <2> QED
      BY <2>1, <2>2, <2>3, <2>4, <2>6
  <1>2. /\ pc[t] = "frame" /\ trust' = trust /\ action' = action /\ Completing(t)
    BY DummyNames DEF D!HandleCheckDisconnectAction
  <1>3. /\ RoundTypes /\ CastTypes /\ Ways /\ MAX_SECTOR \in Nat /\ MaxOnWay \in Nat
        /\ \A s \in Everyone : HomeOf(s) /\ ViewOf(s)
    BY DEF DummyBase, CastTypes, Ways, ViewOf, View, ProgramsAssumption
  <1>4. /\ Ways'
        /\ \A r \in Everyone :
              IF r \in S
              THEN place'[r] = 0 /\ inq'[r] = <<>> /\ outq'[r] = <<>> /\ at'[r] = 0
              ELSE /\ place'[r] = place[r] /\ inq'[r] = inq[r]
                   /\ outq'[r] = outq[r] /\ at'[r] = at[r]
    BY <1>1, <1>3, ClosingDoes
  <1>5. /\ RoundTypes'
        /\ \A s \in Everyone : pc'[Keeper(s)] # "no" <=> pc[Keeper(s)] # "no"
    BY <1>2, <1>3, RoundSteps
  <1>6. CastTypes'
    <2>1. dummyStatus' \in [Everyone -> Condition]
      BY <1>1, <1>3 DEF CastTypes, Condition
    <2>2. stringCounter' \in [Everyone -> [Text -> Nat]]
      BY <1>1, <1>3 DEF CastTypes
    <2> QED
      BY <1>4, <2>1, <2>2 DEF CastTypes
  <1>7. \A s \in Everyone : /\ s \in S => Keeper(s) = t
                            /\ dummyStatus'[s] = IF s \in S THEN 1 ELSE dummyStatus[s]
    BY <1>1 DEF Those4
  <1>8. ASSUME NEW s \in Everyone
        PROVE  HomeOf(s)' /\ (FairOf(s) => FairOf(s)')
    <2>1. CASE s \in S
      <3>1. /\ dummyStatus'[s] = 1 /\ pc'[Keeper(s)] # "no"
            /\ place'[s] = 0 /\ inq'[s] = <<>> /\ outq'[s] = <<>> /\ at'[s] = 0
        BY <1>2, <1>4, <1>5, <1>7, <2>1
      <3>2. HomeOf(s)'
        BY <1>3, <3>1, HomeClears, HomeOpenNext
      <3>3. FairOf(s)'
        BY <3>1, FairClears DEF FairOf
      <3> QED
        BY <3>2, <3>3
    <2>2. CASE s \notin S
      <3>1. /\ dummyStatus'[s] = dummyStatus[s] /\ place'[s] = place[s] /\ inq'[s] = inq[s]
            /\ outq'[s] = outq[s] /\ at'[s] = at[s] /\ HomeOf(s)
        BY <1>3, <1>4, <1>7, <2>2
      <3> QED
        BY <1>2, <1>5, <3>1, SessionStays
    <2> QED
      BY <2>1, <2>2
  <1> QED
    BY <1>1, <1>5, <1>6, <1>8 DEF DummyBase

(* Those who say something: how often each session must get each text.      *)
Hearing(S, said, r, text) ==
    {s \in S \ {r} : said[s] = text /\ place[r] \in Beside(place[s])}
Saids(S, said) ==
    stringCounter' = [r \in Everyone |-> [text \in Text |->
        stringCounter[r][text] + Cardinality(Hearing(S, said, r, text))]]
Speeches(S, E, said) ==
    [s \in Everyone |-> IF s \in S THEN Speech("LocalChat", said[s]) ELSE Plain("ChatEnd")]

(* The turn of saying something.                                            *)
LEMMA SaysDoes ==
    ASSUME ProgramsAssumption, CastTypes, NEW t \in Crew, D!HandleSendChatMsgAction(t)
    PROVE  \E said, S, E :
              /\ S = Those4(t, {8}) /\ E = Those4(t, {9}) /\ said \in [S -> Text]
              /\ dummyStatus' = [s \in Everyone |-> IF s \in S THEN 9
                                                    ELSE IF s \in E THEN 10
                                                    ELSE dummyStatus[s]]
              /\ Sending(S \cup E, Speeches(S, E, said))
              /\ Saids(S, said)
  <1> DEFINE S == D!With(t, {D!RecvdMoveEnd})
             E == D!With(t, {D!SendingChat})
  <1>1. S = Those4(t, {8}) /\ E = Those4(t, {9})
    BY DummyNames
  <1>2. PICK said :
          /\ said \in [S -> Text]
          /\ dummyStatus' = [s \in D!Session |-> IF s \in S THEN D!SendingChat
                                                ELSE IF s \in E THEN D!WaitingChatEnd
                                                ELSE dummyStatus[s]]
          /\ D!Sent(S \cup E, LAMBDA s : <<IF s \in S THEN D!Saying("LocalChat", said[s])
                                                   ELSE D!Msg("ChatEnd")>>)
          /\ D!CheckReceiversInSector(S, said)
    BY Zenon DEF D!HandleSendChatMsgAction
  <1> HIDE DEF S, E
  <1>3. said \in [S -> Text]
    BY <1>2, Zenon
  <1>4. dummyStatus' = [s \in Everyone |-> IF s \in S THEN 9 ELSE IF s \in E THEN 10
                                                    ELSE dummyStatus[s]]
    <2>1. dummyStatus' = [s \in D!Session |-> IF s \in S THEN D!SendingChat
                                                ELSE IF s \in E THEN D!WaitingChatEnd
                                                ELSE dummyStatus[s]]
      BY <1>2, Zenon
    <2>2. D!Session = Everyone /\ D!SendingChat = 9 /\ D!WaitingChatEnd = 10
      BY DummyNames, DummyWay
    <2> QED
      BY <2>1, <2>2
  <1>5. Sending(S \cup E, Speeches(S, E, said))
    <2>1. D!Sent(S \cup E, LAMBDA s : <<IF s \in S THEN D!Saying("LocalChat", said[s])
                                                   ELSE D!Msg("ChatEnd")>>)
      BY <1>2, Zenon
    <2>2. Ways
      BY DEF CastTypes
    <2>3. Sending(S \cup E,
                  [s \in Everyone |-> IF s \in S THEN Speech("LocalChat", said[s])
                                                 ELSE Plain("ChatEnd")])
      BY <2>1, <2>2, DummySends
    <2> QED
      BY <2>3 DEF Speeches
  <1>6. Saids(S, said)
    <2>1. D!CheckReceiversInSector(S, said)
      BY <1>2, Zenon
    <2>2. D!Session = Everyone /\ \A p : D!Around(p) = Beside(p)
      BY DummyWay
    <2>3. \A X : D!Cardinality(X) = Cardinality(X)
      BY DummyNames
    <2> QED
      BY <2>1, <2>2, <2>3 DEF D!CheckReceiversInSector, Saids, Hearing
  <1> QED
    BY <1>1, <1>3, <1>4, <1>5, <1>6

LEMMA DummySays ==
    ASSUME ProgramsAssumption, DummyBase, NEW t \in Crew, D!HandleSendChatMsgAction(t)
    PROVE  /\ DummyBase'
           /\ \A s \in Everyone : FairOf(s) => FairOf(s)'
           /\ \E said, S, E :
              /\ S = Those4(t, {8}) /\ E = Those4(t, {9}) /\ said \in [S -> Text]
              /\ dummyStatus' = [s \in Everyone |-> IF s \in S THEN 9
                                                    ELSE IF s \in E THEN 10
                                                    ELSE dummyStatus[s]]
              /\ Saids(S, said)
              /\ \A s \in Everyone : \A text : Those(outq'[s], Said(text))
                    = Those(outq[s], Said(text))
                         + (IF s \in S /\ said[s] = text THEN 1 ELSE 0)
           /\ UNCHANGED <<place, inq, at>>
  <1>1. /\ RoundTypes /\ CastTypes /\ Ways /\ MAX_SECTOR \in Nat
        /\ \A s \in Everyone : HomeOf(s) /\ ViewOf(s) /\ dummyStatus[s] \in Condition
    BY DEF DummyBase, CastTypes, Ways, ViewOf, View, ProgramsAssumption
  <1>2. PICK said, S, E :
              /\ S = Those4(t, {8}) /\ E = Those4(t, {9}) /\ said \in [S -> Text]
              /\ dummyStatus' = [s \in Everyone |-> IF s \in S THEN 9
                                                    ELSE IF s \in E THEN 10
                                                    ELSE dummyStatus[s]]
              /\ Sending(S \cup E, Speeches(S, E, said))
              /\ Saids(S, said)
    BY <1>1, SaysDoes
  <1>3. /\ pc[t] = "frame" /\ trust' = trust /\ action' = action /\ at' = at
        /\ place' = place /\ inq' = inq
        /\ Completing(t) \/ Staying
    <2>1. pc[t] = "frame"
      BY DummyNames DEF D!HandleSendChatMsgAction, D!Works
    <2>2. Completing(t) \/ Staying
      BY DummyNames DEF D!HandleSendChatMsgAction
    <2> QED
      BY <2>1, <2>2 DEF D!HandleSendChatMsgAction, D!Works
  <1> DEFINE m == Speeches(S, E, said)
  <1>4. \A s \in Everyone :
           /\ s \in S => Keeper(s) = t /\ dummyStatus[s] = 8
           /\ s \in E => Keeper(s) = t /\ dummyStatus[s] = 9
    BY <1>2 DEF Those4
  <1>5. \A s \in Everyone :
           /\ s \in S => m[s] \in MsgType /\ m[s].type = "LocalChat" /\ m[s].text = said[s]
           /\ s \notin S => m[s] \in MsgType /\ m[s].type = "ChatEnd" /\ m[s].sector = 0
    <2>1. \A s \in S : said[s] \in Text
      BY <1>2
    <2>2. \A s \in Everyone : m[s] = IF s \in S THEN Speech("LocalChat", said[s])
                                                ELSE Plain("ChatEnd")
      BY DEF Speeches
    <2> HIDE DEF m
    <2>3. Plain("ChatEnd") \in MsgType /\ \A text \in Text : Speech("LocalChat", text) \in MsgType
      BY <1>1, MessageTypes
    <2>4. /\ Plain("ChatEnd").type = "ChatEnd" /\ Plain("ChatEnd").sector = 0
          /\ \A text : /\ Speech("LocalChat", text).type = "LocalChat"
                       /\ Speech("LocalChat", text).text = text
      BY DEF Speech, Plain
    <2> QED
      BY <2>1, <2>2, <2>3, <2>4
  <1> HIDE DEF m
  <1>6. Sending(S \cup E, m)
    BY <1>2 DEF m
  <1>7. /\ outq' \in [Everyone -> Seq(MsgType)]
        /\ \A s \in Everyone : outq'[s] = IF s \in S \cup E THEN Append(outq[s], m[s])
                                                            ELSE outq[s]
        /\ \A s \in Everyone : \A kind :
                 Those(outq'[s], kind) =
                    Those(outq[s], kind) + (IF s \in S \cup E THEN One(m[s], kind) ELSE 0)
    <2>1. Ways
      BY <1>1
    <2>2. \A s \in Everyone : m[s] \in MsgType
      BY <1>5
    <2> DEFINE U == S \cup E
    <2>3. Sending(U, m)
      BY <1>6
    <2> HIDE DEF U
    <2>4. /\ outq' \in [Everyone -> Seq(MsgType)]
          /\ \A s \in Everyone : outq'[s] = IF s \in U THEN Append(outq[s], m[s]) ELSE outq[s]
      BY <2>1, <2>2, <2>3, SentMessage
    <2>5. \A s \in Everyone : \A kind :
                 Those(outq'[s], kind) =
                    Those(outq[s], kind) + (IF s \in U THEN One(m[s], kind) ELSE 0)
      <3> SUFFICES ASSUME NEW s \in Everyone, NEW kind
                   PROVE  Those(outq'[s], kind) =
                    Those(outq[s], kind) + (IF s \in U THEN One(m[s], kind) ELSE 0)
        OBVIOUS
      <3>1. outq[s] \in Seq(MsgType)
        BY <2>1 DEF Ways
      <3>2. Those(Append(outq[s], m[s]), kind) = Those(outq[s], kind) + One(m[s], kind)
        BY <2>2, <3>1, ThoseMore
      <3>3. Those(outq[s], kind) = Those(outq[s], kind) + 0
        <4>1. Those(outq[s], kind) \in Nat
          BY <3>1, ThoseFinite
        <4> QED
          BY <4>1
      <3> QED
        BY <2>4, <3>2, <3>3
    <2> QED
      BY <2>4, <2>5 DEF U
  <1>8. /\ RoundTypes'
        /\ \A s \in Everyone : pc'[Keeper(s)] # "no" <=> pc[Keeper(s)] # "no"
    BY <1>1, <1>3, RoundSteps
  <1>9. dummyStatus' \in [Everyone -> Condition] /\ \A s \in Everyone : dummyStatus'[s] \in Condition
    BY <1>1, <1>2 DEF CastTypes, Condition
  <1>10. stringCounter' \in [Everyone -> [Text -> Nat]]
    <2>1. \A r \in Everyone : \A text \in Text :
             Cardinality(Hearing(S, said, r, text)) \in Nat
      <3>1. S \subseteq Everyone
        BY <1>2 DEF Those4
      <3>2. \A r \in Everyone : \A text \in Text : Hearing(S, said, r, text) \subseteq Everyone
        BY <3>1 DEF Hearing
      <3> QED
        BY <3>2, EveryoneFinite
    <2>2. \A r \in Everyone : \A text \in Text : stringCounter[r][text] \in Nat
      BY <1>1 DEF CastTypes
    <2>3. \A r \in Everyone : \A text \in Text :
             stringCounter[r][text] + Cardinality(Hearing(S, said, r, text)) \in Nat
      BY <2>1, <2>2
    <2> QED
      BY <1>2, <2>3 DEF Saids
  <1>11. CastTypes'
    BY <1>1, <1>3, <1>7, <1>9, <1>10 DEF CastTypes, Ways
  <1>12. ASSUME NEW s \in Everyone
         PROVE  HomeOf(s)' /\ (FairOf(s) => FairOf(s)')
    <2>1. /\ HomeOf(s) /\ ViewOf(s) /\ dummyStatus[s] \in Condition /\ inq'[s] = inq[s]
          /\ at'[s] = at[s] /\ dummyStatus'[s] \in Condition /\ place'[s] = place[s]
          /\ pc'[Keeper(s)] # "no" <=> pc[Keeper(s)] # "no"
      BY <1>1, <1>3, <1>8, <1>9
    <2>2. CASE s \in S
      <3>1. /\ dummyStatus[s] = 8 /\ dummyStatus'[s] = 9 /\ outq'[s] = Append(outq[s], m[s])
            /\ m[s] \in MsgType /\ m[s].type = "LocalChat"
        BY <1>2, <1>4, <1>5, <1>7, <2>2
      <3>2. HomeOf(s)'
        BY <2>1, <3>1, Online, SessionSends, SMTT(20)
      <3>3. FairOf(s) => Fair(trust, 9, place[s], inq[s], outq'[s], at[s])
        BY <2>1, <3>1, FairSays DEF FairOf, ViewOf
      <3> QED
        BY <1>3, <2>1, <3>1, <3>2, <3>3 DEF FairOf
    <2>3. CASE s \in E
      <3>1. /\ dummyStatus[s] = 9 /\ dummyStatus'[s] = 10 /\ outq'[s] = Append(outq[s], m[s])
            /\ m[s] \in MsgType /\ m[s].type = "ChatEnd" /\ m[s].sector = 0
        <4>1. dummyStatus[s] = 9 /\ s \notin S
          BY <1>4, <2>3
        <4> QED
          BY <1>2, <1>5, <1>7, <2>3, <4>1
      <3>2. HomeOf(s)'
        BY <2>1, <3>1, Online, SessionSends, SMTT(20)
      <3>3. FairOf(s) => Fair(trust, 10, place[s], inq[s], outq'[s], at[s])
        BY <2>1, <3>1, FairEnds DEF FairOf, ViewOf
      <3> QED
        BY <1>3, <2>1, <3>1, <3>2, <3>3 DEF FairOf
    <2>4. CASE s \notin S /\ s \notin E
      <3>1. outq'[s] = outq[s] /\ dummyStatus'[s] = dummyStatus[s]
        BY <1>2, <1>7, <2>4
      <3> QED
        BY <1>3, <2>1, <3>1, SessionStays
    <2> QED
      BY <2>2, <2>3, <2>4
  <1>13. ASSUME NEW s \in Everyone, NEW text
         PROVE  Those(outq'[s], Said(text)) = Those(outq[s], Said(text))
                         + (IF s \in S /\ said[s] = text THEN 1 ELSE 0)
    <2>1. Those(outq'[s], Said(text)) = Those(outq[s], Said(text))
             + (IF s \in S \cup E THEN One(m[s], Said(text)) ELSE 0)
      BY <1>7
    <2>2. One(m[s], Said(text)) = IF s \in S /\ said[s] = text THEN 1 ELSE 0
      BY <1>5 DEF One, Said
    <2> QED
      BY <2>1, <2>2
  <1> QED
    <2>1. DummyBase' /\ \A s \in Everyone : FairOf(s) => FairOf(s)'
      BY <1>8, <1>11, <1>12 DEF DummyBase
    <2>2. UNCHANGED <<place, inq, at>>
      BY <1>3
    <2> QED
      BY <1>2, <1>13, <2>1, <2>2

(* What the threads do between the turns.                                   *)
LEMMA DummyBegins ==
    ASSUME ProgramsAssumption, DummyBase, NEW t \in Crew, D!Start(t)
    PROVE  /\ DummyBase'
           /\ \A s \in Everyone : FairOf(s) => FairOf(s)'
           /\ pc[t] = "no" /\ pc' = [pc EXCEPT ![t] = "frame"]
           /\ complete' = [complete EXCEPT ![t] = 0]
           /\ dummyStatus' = [s \in Everyone |-> IF Keeper(s) = t THEN 1 ELSE dummyStatus[s]]
           /\ UNCHANGED <<trust, action, doing, next, place, stringCounter, inq, outq, at>>
  <1>1. /\ pc[t] = "no" /\ pc' = [pc EXCEPT ![t] = "frame"]
        /\ complete' = [complete EXCEPT ![t] = 0]
        /\ UNCHANGED <<trust, action, doing, next, place, stringCounter, inq, outq, at>>
    BY DEF D!Start, D!Goto
  <1>2. dummyStatus' = [s \in Everyone |-> IF Keeper(s) = t THEN 1 ELSE dummyStatus[s]]
    <2>1. D!Session = Everyone /\ D!Created = 1 /\ D!Mine(t) = {s \in Everyone : Keeper(s) = t}
      BY DummyNames, DummyWay, CrewsAre
    <2>2. dummyStatus' = [s \in D!Session |-> IF s \in D!Mine(t) THEN D!Created ELSE dummyStatus[s]]
      BY DEF D!Start
    <2> QED
      BY <2>1, <2>2
  <1>3. /\ RoundTypes /\ CastTypes /\ Ways
        /\ \A s \in Everyone : /\ HomeOf(s) /\ ViewOf(s) /\ dummyStatus[s] \in Condition
                               /\ Keeper(s) \in Crew
    BY CrewFacts DEF DummyBase, CastTypes, Ways, ViewOf, View
  <1>4. /\ RoundTypes'
        /\ \A s \in Everyone : Keeper(s) # t => (pc'[Keeper(s)] # "no" <=> pc[Keeper(s)] # "no")
        /\ pc'[t] # "no"
    BY <1>1, <1>3 DEF RoundTypes
  <1>5. CastTypes'
    BY <1>1, <1>2, <1>3 DEF CastTypes, Ways, Condition
  <1>6. ASSUME NEW s \in Everyone
        PROVE  HomeOf(s)' /\ (FairOf(s) => FairOf(s)')
    <2>1. CASE Keeper(s) = t
      <3>1. dummyStatus[s] = 0 /\ dummyStatus'[s] = 1 /\ pc'[Keeper(s)] # "no"
        BY <1>1, <1>2, <1>3, <1>4, <2>1 DEF HomeOf, Home
      <3>2. Home(TRUE, 1, place[s], inq[s], outq[s], at[s])
        <4>1. Home(pc[Keeper(s)] # "no", 0, place[s], inq[s], outq[s], at[s])
          BY <1>3, <3>1 DEF HomeOf
        <4>2. PICK b : b = (pc[Keeper(s)] # "no") /\ Home(b, 0, place[s], inq[s], outq[s], at[s])
          BY <4>1
        <4>3. 0 \in Condition /\ 0 < 3
          BY DEF Condition
        <4> QED
          BY <4>2, <4>3, HomeBegins
      <3>3. HomeOf(s)'
        BY <1>1, <3>1, <3>2, HomeOpenNext
      <3>4. FairOf(s) => Fair(trust, 1, place[s], inq[s], outq[s], at[s])
        BY <1>3, <3>1, FairTurns DEF FairOf, ViewOf
      <3> QED
        BY <1>1, <3>1, <3>3, <3>4 DEF FairOf
    <2>2. CASE Keeper(s) # t
      <3>1. dummyStatus'[s] = dummyStatus[s] /\ (pc'[Keeper(s)] # "no" <=> pc[Keeper(s)] # "no")
        BY <1>2, <1>4, <2>2
      <3> QED
        BY <1>1, <1>3, <3>1, SessionStays
    <2> QED
      BY <2>1, <2>2
  <1> QED
    BY <1>1, <1>2, <1>4, <1>5, <1>6 DEF DummyBase

(* A step of the round that leaves the sessions alone.                     *)
LEMMA DummyRests ==
    ASSUME ProgramsAssumption, DummyBase, trust' = trust, RoundTypes',
           \A u \in Crew : pc'[u] # "no" <=> pc[u] # "no",
           UNCHANGED <<dummyStatus, place, stringCounter, inq, outq, at>>
    PROVE  /\ DummyBase'
           /\ \A s \in Everyone : FairOf(s) => FairOf(s)'
  <1>1. /\ CastTypes
        /\ \A s \in Everyone : /\ HomeOf(s) /\ Keeper(s) \in Crew
    BY CrewFacts DEF DummyBase
  <1>2. CastTypes'
    BY <1>1 DEF CastTypes, Ways
  <1>3. ASSUME NEW s \in Everyone
        PROVE  HomeOf(s)' /\ (FairOf(s) => FairOf(s)')
    BY <1>1, SessionStays
  <1> QED
    BY <1>2, <1>3 DEF DummyBase

Scanning(t) ==
    /\ pc[t] = "scan"
    /\ IF next[t] <= CrewSize /\ complete[next[t]] # 0
       THEN next' = [next EXCEPT ![t] = next[t] + 1] /\ pc' = pc
       ELSE /\ pc' = [pc EXCEPT ![t] = IF next[t] > CrewSize THEN "change" ELSE "frame"]
            /\ next' = [next EXCEPT ![t] = 1]
    /\ UNCHANGED <<trust, action, complete, doing, dummyStatus, place, stringCounter, inq, outq, at>>

Changing(t) ==
    /\ \/ /\ pc[t] = "change" /\ pc' = [pc EXCEPT ![t] = "reset"]
          /\ action' = NextDeed[doing[t]] /\ complete' = complete
       \/ /\ pc[t] = "reset" /\ pc' = [pc EXCEPT ![t] = "frame"]
          /\ complete' = IF complete[t] = 1 THEN [u \in Crew |-> 0] ELSE complete
          /\ action' = action
    /\ UNCHANGED <<trust, doing, next, dummyStatus, place, stringCounter, inq, outq, at>>

LEMMA RoundNames ==
    ASSUME ProgramsAssumption, NEW t \in Crew
    PROVE  /\ D!Scan(t) => Scanning(t)
           /\ D!ChangeAction(t) => Changing(t)
  <1>1. D!threadCount = CrewSize /\ D!Threads = Crew /\ D!After = NextDeed
    BY CrewsAre, DummyNames
  <1>2. D!Scan(t) => Scanning(t)
    BY <1>1 DEF D!Scan, D!Goto, D!sessions, Scanning
  <1>3. D!ChangeAction(t) => Changing(t)
    BY <1>1 DEF D!ChangeAction, D!Goto, D!SetAction, D!ResetCounts, D!sessions, Changing
  <1> QED
    BY <1>2, <1>3

LEMMA DummyScans ==
    ASSUME ProgramsAssumption, DummyBase, NEW t \in Crew, Scanning(t)
    PROVE  /\ DummyBase'
           /\ \A s \in Everyone : FairOf(s) => FairOf(s)'
  <1>1. RoundTypes
    BY DEF DummyBase
  <1>2. RoundTypes' /\ \A u \in Crew : pc'[u] # "no" <=> pc[u] # "no"
    <2>1. CASE next[t] <= CrewSize /\ complete[next[t]] # 0
      <3>1. next' = [next EXCEPT ![t] = next[t] + 1] /\ pc' = pc
        BY <2>1 DEF Scanning
      <3>2. next' \in [Crew -> Nat]
        BY <1>1, <3>1 DEF RoundTypes
      <3> QED
        BY <1>1, <3>1, <3>2 DEF Scanning, RoundTypes
    <2>2. CASE ~(next[t] <= CrewSize /\ complete[next[t]] # 0)
      <3>1. /\ pc' = [pc EXCEPT ![t] = IF next[t] > CrewSize THEN "change" ELSE "frame"]
            /\ next' = [next EXCEPT ![t] = 1] /\ pc[t] = "scan" /\ doing' = doing
        BY <2>2 DEF Scanning
      <3>2. /\ pc' \in [Crew -> {"no", "frame", "scan", "change", "reset"}]
            /\ next' \in [Crew -> Nat]
        BY <1>1, <3>1 DEF RoundTypes
      <3>3. \A u \in Crew : /\ pc'[u] # "no" <=> pc[u] # "no"
                            /\ pc'[u] \in {"scan", "change", "reset"} =>
                                  pc[u] \in {"scan", "change", "reset"}
        BY <1>1, <3>1 DEF RoundTypes
      <3>4. trust' = trust /\ action' = action /\ complete' = complete
        BY DEF Scanning
      <3> QED
        BY <1>1, <3>1, <3>2, <3>3, <3>4 DEF RoundTypes
    <2> QED
      BY <2>1, <2>2
  <1>3. trust' = trust /\ UNCHANGED <<dummyStatus, place, stringCounter, inq, outq, at>>
    BY DEF Scanning
  <1> QED
    BY <1>2, <1>3, DummyRests

LEMMA DummyChanges ==
    ASSUME ProgramsAssumption, DummyBase, NEW t \in Crew, Changing(t)
    PROVE  /\ DummyBase'
           /\ \A s \in Everyone : FairOf(s) => FairOf(s)'
  <1>1. RoundTypes
    BY DEF DummyBase
  <1>2. /\ trust' = trust /\ UNCHANGED <<dummyStatus, place, stringCounter, inq, outq, at>>
        /\ doing' = doing /\ next' = next
    BY DEF Changing
  <1>3. RoundTypes' /\ \A u \in Crew : pc'[u] # "no" <=> pc[u] # "no"
    <2>1. CASE /\ pc[t] = "change" /\ pc' = [pc EXCEPT ![t] = "reset"]
               /\ action' = NextDeed[doing[t]] /\ complete' = complete
      <3>1. doing[t] \in Deed
        BY <1>1, <2>1 DEF RoundTypes
      <3>2. action' \in Deed
        BY <2>1, <3>1 DEF Deed, NextDeed
      <3>3. /\ pc' \in [Crew -> {"no", "frame", "scan", "change", "reset"}]
            /\ \A u \in Crew : /\ pc'[u] # "no" <=> pc[u] # "no"
                               /\ pc'[u] \in {"scan", "change", "reset"} =>
                                     pc[u] \in {"scan", "change", "reset"}
        BY <1>1, <2>1 DEF RoundTypes
      <3> QED
        BY <1>1, <1>2, <2>1, <3>2, <3>3 DEF RoundTypes
    <2>2. CASE /\ pc[t] = "reset" /\ pc' = [pc EXCEPT ![t] = "frame"]
               /\ complete' = IF complete[t] = 1 THEN [u \in Crew |-> 0] ELSE complete
               /\ action' = action
      <3>1. complete' \in [Crew -> {0, 1} \cup Fresh]
        BY <1>1, <2>2 DEF RoundTypes
      <3>2. /\ pc' \in [Crew -> {"no", "frame", "scan", "change", "reset"}]
            /\ \A u \in Crew : /\ pc'[u] # "no" <=> pc[u] # "no"
                               /\ pc'[u] \in {"scan", "change", "reset"} =>
                                     pc[u] \in {"scan", "change", "reset"}
        BY <1>1, <2>2 DEF RoundTypes
      <3> QED
        BY <1>1, <1>2, <2>2, <3>1, <3>2 DEF RoundTypes
    <2> QED
      BY <2>1, <2>2 DEF Changing
  <1> QED
    BY <1>2, <1>3, DummyRests

(* A frame of a thread that waits, and a session that moves in one.         *)
LEMMA DummyWaits ==
    ASSUME ProgramsAssumption, DummyBase, NEW t \in Crew, place' \in D!Moves(t),
           trust' = trust, UNCHANGED <<action, complete, pc, doing, next>>,
           UNCHANGED <<dummyStatus, stringCounter, inq, outq, at>>
    PROVE  /\ DummyBase'
           /\ \A s \in Everyone : FairOf(s) => FairOf(s)'
  <1>1. /\ RoundTypes /\ CastTypes /\ Ways
        /\ \A s \in Everyone : HomeOf(s) /\ ViewOf(s) /\ dummyStatus[s] \in Condition
    BY DEF DummyBase, CastTypes, Ways, ViewOf, View
  <1>2. /\ place' \in [Everyone -> 0 .. MAX_SECTOR]
        /\ \A s \in Everyone :
              IF Keeper(s) = t /\ dummyStatus[s] = 6 THEN place'[s] \in 1 .. MAX_SECTOR
                                                     ELSE place'[s] = place[s]
    <2>1. PICK p : p = place' /\ p \in D!Moves(t)
      OBVIOUS
    <2>2. /\ p \in [Everyone -> 0 .. MAX_SECTOR]
          /\ \A s \in Everyone :
              IF Keeper(s) = t /\ dummyStatus[s] = 6 THEN p[s] \in 1 .. MAX_SECTOR
                                                     ELSE p[s] = place[s]
      BY <1>1, <2>1, DummyMovesAre
    <2> QED
      BY <2>1, <2>2
  <1>3. RoundTypes' /\ CastTypes'
    BY <1>1, <1>2 DEF RoundTypes, CastTypes, Ways
  <1>4. ASSUME NEW s \in Everyone
        PROVE  HomeOf(s)' /\ (FairOf(s) => FairOf(s)')
    <2>1. CASE Keeper(s) = t /\ dummyStatus[s] = 6
      <3>1. dummyStatus'[s] = 6 /\ place'[s] # 0 /\ HomeOf(s) /\ ViewOf(s)
            /\ dummyStatus[s] \in Condition
        BY <1>1, <1>2, <2>1
      <3>2. HomeOf(s)'
        BY <2>1, <3>1, Online, SessionSends
      <3>3. FairOf(s) => Fair(trust, 6, place'[s], inq[s], outq[s], at[s])
        BY <2>1, <3>1, FairTurns DEF FairOf, ViewOf
      <3> QED
        BY <3>1, <3>2, <3>3 DEF FairOf
    <2>2. CASE ~(Keeper(s) = t /\ dummyStatus[s] = 6)
      <3>1. place'[s] = place[s] /\ HomeOf(s)
        BY <1>1, <1>2, <2>2
      <3> QED
        BY <3>1, SessionStays
    <2> QED
      BY <2>1, <2>2
  <1> QED
    BY <1>3, <1>4 DEF DummyBase

(* A step of one session.                                                  *)
LEMMA DummyOne ==
    ASSUME ProgramsAssumption, DummyBase, NEW s \in Everyone,
           UNCHANGED <<trust, action, complete, pc, doing, next>>,
           dummyStatus' \in [Everyone -> Condition],
           stringCounter' \in [Everyone -> [Text -> Nat]], Ways',
           \A r \in Everyone : r # s =>
              /\ dummyStatus'[r] = dummyStatus[r] /\ place'[r] = place[r]
              /\ inq'[r] = inq[r] /\ outq'[r] = outq[r] /\ at'[r] = at[r],
           HomeOf(s)', FairOf(s) => FairOf(s)'
    PROVE  /\ DummyBase'
           /\ \A r \in Everyone : FairOf(r) => FairOf(r)'
  <1>1. RoundTypes' /\ CastTypes'
    BY DEF DummyBase, RoundTypes, CastTypes
  <1>2. ASSUME NEW r \in Everyone
        PROVE  HomeOf(r)' /\ (FairOf(r) => FairOf(r)')
    <2>1. CASE r = s
      BY <2>1
    <2>2. CASE r # s
      <3>1. HomeOf(r)
        BY DEF DummyBase
      <3> QED
        BY <2>2, <3>1, SessionStays
    <2> QED
      BY <2>1, <2>2
  <1> QED
    BY <1>1, <1>2 DEF DummyBase

FreeOnes(s, X, st) ==
    /\ pc[Keeper(s)] = "frame" /\ ~trust /\ dummyStatus[s] \in X
    /\ UNCHANGED <<trust, action, complete, pc, doing, next, stringCounter, inq, at>>
    /\ dummyStatus' = [r \in Everyone |-> IF r \in {s} THEN st ELSE dummyStatus[r]]

(* Without the trust mode a session does as it likes.                       *)
LEMMA FreeKinds ==
    ASSUME ProgramsAssumption, CastTypes, NEW s \in Everyone, D!FreeStep(s)
    PROVE  \/ FreeOnes(s, {1}, 3) /\ place' = place /\ outq' = outq
           \/ /\ FreeOnes(s, {4, 8, 11}, 9) /\ place' = place
              /\ \E text \in Text : Sending({s}, [r \in Everyone |-> Speech("LocalChat", text)])
           \/ /\ FreeOnes(s, {4, 8, 11}, 6) /\ place' = place
              /\ Sending({s}, [r \in Everyone |-> Placing("MoveStart", place[r])])
           \/ /\ FreeOnes(s, {6}, 6) /\ outq' = outq
              /\ \E p \in Beside(place[s]) : place' = [place EXCEPT ![s] = p]
           \/ /\ FreeOnes(s, {6}, 7) /\ place' = place
              /\ SendingTwo({s}, [r \in Everyone |-> Placing("MoveStop", place[r])],
                                 [r \in Everyone |-> Plain("HeartBeat")])
           \/ /\ FreeOnes(s, {9}, 10) /\ place' = place
              /\ SendingTwo({s}, [r \in Everyone |-> Plain("ChatEnd")],
                                 [r \in Everyone |-> Plain("HeartBeat")])
  <1>1. Ways
    BY DEF CastTypes
  <1>2. \A X, st : D!Freely(s, X) /\ D!Status({s}, st) => FreeOnes(s, X, st)
    <2> SUFFICES ASSUME NEW X, NEW st, D!Freely(s, X), D!Status({s}, st)
                 PROVE  FreeOnes(s, X, st)
      OBVIOUS
    <2>1. dummyStatus' = [r \in Everyone |-> IF r \in {s} THEN st ELSE dummyStatus[r]]
      BY DummyNames
    <2>2. pc[Keeper(s)] = "frame"
      BY DummyNames, CrewsAre DEF D!Freely
    <2>3. /\ ~trust /\ dummyStatus[s] \in X
          /\ UNCHANGED <<trust, action, complete, pc, doing, next, stringCounter, inq, at>>
      BY DEF D!Freely, D!round
    <2> QED
      BY <2>1, <2>2, <2>3 DEF FreeOnes
  <1>3. /\ D!Connecting = 3 /\ D!SendingMove = 6 /\ D!WaitingMoveEnd = 7
        /\ D!SendingChat = 9 /\ D!WaitingChatEnd = 10 /\ D!Created = 1
        /\ D!Ready = {4, 8, 11}
    BY DummyNames
  <1>4. CASE D!DoSessionConnect(s)
    <2>1. D!Freely(s, {D!Created}) /\ D!Status({s}, D!Connecting) /\ place' = place /\ outq' = outq
      BY <1>4 DEF D!DoSessionConnect
    <2> QED
      BY <1>2, <1>3, <2>1
  <1>5. CASE D!SendRandomChat(s)
    <2>1. D!Freely(s, D!Ready) /\ D!Status({s}, D!SendingChat) /\ place' = place
      BY <1>5, Zenon DEF D!SendRandomChat
    <2>2. PICK text \in Text : D!Sent({s}, LAMBDA r : <<D!Saying("LocalChat", text)>>)
      BY <1>5, Zenon DEF D!SendRandomChat
    <2>3. Sending({s}, [r \in Everyone |-> Speech("LocalChat", text)])
      BY <1>1, <2>2, DummySends
    <2>4. FreeOnes(s, {4, 8, 11}, 9) /\ place' = place
      BY <1>2, <1>3, <2>1
    <2> QED
      BY <2>3, <2>4
  <1>6. CASE D!MoveStart(s)
    <2>1. D!Freely(s, D!Ready) /\ D!Status({s}, D!SendingMove) /\ place' = place
      BY <1>6, Zenon DEF D!MoveStart
    <2>2. D!Sent({s}, LAMBDA r : <<D!Placed("MoveStart", place[r])>>)
      BY <1>6, Zenon DEF D!MoveStart
    <2>3. Sending({s}, [r \in Everyone |-> Placing("MoveStart", place[r])])
      BY <1>1, <2>2, DummySends
    <2>4. FreeOnes(s, {4, 8, 11}, 6) /\ place' = place
      BY <1>2, <1>3, <2>1
    <2> QED
      BY <2>3, <2>4
  <1>7. CASE D!Move(s)
    <2>1. /\ D!Freely(s, {D!SendingMove}) /\ outq' = outq /\ dummyStatus' = dummyStatus
          /\ \E p \in D!Around(place[s]) : place' = [place EXCEPT ![s] = p]
      BY <1>7 DEF D!Move
    <2>2. D!Around(place[s]) = Beside(place[s])
      BY DummyWay
    <2>3. FreeOnes(s, {6}, 6)
      <3>1. dummyStatus' = [r \in Everyone |-> IF r \in {s} THEN 6 ELSE dummyStatus[r]]
        BY <1>3, <2>1 DEF CastTypes, D!Freely
      <3>2. pc[Keeper(s)] = "frame"
        BY <2>1, DummyNames, CrewsAre DEF D!Freely
      <3>3. /\ ~trust /\ dummyStatus[s] \in {6}
            /\ UNCHANGED <<trust, action, complete, pc, doing, next, stringCounter, inq, at>>
        BY <1>3, <2>1 DEF D!Freely, D!round
      <3> QED
        BY <3>1, <3>2, <3>3 DEF FreeOnes
    <2> QED
      BY <2>1, <2>2, <2>3
  <1>8. CASE D!MoveStop(s)
    <2>1. D!Freely(s, {D!SendingMove}) /\ D!Status({s}, D!WaitingMoveEnd) /\ place' = place
      BY <1>8, Zenon DEF D!MoveStop
    <2>2. D!Sent({s}, LAMBDA r : <<D!Placed("MoveStop", place[r]), D!Msg("HeartBeat")>>)
      BY <1>8, Zenon DEF D!MoveStop
    <2>3. SendingTwo({s}, [r \in Everyone |-> Placing("MoveStop", place[r])],
                                 [r \in Everyone |-> Plain("HeartBeat")])
      BY <1>1, <2>2, DummySends
    <2>4. FreeOnes(s, {6}, 7) /\ place' = place
      BY <1>2, <1>3, <2>1
    <2> QED
      BY <2>3, <2>4
  <1>9. CASE D!ChatEnd(s)
    <2>1. D!Freely(s, {D!SendingChat}) /\ D!Status({s}, D!WaitingChatEnd) /\ place' = place
      BY <1>9, Zenon DEF D!ChatEnd
    <2>2. D!Sent({s}, LAMBDA r : <<D!Msg("ChatEnd"), D!Msg("HeartBeat")>>)
      BY <1>9, Zenon DEF D!ChatEnd
    <2>3. SendingTwo({s}, [r \in Everyone |-> Plain("ChatEnd")],
                                 [r \in Everyone |-> Plain("HeartBeat")])
      BY <1>1, <2>2, DummySends
    <2>4. FreeOnes(s, {9}, 10) /\ place' = place
      BY <1>2, <1>3, <2>1
    <2> QED
      BY <2>3, <2>4
  <1> QED
    BY <1>4, <1>5, <1>6, <1>7, <1>8, <1>9 DEF D!FreeStep

LEMMA DummyFree ==
    ASSUME ProgramsAssumption, DummyBase, NEW s \in Everyone, D!FreeStep(s)
    PROVE  /\ DummyBase' /\ ~trust /\ trust' = trust
           /\ \A r \in Everyone : FairOf(r) => FairOf(r)'
  <1>1. /\ CastTypes /\ Ways /\ MAX_SECTOR \in Nat /\ HomeOf(s) /\ ViewOf(s)
        /\ dummyStatus[s] \in Condition /\ stringCounter \in [Everyone -> [Text -> Nat]]
    BY DEF DummyBase, CastTypes, Ways, ViewOf, View, ProgramsAssumption
  <1>2. \A X, st : FreeOnes(s, X, st) =>
           /\ pc[Keeper(s)] = "frame" /\ pc' = pc /\ ~trust /\ dummyStatus[s] \in X
           /\ UNCHANGED <<trust, action, complete, pc, doing, next>>
           /\ stringCounter' = stringCounter /\ inq' = inq /\ at' = at
           /\ dummyStatus'[s] = st
           /\ \A r \in Everyone : r # s => dummyStatus'[r] = dummyStatus[r]
    BY DEF FreeOnes
  <1>3. \A X : \A st \in Condition : FreeOnes(s, X, st) => dummyStatus' \in [Everyone -> Condition]
    BY <1>1 DEF FreeOnes, CastTypes
  <1>4. {3, 6, 7, 9, 10} \subseteq Condition
    BY DEF Condition
  <1> DEFINE Goal == /\ DummyBase' /\ ~trust /\ trust' = trust
                     /\ \A r \in Everyone : FairOf(r) => FairOf(r)'
  <1>5. ASSUME NEW X, NEW st \in Condition, FreeOnes(s, X, st), Ways',
               \A r \in Everyone : r # s => place'[r] = place[r] /\ outq'[r] = outq[r],
               HomeOf(s)', FairOf(s) => FairOf(s)'
        PROVE  Goal
    <2>1. /\ UNCHANGED <<trust, action, complete, pc, doing, next>>
          /\ dummyStatus' \in [Everyone -> Condition]
          /\ stringCounter' \in [Everyone -> [Text -> Nat]]
          /\ \A r \in Everyone : r # s =>
              /\ dummyStatus'[r] = dummyStatus[r] /\ place'[r] = place[r]
              /\ inq'[r] = inq[r] /\ outq'[r] = outq[r] /\ at'[r] = at[r]
          /\ ~trust
      BY <1>1, <1>2, <1>3, <1>5
    <2> QED
      BY <1>5, <2>1, DummyOne
  <1> HIDE DEF Goal
  <1>6. ASSUME FreeOnes(s, {1}, 3), place' = place, outq' = outq
        PROVE  Goal
    <2>1. dummyStatus[s] = 1 /\ dummyStatus'[s] = 3 /\ pc[Keeper(s)] # "no" /\ pc'[Keeper(s)] # "no"
      BY <1>2, <1>6
    <2>2. Ways'
      BY <1>1, <1>2, <1>6 DEF Ways
    <2>3. HomeOf(s)'
      <3>1. Home(TRUE, 1, place[s], inq[s], outq[s], at[s])
        BY <1>1, <2>1, HomeOpen
      <3>2. 1 \in Condition /\ 1 < 3
        BY DEF Condition
      <3>3. Home(TRUE, 3, place[s], inq[s], outq[s], at[s])
        BY <3>1, <3>2, HomeBegins
      <3> QED
        BY <1>2, <1>6, <2>1, <3>3, HomeOpenNext
    <2>4. FairOf(s) => Fair(trust, 3, place[s], inq[s], outq[s], at[s])
      BY <1>1, <2>1, FairTurns DEF FairOf, ViewOf
    <2>5. FairOf(s) => FairOf(s)'
      BY <1>2, <1>6, <2>1, <2>4 DEF FairOf
    <2> QED
      <3>1. \A r \in Everyone : r # s => place'[r] = place[r] /\ outq'[r] = outq[r]
        BY <1>6
      <3>2. 3 \in Condition
        BY <1>4
      <3>3. FreeOnes(s, {1}, 3)
        BY <1>6
      <3> QED
        BY <1>5, <2>2, <2>3, <2>5, <3>1, <3>2, <3>3
  <1>7. ASSUME NEW text \in Text, FreeOnes(s, {4, 8, 11}, 9), place' = place,
               Sending({s}, [r \in Everyone |-> Speech("LocalChat", text)])
        PROVE  Goal
    <2> DEFINE m == [r \in Everyone |-> Speech("LocalChat", text)]
               S == {s}
    <2>1. \A r \in Everyone : m[r] \in MsgType /\ m[r].type = "LocalChat"
      BY <1>1, MessageTypes DEF Speech
    <2>2. Sending(S, m)
      BY <1>7
    <2> HIDE DEF m, S
    <2>3. /\ outq' \in [Everyone -> Seq(MsgType)]
          /\ \A r \in Everyone : outq'[r] = IF r \in S THEN Append(outq[r], m[r]) ELSE outq[r]
      BY <1>1, <2>1, <2>2, SentMessage
    <2>4. outq'[s] = Append(outq[s], m[s]) /\ \A r \in Everyone : r # s => outq'[r] = outq[r]
      BY <2>3 DEF S
    <2>5. /\ dummyStatus[s] \in {4, 8, 11} /\ dummyStatus'[s] = 9 /\ pc[Keeper(s)] # "no"
          /\ pc'[Keeper(s)] # "no" /\ ~trust /\ trust' = trust /\ inq' = inq /\ at' = at
      BY <1>2, <1>7
    <2>6. Ways'
      BY <1>1, <1>7, <2>3, <2>5 DEF Ways
    <2>7. HomeOf(s)'
      BY <1>1, <1>4, <1>7, <2>5, Online, SessionSends
    <2>8. FairOf(s) => Fair(trust, 9, place[s], inq[s], Append(outq[s], m[s]), at[s])
      BY <1>1, <2>1, <2>5, FairSays DEF FairOf, ViewOf
    <2>9. FairOf(s) => FairOf(s)'
      BY <1>7, <2>4, <2>5, <2>8 DEF FairOf
    <2> QED
      BY <1>4, <1>5, <1>7, <2>4, <2>6, <2>7, <2>9
  <1>8. ASSUME FreeOnes(s, {4, 8, 11}, 6), place' = place,
               Sending({s}, [r \in Everyone |-> Placing("MoveStart", place[r])])
        PROVE  Goal
    <2> DEFINE m == [r \in Everyone |-> Placing("MoveStart", place[r])]
               S == {s}
    <2>1. \A r \in Everyone : m[r] \in MsgType /\ m[r].type = "MoveStart"
      BY <1>1, MessageTypes DEF Placing, Ways
    <2>2. Sending(S, m)
      BY <1>8
    <2> HIDE DEF m, S
    <2>3. /\ outq' \in [Everyone -> Seq(MsgType)]
          /\ \A r \in Everyone : outq'[r] = IF r \in S THEN Append(outq[r], m[r]) ELSE outq[r]
      BY <1>1, <2>1, <2>2, SentMessage
    <2>4. outq'[s] = Append(outq[s], m[s]) /\ \A r \in Everyone : r # s => outq'[r] = outq[r]
      BY <2>3 DEF S
    <2>5. /\ dummyStatus[s] \in {4, 8, 11} /\ dummyStatus'[s] = 6 /\ pc[Keeper(s)] # "no"
          /\ pc'[Keeper(s)] # "no" /\ ~trust /\ trust' = trust /\ inq' = inq /\ at' = at
      BY <1>2, <1>8
    <2>6. Ways'
      BY <1>1, <1>8, <2>3, <2>5 DEF Ways
    <2>7. HomeOf(s)'
      BY <1>1, <1>4, <1>8, <2>5, Online, SessionSends
    <2>8. FairOf(s) => Fair(trust, 6, place[s], inq[s], Append(outq[s], m[s]), at[s])
      BY <1>1, <2>1, <2>5, FairMoves DEF FairOf, ViewOf
    <2>9. FairOf(s) => FairOf(s)'
      BY <1>8, <2>4, <2>5, <2>8 DEF FairOf
    <2> QED
      BY <1>4, <1>5, <1>8, <2>4, <2>6, <2>7, <2>9
  <1>9. ASSUME NEW p \in Beside(place[s]), FreeOnes(s, {6}, 6), outq' = outq,
               place' = [place EXCEPT ![s] = p]
        PROVE  Goal
    <2>1. p \in 1 .. MAX_SECTOR
      BY DEF Beside
    <2>2. place'[s] = p /\ p # 0 /\ \A r \in Everyone : r # s => place'[r] = place[r]
      BY <1>1, <1>9, <2>1 DEF Ways
    <2>3. /\ dummyStatus[s] = 6 /\ dummyStatus'[s] = 6 /\ pc[Keeper(s)] # "no"
          /\ pc'[Keeper(s)] # "no" /\ ~trust /\ trust' = trust /\ inq' = inq /\ at' = at
      BY <1>2, <1>9
    <2>4. Ways'
      <3>1. p \in 0 .. MAX_SECTOR
        BY <1>1, <2>1
      <3>2. place' \in [Everyone -> 0 .. MAX_SECTOR]
        BY <1>1, <1>9, <3>1 DEF Ways
      <3> QED
        BY <1>1, <1>9, <2>3, <3>2 DEF Ways
    <2>5. HomeOf(s)'
      BY <1>1, <1>4, <2>2, <2>3, SessionSends
    <2>6. FairOf(s) => Fair(trust, 6, p, inq[s], outq[s], at[s])
      BY <1>1, <2>3, FairTurns DEF FairOf, ViewOf
    <2>7. FairOf(s) => FairOf(s)'
      BY <1>9, <2>2, <2>3, <2>6 DEF FairOf
    <2> QED
      BY <1>4, <1>5, <1>9, <2>2, <2>4, <2>5, <2>7
  <1>10. ASSUME FreeOnes(s, {6}, 7), place' = place,
                SendingTwo({s}, [r \in Everyone |-> Placing("MoveStop", place[r])],
                                [r \in Everyone |-> Plain("HeartBeat")])
         PROVE  Goal
    <2> DEFINE m == [r \in Everyone |-> Placing("MoveStop", place[r])]
               n == [r \in Everyone |-> Plain("HeartBeat")]
               S == {s}
    <2>1. \A r \in Everyone : /\ m[r] \in MsgType /\ m[r].type = "MoveStop"
                              /\ m[r].sector = place[r] /\ n[r] \in MsgType
                              /\ n[r].type = "HeartBeat" /\ n[r].sector = 0
      BY <1>1, MessageTypes DEF Placing, Plain, Ways
    <2>2. SendingTwo(S, m, n)
      BY <1>10
    <2> HIDE DEF m, n, S
    <2>3. \A r \in Everyone : r \in S => m[r] \in MsgType /\ n[r] \in MsgType
      BY <2>1
    <2>4. /\ outq' \in [Everyone -> Seq(MsgType)]
          /\ \A r \in Everyone : outq'[r] = IF r \in S THEN Append(Append(outq[r], m[r]), n[r])
                                                     ELSE outq[r]
      BY <1>1, <2>2, <2>3, TwoSent
    <2>5. /\ outq'[s] = Append(Append(outq[s], m[s]), n[s])
          /\ \A r \in Everyone : r # s => outq'[r] = outq[r]
      BY <2>4 DEF S
    <2>6. /\ dummyStatus[s] = 6 /\ dummyStatus'[s] = 7 /\ pc[Keeper(s)] # "no"
          /\ pc'[Keeper(s)] # "no" /\ ~trust /\ trust' = trust /\ inq' = inq /\ at' = at
      BY <1>2, <1>10
    <2>7. Ways'
      BY <1>1, <1>10, <2>4, <2>6 DEF Ways
    <2>8. HomeOf(s)'
      BY <1>1, <1>4, <1>10, <2>6, Online, SessionSends
    <2>9. FairOf(s) => Fair(trust, 7, place[s], inq[s], Append(Append(outq[s], m[s]), n[s]), at[s])
      <3>1. View(6, place[s], inq[s], outq[s], at[s])
            /\ (FairOf(s) => Fair(trust, 6, place[s], inq[s], outq[s], at[s]))
        BY <1>1, <2>6 DEF FairOf, ViewOf
      <3> QED
        BY <2>1, <3>1, FairStops
    <2>10. FairOf(s) => FairOf(s)'
      BY <1>10, <2>5, <2>6, <2>9 DEF FairOf
    <2> QED
      BY <1>4, <1>5, <1>10, <2>5, <2>7, <2>8, <2>10
  <1>11. ASSUME FreeOnes(s, {9}, 10), place' = place,
                SendingTwo({s}, [r \in Everyone |-> Plain("ChatEnd")],
                                [r \in Everyone |-> Plain("HeartBeat")])
         PROVE  Goal
    <2> DEFINE m == [r \in Everyone |-> Plain("ChatEnd")]
               n == [r \in Everyone |-> Plain("HeartBeat")]
               S == {s}
    <2>1. \A r \in Everyone : /\ m[r] \in MsgType /\ m[r].type = "ChatEnd"
                              /\ m[r].sector = 0 /\ n[r] \in MsgType
                              /\ n[r].type = "HeartBeat" /\ n[r].sector = 0
      BY <1>1, MessageTypes DEF Plain
    <2>2. SendingTwo(S, m, n)
      BY <1>11
    <2> HIDE DEF m, n, S
    <2>3. \A r \in Everyone : r \in S => m[r] \in MsgType /\ n[r] \in MsgType
      BY <2>1
    <2>4. /\ outq' \in [Everyone -> Seq(MsgType)]
          /\ \A r \in Everyone : outq'[r] = IF r \in S THEN Append(Append(outq[r], m[r]), n[r])
                                                     ELSE outq[r]
      BY <1>1, <2>2, <2>3, TwoSent
    <2>5. /\ outq'[s] = Append(Append(outq[s], m[s]), n[s])
          /\ \A r \in Everyone : r # s => outq'[r] = outq[r]
      BY <2>4 DEF S
    <2>6. /\ dummyStatus[s] = 9 /\ dummyStatus'[s] = 10 /\ pc[Keeper(s)] # "no"
          /\ pc'[Keeper(s)] # "no" /\ ~trust /\ trust' = trust /\ inq' = inq /\ at' = at
      BY <1>2, <1>11
    <2>7. Ways'
      BY <1>1, <1>11, <2>4, <2>6 DEF Ways
    <2>8. HomeOf(s)'
      BY <1>1, <1>4, <1>11, <2>6, Online, SessionSends
    <2>9. FairOf(s) => Fair(trust, 10, place[s], inq[s], Append(Append(outq[s], m[s]), n[s]), at[s])
      <3>1. View(9, place[s], inq[s], outq[s], at[s])
            /\ (FairOf(s) => Fair(trust, 9, place[s], inq[s], outq[s], at[s]))
        BY <1>1, <2>6 DEF FairOf, ViewOf
      <3>2. FairOf(s) => Fair(trust, 10, place[s], inq[s], Append(outq[s], m[s]), at[s])
        BY <2>1, <3>1, FairEnds
      <3>3. Append(outq[s], m[s]) \in Seq(MsgType)
        BY <1>1, <2>1 DEF Ways
      <3> QED
        BY <2>1, <2>6, <3>2, <3>3, FairBeats
    <2>10. FairOf(s) => FairOf(s)'
      BY <1>11, <2>5, <2>6, <2>9 DEF FairOf
    <2> QED
      BY <1>4, <1>5, <1>11, <2>5, <2>7, <2>8, <2>10
  <1>12. Goal
    <2> DEFINE A == FreeOnes(s, {1}, 3) /\ place' = place /\ outq' = outq
               B == /\ FreeOnes(s, {4, 8, 11}, 9) /\ place' = place
                    /\ \E text \in Text : Sending({s}, [r \in Everyone |-> Speech("LocalChat", text)])
               D1 == /\ FreeOnes(s, {4, 8, 11}, 6) /\ place' = place
                     /\ Sending({s}, [r \in Everyone |-> Placing("MoveStart", place[r])])
               E1 == /\ FreeOnes(s, {6}, 6) /\ outq' = outq
                     /\ \E p \in Beside(place[s]) : place' = [place EXCEPT ![s] = p]
               G == /\ FreeOnes(s, {6}, 7) /\ place' = place
                    /\ SendingTwo({s}, [r \in Everyone |-> Placing("MoveStop", place[r])],
                                 [r \in Everyone |-> Plain("HeartBeat")])
               H == /\ FreeOnes(s, {9}, 10) /\ place' = place
                    /\ SendingTwo({s}, [r \in Everyone |-> Plain("ChatEnd")],
                                 [r \in Everyone |-> Plain("HeartBeat")])
    <2>1. A \/ B \/ D1 \/ E1 \/ G \/ H
      BY <1>1, FreeKinds
    <2>2. A => Goal
      BY <1>6
    <2>3. B => Goal
      BY <1>7
    <2>4. D1 => Goal
      BY <1>8
    <2>5. E1 => Goal
      BY <1>9
    <2>6. G => Goal
      BY <1>10
    <2>7. H => Goal
      BY <1>11
    <2> HIDE DEF A, B, D1, E1, G, H
    <2> QED
      BY <2>1, <2>2, <2>3, <2>4, <2>5, <2>6, <2>7
  <1> QED
    BY <1>12 DEF Goal

TookIt(s, type) ==
    /\ pc[Keeper(s)] = "frame" /\ inq[s] # <<>> /\ Head(inq[s]).type = type
    /\ inq' = [inq EXCEPT ![s] = Tail(inq[s])]
    /\ UNCHANGED <<trust, action, complete, pc, doing, next, outq, at>>
Lowered(s, text) ==
    stringCounter' = [stringCounter EXCEPT ![s] =
        [stringCounter[s] EXCEPT ![text] = stringCounter[s][text] - 1]]

TookSaid(s, type, r, text) ==
    IF r = s /\ type = "LocalChat" /\ Head(inq[s]).text = text THEN 1 ELSE 0

(* What a session takes.                                                    *)
LEMMA ReceiveKinds ==
    ASSUME ProgramsAssumption, CastTypes, NEW s \in Everyone, D!Receive(s)
    PROVE  \/ /\ TookIt(s, "CreateCharacter") /\ stringCounter' = stringCounter
              /\ place' = [place EXCEPT ![s] = Head(inq[s]).sector]
              /\ dummyStatus' = [dummyStatus EXCEPT ![s] = 4]
           \/ /\ TookIt(s, "LocalChat") /\ dummyStatus' = dummyStatus /\ place' = place
              /\ IF trust THEN /\ stringCounter[s][Head(inq[s]).text] > 0
                               /\ Lowered(s, Head(inq[s]).text)
                          ELSE stringCounter' = stringCounter
           \/ /\ TookIt(s, "MoveStopComplete") /\ stringCounter' = stringCounter
              /\ dummyStatus' = [dummyStatus EXCEPT ![s] = 8] /\ place' = place
           \/ /\ TookIt(s, "ChatComplete") /\ stringCounter' = stringCounter
              /\ dummyStatus' = [dummyStatus EXCEPT ![s] = 11] /\ place' = place
  <1>1. \A type : D!Received(s, type) => TookIt(s, type)
    BY CrewsAre, DummyNames DEF D!Received, D!round, TookIt
  <1>2. D!Connected = 4 /\ D!RecvdMoveEnd = 8 /\ D!RecvdChatComplete = 11
    BY DummyNames
  <1>3. CASE D!CreateCharacter(s)
    BY <1>1, <1>2, <1>3 DEF D!CreateCharacter
  <1>4. CASE D!HandleLocalChatMsg(s)
    <2>1. /\ TookIt(s, "LocalChat") /\ dummyStatus' = dummyStatus /\ place' = place
          /\ IF trust THEN /\ stringCounter[s][Head(inq[s]).text] > 0
                           /\ Lowered(s, Head(inq[s]).text)
                      ELSE stringCounter' = stringCounter
      BY <1>1, <1>4 DEF D!HandleLocalChatMsg, Lowered
    <2> QED
      BY <2>1
  <1>5. CASE D!HandleMoveStopCompleteMsg(s)
    BY <1>1, <1>2, <1>5 DEF D!HandleMoveStopCompleteMsg
  <1>6. CASE D!HandleChatCompleteMsg(s)
    BY <1>1, <1>2, <1>6 DEF D!HandleChatCompleteMsg
  <1> QED
    BY <1>3, <1>4, <1>5, <1>6 DEF D!Receive

(* What a message that is taken does to the session.                        *)
LEMMA TookDoes ==
    ASSUME ProgramsAssumption, DummyBase, NEW s \in Everyone, NEW type, TookIt(s, type)
    PROVE  /\ inq' \in [Everyone -> Seq(MsgType)] /\ inq'[s] = Tail(inq[s])
           /\ \A r \in Everyone : r # s => inq'[r] = inq[r]
           /\ Head(inq[s]) \in MsgType
           /\ HomeOf(s) /\ ViewOf(s) /\ pc[Keeper(s)] # "no" /\ pc'[Keeper(s)] # "no"
           /\ Home(TRUE, dummyStatus[s], place[s], inq[s], outq[s], at[s])
           /\ \A r \in Everyone : \A text :
                 Those(inq[r], Said(text)) = Those(inq'[r], Said(text))
                    + TookSaid(s, type, r, text)
           /\ \A r \in Everyone : \A text : Those(inq'[r], Said(text)) \in Nat
  <1>1. /\ CastTypes /\ Ways /\ HomeOf(s) /\ ViewOf(s)
    BY DEF DummyBase, CastTypes, Ways, ViewOf, View
  <1>2. /\ pc[Keeper(s)] = "frame" /\ inq[s] # <<>> /\ Head(inq[s]).type = type
        /\ inq' = [inq EXCEPT ![s] = Tail(inq[s])] /\ pc' = pc
    BY DEF TookIt
  <1>3. /\ inq' \in [Everyone -> Seq(MsgType)] /\ Head(inq[s]) \in MsgType
        /\ \A r \in Everyone : inq'[r] = IF r = s THEN Tail(inq[s]) ELSE inq[r]
    BY <1>1, <1>2, TakenMessage
  <1>4. Home(TRUE, dummyStatus[s], place[s], inq[s], outq[s], at[s])
    BY <1>1, <1>2, HomeOpen
  <1>5. ASSUME NEW r \in Everyone, NEW text
        PROVE  /\ Those(inq[r], Said(text)) = Those(inq'[r], Said(text))
                    + TookSaid(s, type, r, text)
               /\ Those(inq'[r], Said(text)) \in Nat
    <2>1. inq[r] \in Seq(MsgType) /\ inq'[r] \in Seq(MsgType)
      BY <1>1, <1>3 DEF Ways
    <2>2. Those(inq'[r], Said(text)) \in Nat
      BY <2>1, ThoseFinite
    <2>3. CASE r = s
      <3>1. inq'[r] = Tail(inq[s]) /\ inq[r] = inq[s]
        BY <1>3, <2>3
      <3>2. inq[s] \in Seq(MsgType)
        BY <2>1, <2>3
      <3>3. Those(inq[s], Said(text)) = Those(Tail(inq[s]), Said(text)) + One(Head(inq[s]), Said(text))
        BY <1>2, <3>2, ThoseLess
      <3>4. One(Head(inq[s]), Said(text))
               = IF Head(inq[s]).type = "LocalChat" /\ Head(inq[s]).text = text THEN 1 ELSE 0
        BY <1>3, KindOf
      <3> QED
        BY <1>2, <2>2, <2>3, <3>1, <3>3, <3>4 DEF TookSaid
    <2>4. CASE r # s
      <3>1. inq'[r] = inq[r]
        BY <1>3, <2>4
      <3> QED
        BY <2>2, <2>4, <3>1 DEF TookSaid
    <2> QED
      BY <2>3, <2>4
  <1> QED
    BY <1>1, <1>2, <1>3, <1>4, <1>5

(* In every case: the status before and after.                             *)
LEMMA DummyTakes ==
    ASSUME ProgramsAssumption, DummyBase, NEW s \in Everyone, D!Receive(s)
    PROVE  /\ DummyBase'
           /\ \A r \in Everyone : FairOf(r) => FairOf(r)'
           /\ UNCHANGED <<trust, action, complete, pc, doing, next, outq, at>>
           /\ pc[Keeper(s)] = "frame"
           /\ \A r \in Everyone : r # s => dummyStatus'[r] = dummyStatus[r]
           /\ FairOf(s) => \/ dummyStatus'[s] = dummyStatus[s]
                           \/ dummyStatus[s] = 3 /\ dummyStatus'[s] = 4
                           \/ dummyStatus[s] = 7 /\ dummyStatus'[s] = 8
                           \/ dummyStatus[s] = 10 /\ dummyStatus'[s] = 11
           /\ \A r \in Everyone : \A text : Those(inq'[r], Said(text)) \in Nat
           /\ \/ /\ stringCounter' = stringCounter
                 /\ ~trust \/ \A r \in Everyone : \A text :
                       Those(inq'[r], Said(text)) = Those(inq[r], Said(text))
              \/ \E x \in Text :
                    /\ Lowered(s, x)
                    /\ \A r \in Everyone : \A text :
                          Those(inq[r], Said(text)) = Those(inq'[r], Said(text))
                             + (IF r = s /\ x = text THEN 1 ELSE 0)
  <1>1. /\ CastTypes /\ Ways /\ MAX_SECTOR \in Nat /\ MaxOnWay \in Nat
        /\ dummyStatus[s] \in Condition /\ dummyStatus \in [Everyone -> Condition]
        /\ stringCounter \in [Everyone -> [Text -> Nat]]
    BY DEF DummyBase, CastTypes, Ways, ProgramsAssumption
  <1>2. \A type : TookIt(s, type) =>
           /\ UNCHANGED <<trust, action, complete, pc, doing, next, outq, at>>
           /\ pc[Keeper(s)] = "frame" /\ inq[s] # <<>> /\ Head(inq[s]).type = type
    BY DEF TookIt
  <1> DEFINE Goal ==
           /\ DummyBase'
           /\ \A r \in Everyone : FairOf(r) => FairOf(r)'
           /\ UNCHANGED <<trust, action, complete, pc, doing, next, outq, at>>
           /\ pc[Keeper(s)] = "frame"
           /\ \A r \in Everyone : r # s => dummyStatus'[r] = dummyStatus[r]
           /\ FairOf(s) => \/ dummyStatus'[s] = dummyStatus[s]
                           \/ dummyStatus[s] = 3 /\ dummyStatus'[s] = 4
                           \/ dummyStatus[s] = 7 /\ dummyStatus'[s] = 8
                           \/ dummyStatus[s] = 10 /\ dummyStatus'[s] = 11
           /\ \A r \in Everyone : \A text : Those(inq'[r], Said(text)) \in Nat
           /\ \/ /\ stringCounter' = stringCounter
                 /\ ~trust \/ \A r \in Everyone : \A text :
                       Those(inq'[r], Said(text)) = Those(inq[r], Said(text))
              \/ \E x \in Text :
                    /\ Lowered(s, x)
                    /\ \A r \in Everyone : \A text :
                          Those(inq[r], Said(text)) = Those(inq'[r], Said(text))
                             + (IF r = s /\ x = text THEN 1 ELSE 0)
  <1>3. ASSUME NEW type, TookIt(s, type), place' \in [Everyone -> 0 .. MAX_SECTOR],
               dummyStatus' \in [Everyone -> Condition],
               stringCounter' \in [Everyone -> [Text -> Nat]],
               \A r \in Everyone : r # s => /\ dummyStatus'[r] = dummyStatus[r]
                                            /\ place'[r] = place[r],
               HomeOf(s)', FairOf(s) => FairOf(s)'
        PROVE  DummyBase' /\ \A r \in Everyone : FairOf(r) => FairOf(r)'
    <2>1. /\ inq' \in [Everyone -> Seq(MsgType)]
          /\ \A r \in Everyone : r # s => inq'[r] = inq[r]
      BY <1>3, TookDoes
    <2>2. UNCHANGED <<trust, action, complete, pc, doing, next, outq, at>>
      BY <1>2, <1>3
    <2>3. Ways'
      BY <1>1, <1>3, <2>1, <2>2 DEF Ways
    <2> QED
      BY <1>3, <2>1, <2>2, <2>3, DummyOne
  <1>4. ASSUME NEW type, TookIt(s, type), type # "LocalChat"
        PROVE  \A r \in Everyone : \A text :
                  /\ Those(inq'[r], Said(text)) = Those(inq[r], Said(text))
                  /\ Those(inq'[r], Said(text)) \in Nat
    <2> SUFFICES ASSUME NEW r \in Everyone, NEW text
                 PROVE  /\ Those(inq'[r], Said(text)) = Those(inq[r], Said(text))
                        /\ Those(inq'[r], Said(text)) \in Nat
      OBVIOUS
    <2>1. Those(inq[r], Said(text)) = Those(inq'[r], Said(text)) + 0
      <3>1. Those(inq[r], Said(text)) = Those(inq'[r], Said(text))
               + TookSaid(s, type, r, text)
        BY <1>4, TookDoes
      <3>2. TookSaid(s, type, r, text) = 0
        BY <1>4 DEF TookSaid
      <3> QED
        BY <3>1, <3>2
    <2>2. Those(inq'[r], Said(text)) \in Nat
      BY <1>4, TookDoes
    <2> QED
      BY <2>1, <2>2
  <1> HIDE DEF Goal
  <1>5. ASSUME TookIt(s, "CreateCharacter"), stringCounter' = stringCounter,
               place' = [place EXCEPT ![s] = Head(inq[s]).sector],
               dummyStatus' = [dummyStatus EXCEPT ![s] = 4]
        PROVE  Goal
    <2>1. /\ UNCHANGED <<trust, action, complete, pc, doing, next, outq, at>>
          /\ pc[Keeper(s)] = "frame" /\ inq[s] # <<>> /\ Head(inq[s]).type = "CreateCharacter"
      BY <1>2, <1>5
    <2>2. /\ inq'[s] = Tail(inq[s]) /\ Head(inq[s]) \in MsgType /\ ViewOf(s)
          /\ pc'[Keeper(s)] # "no"
          /\ Home(TRUE, dummyStatus[s], place[s], inq[s], outq[s], at[s])
      BY <1>5, TookDoes
    <2>3. /\ place' \in [Everyone -> 0 .. MAX_SECTOR] /\ place'[s] = Head(inq[s]).sector
          /\ \A r \in Everyone : r # s => place'[r] = place[r]
      <3>1. Head(inq[s]).sector \in 0 .. MAX_SECTOR
        BY <2>2 DEF MsgType
      <3> QED
        BY <1>1, <1>5, <3>1 DEF Ways
    <2>4. /\ dummyStatus' \in [Everyone -> Condition] /\ dummyStatus'[s] = 4
          /\ \A r \in Everyone : r # s => dummyStatus'[r] = dummyStatus[r]
      BY <1>1, <1>5 DEF Condition
    <2>5. /\ dummyStatus[s] = 3
          /\ Home(TRUE, 4, Head(inq[s]).sector, Tail(inq[s]), outq[s], at[s])
      BY <1>1, <2>1, <2>2, HomeTakes DEF ViewOf
    <2>6. HomeOf(s)'
      BY <2>1, <2>2, <2>3, <2>4, <2>5, HomeOpenNext
    <2>7. FairOf(s) => Fair(trust, 4, Head(inq[s]).sector, Tail(inq[s]), outq[s], at[s])
      BY <2>1, <2>2, <2>5, FairTakes DEF FairOf, ViewOf
    <2>8. FairOf(s) => FairOf(s)'
      BY <2>1, <2>2, <2>3, <2>4, <2>7 DEF FairOf
    <2>9. DummyBase' /\ \A r \in Everyone : FairOf(r) => FairOf(r)'
      BY <1>1, <1>3, <1>5, <2>3, <2>4, <2>6, <2>8
    <2> QED
      BY <1>4, <1>5, <2>1, <2>4, <2>5, <2>9 DEF Goal
  <1>6. ASSUME TookIt(s, "LocalChat"), dummyStatus' = dummyStatus, place' = place,
               IF trust THEN /\ stringCounter[s][Head(inq[s]).text] > 0
                             /\ Lowered(s, Head(inq[s]).text)
                        ELSE stringCounter' = stringCounter
        PROVE  Goal
    <2>1. /\ UNCHANGED <<trust, action, complete, pc, doing, next, outq, at>>
          /\ pc[Keeper(s)] = "frame" /\ inq[s] # <<>> /\ Head(inq[s]).type = "LocalChat"
      BY <1>2, <1>6
    <2>2. /\ inq'[s] = Tail(inq[s]) /\ Head(inq[s]) \in MsgType /\ ViewOf(s)
          /\ pc'[Keeper(s)] # "no"
          /\ Home(TRUE, dummyStatus[s], place[s], inq[s], outq[s], at[s])
      BY <1>6, TookDoes
    <2>3. Head(inq[s]).text \in Text
      BY <2>1, <2>2 DEF MsgType
    <2>4. stringCounter' \in [Everyone -> [Text -> Nat]]
      <3>1. CASE trust
        <4> DEFINE x == Head(inq[s]).text
        <4>1. PICK c : c = [stringCounter[s] EXCEPT ![x] = stringCounter[s][x] - 1]
          OBVIOUS
        <4>2. stringCounter[s] \in [Text -> Nat] /\ stringCounter[s][x] > 0
          BY <1>1, <1>6, <3>1
        <4>3. PICK k : k = stringCounter[s][x] - 1
          OBVIOUS
        <4>4. k \in Nat
          BY <2>3, <4>2, <4>3
        <4>5. c \in [Text -> Nat]
          BY <2>3, <4>1, <4>2, <4>3, <4>4
        <4>6. stringCounter' = [stringCounter EXCEPT ![s] = c]
          BY <1>6, <3>1, <4>1 DEF Lowered
        <4> QED
          BY <1>1, <4>5, <4>6
      <3>2. CASE ~trust
        BY <1>1, <1>6, <3>2
      <3> QED
        BY <3>1, <3>2
    <2>5. Home(TRUE, dummyStatus[s], place[s], Tail(inq[s]), outq[s], at[s])
      BY <1>1, <2>1, <2>2, HomeTakes DEF ViewOf
    <2>6. HomeOf(s)'
      BY <1>6, <2>1, <2>2, <2>5, HomeOpenNext
    <2>7. FairOf(s) => Fair(trust, dummyStatus[s], place[s], Tail(inq[s]), outq[s], at[s])
      BY <2>1, <2>2, FairTakes DEF FairOf, ViewOf
    <2>8. FairOf(s) => FairOf(s)'
      BY <1>6, <2>1, <2>2, <2>7 DEF FairOf
    <2>9. DummyBase' /\ \A r \in Everyone : FairOf(r) => FairOf(r)'
      <3>1. /\ place' \in [Everyone -> 0 .. MAX_SECTOR]
            /\ dummyStatus' \in [Everyone -> Condition]
            /\ \A r \in Everyone : r # s => /\ dummyStatus'[r] = dummyStatus[r]
                                            /\ place'[r] = place[r]
        BY <1>1, <1>6 DEF Ways
      <3> QED
        BY <1>3, <1>6, <2>4, <2>6, <2>8, <3>1
    <2>10. /\ \A r \in Everyone : \A text : Those(inq'[r], Said(text)) \in Nat
           /\ \/ /\ stringCounter' = stringCounter
                 /\ ~trust
              \/ \E x \in Text :
                     /\ Lowered(s, x)
                     /\ \A r \in Everyone : \A text :
                           Those(inq[r], Said(text)) = Those(inq'[r], Said(text))
                              + (IF r = s /\ x = text THEN 1 ELSE 0)
      <3>1. /\ \A r \in Everyone : \A text : Those(inq'[r], Said(text)) \in Nat
            /\ \A r \in Everyone : \A text :
                 Those(inq[r], Said(text)) = Those(inq'[r], Said(text))
                    + (IF r = s /\ Head(inq[s]).text = text THEN 1 ELSE 0)
        <4>1. PICK type : type = "LocalChat"
          OBVIOUS
        <4>2. TookIt(s, type)
          BY <1>6, <4>1
        <4>3. /\ \A r \in Everyone : \A text : Those(inq'[r], Said(text)) \in Nat
              /\ \A r \in Everyone : \A text :
                   Those(inq[r], Said(text)) = Those(inq'[r], Said(text))
                     + TookSaid(s, type, r, text)
          BY <4>2, TookDoes
        <4> QED
          BY <4>1, <4>3 DEF TookSaid
      <3> QED
        BY <1>6, <2>3, <3>1
    <2> QED
      BY <1>6, <2>1, <2>9, <2>10 DEF Goal
  <1>7. ASSUME NEW type, NEW st, NEW st2, TookIt(s, type), stringCounter' = stringCounter,
               dummyStatus' = [dummyStatus EXCEPT ![s] = st2], place' = place,
               \/ type = "MoveStopComplete" /\ st = 7 /\ st2 = 8
               \/ type = "ChatComplete" /\ st = 10 /\ st2 = 11
        PROVE  Goal
    <2>1. /\ UNCHANGED <<trust, action, complete, pc, doing, next, outq, at>>
          /\ pc[Keeper(s)] = "frame" /\ inq[s] # <<>> /\ Head(inq[s]).type = type
      BY <1>2, <1>7
    <2>2. /\ inq'[s] = Tail(inq[s]) /\ Head(inq[s]) \in MsgType /\ ViewOf(s)
          /\ pc'[Keeper(s)] # "no"
          /\ Home(TRUE, dummyStatus[s], place[s], inq[s], outq[s], at[s])
      BY <1>7, TookDoes
    <2>3. /\ dummyStatus' \in [Everyone -> Condition] /\ dummyStatus'[s] = st2
          /\ \A r \in Everyone : r # s => dummyStatus'[r] = dummyStatus[r]
      BY <1>1, <1>7 DEF Condition
    <2>4. Home(TRUE, st2, place[s], Tail(inq[s]), outq[s], at[s])
      <3>1. CASE type = "MoveStopComplete" /\ st2 = 8
        BY <1>1, <3>1, <2>1, <2>2, HomeTakes DEF ViewOf
      <3>2. CASE type = "ChatComplete" /\ st2 = 11
        BY <1>1, <3>2, <2>1, <2>2, HomeTakes DEF ViewOf
      <3> QED
        BY <1>7, <3>1, <3>2
    <2>5. HomeOf(s)'
      BY <1>7, <2>1, <2>2, <2>3, <2>4, HomeOpenNext
    <2>6. FairOf(s) => /\ Fair(trust, st2, place[s], Tail(inq[s]), outq[s], at[s])
                       /\ dummyStatus[s] = st
      <3>1. CASE type = "MoveStopComplete" /\ st = 7 /\ st2 = 8
        BY <3>1, <2>1, <2>2, FairTakes DEF FairOf, ViewOf
      <3>2. CASE type = "ChatComplete" /\ st = 10 /\ st2 = 11
        BY <3>2, <2>1, <2>2, FairTakes DEF FairOf, ViewOf
      <3> QED
        BY <1>7, <3>1, <3>2
    <2>7. FairOf(s) => FairOf(s)'
      BY <1>7, <2>1, <2>2, <2>3, <2>6 DEF FairOf
    <2>8. DummyBase' /\ \A r \in Everyone : FairOf(r) => FairOf(r)'
      <3>1. /\ place' \in [Everyone -> 0 .. MAX_SECTOR]
            /\ stringCounter' \in [Everyone -> [Text -> Nat]]
            /\ \A r \in Everyone : r # s => place'[r] = place[r]
        BY <1>1, <1>7 DEF Ways
      <3> QED
        BY <1>3, <1>7, <2>3, <2>5, <2>7, <3>1
    <2>9. \A r \in Everyone : \A text :
                  /\ Those(inq'[r], Said(text)) = Those(inq[r], Said(text))
                  /\ Those(inq'[r], Said(text)) \in Nat
      BY <1>4, <1>7
    <2> QED
      BY <1>7, <2>1, <2>3, <2>6, <2>8, <2>9 DEF Goal
  <1>8. Goal
    BY <1>1, <1>5, <1>6, <1>7, ReceiveKinds
  <1> QED
    BY <1>8 DEF Goal

(* What the server does.                                                    *)
LEMMA DummyAccepted ==
    ASSUME ProgramsAssumption, DummyBase, NEW s \in Everyone, D!Accepts(s)
    PROVE  /\ DummyBase'
           /\ \A r \in Everyone : FairOf(r) => FairOf(r)'
           /\ UNCHANGED <<trust, action, complete, pc, doing, next, dummyStatus, stringCounter, outq>>
           /\ dummyStatus[s] = 3
           /\ \A r \in Everyone : \A text :
                 Those(inq'[r], Said(text)) = Those(inq[r], Said(text))
  <1>1. /\ dummyStatus[s] = 3 /\ Accepting(s)
        /\ UNCHANGED <<trust, action, complete, pc, doing, next, dummyStatus, stringCounter>>
    BY DummyNames, DummyWay DEF D!Accepts, D!round
  <1>2. /\ CastTypes /\ Ways /\ HomeOf(s) /\ ViewOf(s) /\ MAX_SECTOR \in Nat /\ MaxOnWay \in Nat \ {0}
    BY DEF DummyBase, CastTypes, Ways, ViewOf, View, ProgramsAssumption
  <1>3. /\ Ways' /\ place' = place /\ outq' = outq /\ at[s] = 0 /\ at'[s] # 0
        /\ \A r \in Everyone :
              /\ r # s => at'[r] = at[r] /\ inq'[r] = inq[r]
              /\ Len(inq'[r]) = Len(inq[r]) + (IF r = s THEN 1 ELSE 0)
              /\ \A kind : Those(inq'[r], kind) = Those(inq[r], kind) +
                    (IF r = s THEN One(Placing("CreateCharacter", at'[s]), kind) ELSE 0)
        /\ Placing("CreateCharacter", at'[s]) \in MsgType
    BY <1>1, <1>2, AcceptingDoes
  <1> DEFINE m == Placing("CreateCharacter", at'[s])
  <1>4. /\ m \in MsgType /\ m.type = "CreateCharacter"
    BY <1>3 DEF Placing
  <1>5. \A kind : Those(inq'[s], kind) = Those(inq[s], kind) + One(m, kind)
    BY <1>3
  <1>6. Len(inq'[s]) = Len(inq[s]) + 1
    BY <1>3
  <1> HIDE DEF m
  <1>7. One(m, Of("CreateCharacter")) = 1 /\ One(m, Of("MoveStopComplete")) = 0
        /\ One(m, Of("ChatComplete")) = 0 /\ \A text : One(m, Said(text)) = 0
    BY <1>4, KindOf
  <1>8. pc[Keeper(s)] # "no" /\ Home(TRUE, 3, place[s], inq[s], outq[s], 0)
    BY <1>1, <1>2, <1>3 DEF HomeOf, Home
  <1>9. inq[s] = <<>>
    BY <1>8 DEF Home
  <1>10. \A kind : Those(inq[s], kind) = 0
    BY <1>9, EmptyWay
  <1>11. /\ Those(inq'[s], Of("CreateCharacter")) = 1
         /\ Those(inq'[s], Of("MoveStopComplete")) = 0
         /\ Those(inq'[s], Of("ChatComplete")) = 0
    BY <1>5, <1>7, <1>10
  <1>12. HomeOf(s)'
    <2>1. Home(TRUE, 3, place[s], inq'[s], outq[s], at'[s])
      BY <1>2, <1>3, <1>6, <1>8, <1>11, HomeAccepted
    <2> QED
      BY <1>1, <1>3, <1>8, <2>1, HomeOpenNext
  <1>13. FairOf(s) => FairOf(s)'
    <2>1. /\ Those(outq[s], Of("MoveStop")) + Those(inq'[s], Of("MoveStopComplete"))
               = Those(outq[s], Of("MoveStop")) + Those(inq[s], Of("MoveStopComplete"))
          /\ Those(outq[s], Of("ChatEnd")) + Those(inq'[s], Of("ChatComplete"))
               = Those(outq[s], Of("ChatEnd")) + Those(inq[s], Of("ChatComplete"))
      BY <1>10, <1>11
    <2>2. FairOf(s) => Fair(trust, 3, place[s], inq'[s], outq[s], at'[s])
      BY <1>1, <1>2, <2>1, FairAnswered DEF FairOf, ViewOf
    <2> QED
      BY <1>1, <1>3, <2>2 DEF FairOf
  <1>14. DummyBase' /\ \A r \in Everyone : FairOf(r) => FairOf(r)'
    <2>1. /\ dummyStatus' \in [Everyone -> Condition]
          /\ stringCounter' \in [Everyone -> [Text -> Nat]]
          /\ \A r \in Everyone : r # s =>
              /\ dummyStatus'[r] = dummyStatus[r] /\ place'[r] = place[r]
              /\ inq'[r] = inq[r] /\ outq'[r] = outq[r] /\ at'[r] = at[r]
      BY <1>1, <1>2, <1>3 DEF CastTypes
    <2>2. UNCHANGED <<trust, action, complete, pc, doing, next>> /\ Ways'
      BY <1>1, <1>3
    <2> QED
      BY <1>12, <1>13, <2>1, <2>2, DummyOne
  <1>15. ASSUME NEW r \in Everyone, NEW text
         PROVE  Those(inq'[r], Said(text)) = Those(inq[r], Said(text))
    <2>1. CASE r = s
      <3>1. Those(inq'[s], Said(text)) = 0 + 0
        BY <1>5, <1>7, <1>10
      <3> QED
        BY <1>10, <2>1, <3>1
    <2>2. CASE r # s
      BY <1>3, <2>2
    <2> QED
      BY <2>1, <2>2
  <1> QED
    BY <1>1, <1>3, <1>14, <1>15

LEMMA DummyAnswered ==
    ASSUME ProgramsAssumption, DummyBase, NEW s \in Everyone, D!Answers(s)
    PROVE  /\ DummyBase'
           /\ \A r \in Everyone : FairOf(r) => FairOf(r)'
           /\ UNCHANGED <<trust, action, complete, pc, doing, next, dummyStatus, stringCounter>>
           /\ outq[s] # <<>>
           /\ \A r \in Everyone :
              /\ outq'[r] = IF r = s THEN Tail(outq[s]) ELSE outq[r]
              /\ at'[r] = IF r = s /\ Head(outq[s]).sector # 0
                          THEN Head(outq[s]).sector ELSE at[r]
              /\ \A text : Those(inq'[r], Said(text)) = Those(inq[r], Said(text))
                    + (IF r \in Near(s) THEN One(Head(outq[s]), Said(text)) ELSE 0)
  <1>1. /\ Answering(s)
        /\ UNCHANGED <<trust, action, complete, pc, doing, next, dummyStatus, stringCounter>>
    BY DummyWay DEF D!Answers, D!round
  <1>2. /\ RoundTypes /\ CastTypes /\ Ways /\ MAX_SECTOR \in Nat /\ MaxOnWay \in Nat
        /\ \A r \in Everyone : HomeOf(r) /\ ViewOf(r)
    BY DEF DummyBase, CastTypes, Ways, ViewOf, View, ProgramsAssumption
  <1>3. /\ Ways' /\ place' = place
        /\ \A r \in Everyone :
              /\ outq'[r] = IF r = s THEN Tail(outq[s]) ELSE outq[r]
              /\ at'[r] = IF r = s /\ Head(outq[s]).sector # 0
                          THEN Head(outq[s]).sector ELSE at[r]
              /\ Len(inq[r]) <= MaxOnWay => Len(inq'[r]) <= MaxOnWay
              /\ inq'[r] # inq[r] => r = s \/ r \in Near(s)
              /\ Those(outq'[r], Of("MoveStop")) + Those(inq'[r], Of("MoveStopComplete"))
                   = Those(outq[r], Of("MoveStop")) + Those(inq[r], Of("MoveStopComplete"))
              /\ Those(outq'[r], Of("ChatEnd")) + Those(inq'[r], Of("ChatComplete"))
                   = Those(outq[r], Of("ChatEnd")) + Those(inq[r], Of("ChatComplete"))
              /\ Those(inq'[r], Of("CreateCharacter")) = Those(inq[r], Of("CreateCharacter"))
              /\ \A text : Those(inq'[r], Said(text)) = Those(inq[r], Said(text))
                    + (IF r \in Near(s) THEN One(Head(outq[s]), Said(text)) ELSE 0)
    BY <1>1, <1>2, AnsweringDoes
  <1>4. outq[s] # <<>>
    BY <1>1 DEF Answering
  <1>5. CastTypes' /\ RoundTypes'
    BY <1>1, <1>2, <1>3 DEF CastTypes, RoundTypes
  <1>6. ASSUME NEW r \in Everyone
        PROVE  HomeOf(r)' /\ (FairOf(r) => FairOf(r)')
    <2>1. PICK bg, st, p, in, in2, out, out2, a, b :
             /\ bg = (pc[Keeper(r)] # "no") /\ st = dummyStatus[r] /\ p = place[r]
             /\ in = inq[r] /\ in2 = inq'[r] /\ out = outq[r] /\ out2 = outq'[r]
             /\ a = at[r] /\ b = at'[r]
      OBVIOUS
    <2>2. View(st, p, in, out, a) /\ Home(bg, st, p, in, out, a)
      BY <1>2, <2>1 DEF ViewOf, HomeOf
    <2>3. View(st, p, in2, out2, b)
      BY <1>3, <2>1, <2>2 DEF View, Ways
    <2>4. Len(in) <= MaxOnWay /\ (a = 0 => in = <<>> /\ out = <<>>)
      BY <2>2 DEF Home
    <2>5. Len(in2) <= MaxOnWay
      BY <1>3, <2>1, <2>4
    <2>6. a = 0 => b = 0 /\ in2 = in /\ out2 = out
      <3> SUFFICES ASSUME a = 0
                   PROVE  b = 0 /\ in2 = in /\ out2 = out
        OBVIOUS
      <3>1. r # s
        BY <1>4, <2>1, <2>4
      <3>2. r \notin Near(s)
        BY <1>2, <2>1 DEF Near, Beside
      <3> QED
        BY <1>3, <2>1, <3>1, <3>2
    <2>7. a # 0 => b # 0
      BY <1>3, <2>1
    <2>8. out = <<>> => out2 = <<>>
      BY <1>3, <1>4, <2>1
    <2>9. /\ Those(in2, Of("CreateCharacter")) = Those(in, Of("CreateCharacter"))
          /\ Those(out2, Of("MoveStop")) + Those(in2, Of("MoveStopComplete"))
               = Those(out, Of("MoveStop")) + Those(in, Of("MoveStopComplete"))
          /\ Those(out2, Of("ChatEnd")) + Those(in2, Of("ChatComplete"))
               = Those(out, Of("ChatEnd")) + Those(in, Of("ChatComplete"))
      BY <1>3, <2>1
    <2>10. Home(bg, st, p, in2, out2, b)
      BY <2>2, <2>3, <2>5, <2>6, <2>7, <2>8, <2>9, HomeAnswered
    <2>11. HomeOf(r)'
      BY <1>1, <1>3, <2>1, <2>10 DEF HomeOf
    <2>12. \/ out2 = out /\ (b = a \/ st \in {0, 1, 3})
           \/ /\ out # <<>> /\ out2 = Tail(out)
              /\ b = IF Head(out).sector # 0 THEN Head(out).sector ELSE a
      <3>1. CASE r = s
        BY <1>3, <1>4, <2>1, <3>1
      <3>2. CASE r # s
        BY <1>3, <2>1, <3>2
      <3> QED
        BY <3>1, <3>2
    <2>13. p = 0 => st \notin {7}
      BY <2>2 DEF Home
    <2>14. Fair(trust, st, p, in, out, a) => Fair(trust, st, p, in2, out2, b)
      BY <2>2, <2>9, <2>12, <2>13, FairAnswered
    <2>15. FairOf(r) => FairOf(r)'
      BY <1>1, <1>3, <2>1, <2>14 DEF FairOf
    <2> QED
      BY <2>11, <2>15
  <1> QED
    BY <1>1, <1>3, <1>4, <1>5, <1>6 DEF DummyBase

(* The round with g_trustMode: the threads complete one action after the     *)
(* other together.                                                         *)
Late == {"scan", "change", "reset"}
Changed == \E u \in Crew : pc[u] = "reset" /\ complete[u] = 1
Lap ==
    /\ \A t \in Crew : complete[t] \in {0, 1}
    /\ \A t \in Crew : pc[t] = "no" => complete[t] = 0 /\ action = "CONNECT"
    /\ \A t \in Crew : pc[t] # "scan" => next[t] = 1
    /\ \A t \in Crew : pc[t] = "scan" /\ complete[t] = 1 =>
          \A u \in Crew : u < next[t] => complete[u] = 1
    /\ \A t \in Crew : pc[t] \in {"change", "reset"} /\ complete[t] = 1 =>
          \A u \in Crew : complete[u] = 1
    /\ \A t \in Crew : complete[t] = 1 =>
          doing[t] \in Deed /\ (IF Changed THEN NextDeed[doing[t]] = action ELSE doing[t] = action)
    /\ \A t \in Crew : complete[t] = 0 /\ pc[t] \in Late => NextDeed[doing[t]] = action

Beginning(t) ==
    /\ pc[t] = "no" /\ pc' = [pc EXCEPT ![t] = "frame"]
    /\ complete' = [complete EXCEPT ![t] = 0]
    /\ UNCHANGED <<action, doing, next>>
Turning2(t) == /\ pc[t] = "frame" /\ complete[t] = 0 /\ action' = action
               /\ Completing(t)

(* Lap after what a thread can do.                                          *)
LEMMA LapStays ==
    ASSUME Lap, UNCHANGED <<action, complete, pc, doing, next>>
    PROVE  Lap'
  BY DEF Lap, Changed

LEMMA LapBegins ==
    ASSUME RoundTypes, Lap, NEW t \in Crew, Beginning(t)
    PROVE  Lap'
  <1>1. /\ pc[t] = "no" /\ complete[t] = 0 /\ complete' = complete /\ action' = action
        /\ doing' = doing /\ next' = next /\ pc'[t] = "frame"
        /\ \A u \in Crew : u # t => pc'[u] = pc[u]
    BY DEF RoundTypes, Lap, Beginning
  <1>2. next[t] = 1
    BY <1>1 DEF Lap
  <1>3. Changed' <=> Changed
    BY <1>1 DEF Changed
  <1> QED
    BY <1>1, <1>2, <1>3 DEF Lap, Late

LEMMA LapTurns ==
    ASSUME RoundTypes, Lap, NEW t \in Crew, Turning2(t)
    PROVE  Lap' /\ ~Changed /\ ~Changed'
  <1>1. /\ pc[t] = "frame" /\ complete[t] = 0 /\ action' = action /\ next' = next
        /\ complete'[t] = 1 /\ doing'[t] = action /\ pc'[t] = "scan"
        /\ \A u \in Crew : u # t => /\ pc'[u] = pc[u] /\ complete'[u] = complete[u]
                                    /\ doing'[u] = doing[u]
        /\ action \in Deed
    BY DEF RoundTypes, Completing, Turning2
  <1>2. ~Changed
    BY <1>1 DEF Lap, Changed
  <1>3. ~Changed'
    <2>1. \A u \in Crew : pc'[u] = "reset" /\ complete'[u] = 1 =>
             pc[u] = "reset" /\ complete[u] = 1
      BY <1>1
    <2> QED
      BY <1>2, <2>1 DEF Changed
  <1>4. next[t] = 1 /\ \A u \in Crew : ~(u < 1)
    BY <1>1 DEF Lap, Crew
  <1>5. \A u \in Crew : complete'[u] \in {0, 1}
    BY <1>1 DEF Lap
  <1>6. \A u \in Crew : pc'[u] = "no" => complete'[u] = 0 /\ action' = "CONNECT"
    BY <1>1 DEF Lap
  <1>7. \A u \in Crew : pc'[u] # "scan" => next'[u] = 1
    BY <1>1 DEF Lap
  <1>8. \A u \in Crew : pc'[u] = "scan" /\ complete'[u] = 1 =>
          \A v \in Crew : v < next'[u] => complete'[v] = 1
    <2> SUFFICES ASSUME NEW u \in Crew, pc'[u] = "scan", complete'[u] = 1,
                        NEW v \in Crew, v < next'[u]
                 PROVE  complete'[v] = 1
      OBVIOUS
    <2>1. CASE v = t
      BY <1>1, <2>1
    <2>2. CASE v # t
      <3>1. u # t
        BY <1>1, <1>4
      <3> QED
        BY <1>1, <2>2, <3>1 DEF Lap
    <2> QED
      BY <2>1, <2>2
  <1>9. \A u \in Crew : pc'[u] \in {"change", "reset"} /\ complete'[u] = 1 =>
          \A v \in Crew : complete'[v] = 1
    BY <1>1 DEF Lap
  <1>10. \A u \in Crew : complete'[u] = 1 => doing'[u] \in Deed /\ doing'[u] = action'
    BY <1>1, <1>2 DEF Lap
  <1>11. \A u \in Crew : complete'[u] = 0 /\ pc'[u] \in Late => NextDeed[doing'[u]] = action'
    BY <1>1 DEF Lap
  <1> QED
    BY <1>2, <1>3, <1>5, <1>6, <1>7, <1>8, <1>9, <1>10, <1>11 DEF Lap

LEMMA LapScans ==
    ASSUME ProgramsAssumption, RoundTypes, Lap, NEW t \in Crew, Scanning(t)
    PROVE  Lap' /\ (Changed' <=> Changed)
  <1>1. /\ pc[t] = "scan" /\ action' = action /\ complete' = complete /\ doing' = doing
    BY DEF Scanning
  <1>2. PICK n : n = next[t] /\ n \in Nat
    BY DEF RoundTypes
  <1>3. CASE n <= CrewSize /\ complete[n] # 0
    <2>1. /\ next'[t] = n + 1 /\ pc' = pc
          /\ \A u \in Crew : u # t => next'[u] = next[u]
      BY <1>2, <1>3 DEF Scanning, RoundTypes
    <2>2. complete[t] = 1 => \A u \in Crew : u < n + 1 => complete[u] = 1
      <3> SUFFICES ASSUME complete[t] = 1, NEW u \in Crew, u < n + 1
                   PROVE  complete[u] = 1
        OBVIOUS
      <3>1. u < n \/ u = n
        BY <1>2 DEF Crew
      <3>2. u < n => complete[u] = 1
        BY <1>1, <1>2 DEF Lap
      <3> QED
        BY <1>3, <3>1, <3>2 DEF Lap
    <2>3. Changed' <=> Changed
      BY <1>1, <2>1 DEF Changed
    <2>4. \A u \in Crew : pc'[u] = "scan" /\ complete'[u] = 1 =>
          \A v \in Crew : v < next'[u] => complete'[v] = 1
      BY <1>1, <2>1, <2>2 DEF Lap
    <2>5. \A u \in Crew : pc'[u] # "scan" => next'[u] = 1
      BY <1>1, <2>1 DEF Lap
    <2> QED
      BY <1>1, <2>1, <2>3, <2>4, <2>5 DEF Lap
  <1>4. CASE ~(n <= CrewSize /\ complete[n] # 0)
    <2>1. /\ pc'[t] = IF n > CrewSize THEN "change" ELSE "frame"
          /\ next'[t] = 1
          /\ \A u \in Crew : u # t => next'[u] = next[u] /\ pc'[u] = pc[u]
      BY <1>2, <1>4 DEF Scanning, RoundTypes
    <2>2. Changed' <=> Changed
      <3>1. \A u \in Crew : pc'[u] = "reset" <=> pc[u] = "reset"
        BY <1>1, <2>1
      <3> QED
        BY <1>1, <3>1 DEF Changed
    <2>3. \A u \in Crew : pc'[u] \in {"change", "reset"} /\ complete'[u] = 1 =>
             \A v \in Crew : complete'[v] = 1
      <3> SUFFICES ASSUME NEW u \in Crew, pc'[u] \in {"change", "reset"}, complete[u] = 1,
                          NEW v \in Crew
                   PROVE  complete[v] = 1
        BY <1>1
      <3>1. CASE u # t
        BY <2>1, <3>1 DEF Lap
      <3>2. CASE u = t
        <4>1. n > CrewSize
          BY <2>1, <3>2
        <4>2. v < n
          <5>1. v \in Nat /\ v <= CrewSize /\ CrewSize \in Int
            <6>1. CrewSize \in Nat
              BY CrewFacts
            <6> QED
              BY <6>1 DEF Crew
          <5> QED
            BY <1>2, <4>1, <5>1
        <4> QED
          BY <1>1, <1>2, <3>2, <4>2 DEF Lap
      <3> QED
        BY <3>1, <3>2
    <2>4. \A u \in Crew : pc'[u] # "scan" => next'[u] = 1
      BY <1>1, <2>1 DEF Lap
    <2>5. \A u \in Crew : pc'[u] = "scan" => u # t /\ pc[u] = "scan" /\ next'[u] = next[u]
      BY <1>1, <2>1
    <2>6. \A u \in Crew : /\ pc'[u] = "no" => pc[u] = "no"
                          /\ pc'[u] \in Late => pc[u] \in Late
      BY <1>1, <2>1 DEF Late
    <2>7. \A u \in Crew : pc'[u] = "scan" /\ complete'[u] = 1 =>
          \A v \in Crew : v < next'[u] => complete'[v] = 1
      BY <1>1, <2>5 DEF Lap
    <2> QED
      BY <1>1, <2>2, <2>3, <2>4, <2>6, <2>7 DEF Lap
  <1> QED
    BY <1>3, <1>4

LEMMA LapChanges ==
    ASSUME RoundTypes, Lap, NEW t \in Crew, Changing(t)
    PROVE  /\ Lap'
           /\ \/ complete' = complete /\ (action' = action \/ \A u \in Crew : complete[u] = 1)
              \/ /\ \A u \in Crew : /\ complete[u] = 1 /\ complete'[u] = 0 /\ doing[u] \in Deed
                                    /\ NextDeed[doing[u]] = action
                 /\ action' = action
           /\ \A u \in Crew : pc'[u] = "no" <=> pc[u] = "no"
  <1>1. CASE /\ pc[t] = "change" /\ pc' = [pc EXCEPT ![t] = "reset"]
             /\ action' = NextDeed[doing[t]] /\ complete' = complete
    <2>1. /\ pc'[t] = "reset" /\ doing' = doing /\ next' = next
          /\ \A u \in Crew : u # t => pc'[u] = pc[u]
      BY <1>1 DEF Changing, RoundTypes
    <2>2. \A u \in Crew : pc'[u] = "no" <=> pc[u] = "no"
      BY <1>1, <2>1
    <2>3. CASE complete[t] = 1
      <3>1. \A u \in Crew : complete[u] = 1
        BY <1>1, <2>3 DEF Lap
      <3>2. Changed'
        BY <1>1, <2>1, <2>3 DEF Changed
      <3>3. \A u \in Crew : doing[u] \in Deed /\ NextDeed[doing[u]] = action'
        <4>1. CASE Changed
          BY <1>1, <3>1, <4>1 DEF Lap
        <4>2. CASE ~Changed
          BY <1>1, <3>1, <4>2 DEF Lap
        <4> QED
          BY <4>1, <4>2
      <3>4. \A u \in Crew : complete'[u] = 1 /\ complete'[u] # 0
        BY <1>1, <3>1
      <3>5. \A u \in Crew : pc'[u] # "scan" => next'[u] = 1
        BY <1>1, <2>1 DEF Lap
      <3>6. \A u \in Crew : pc'[u] # "no"
        BY <2>2, <3>1 DEF Lap
      <3>7. Lap'
        BY <2>1, <3>2, <3>3, <3>4, <3>5, <3>6 DEF Lap
      <3> QED
        BY <1>1, <2>2, <3>1, <3>7
    <2>4. CASE complete[t] # 1
      <3>1. complete[t] = 0 /\ action' = action
        BY <1>1, <2>4 DEF Lap, Late
      <3>2. Changed' <=> Changed
        <4>1. \A u \in Crew : (pc'[u] = "reset" /\ complete'[u] = 1)
                                  <=> (pc[u] = "reset" /\ complete[u] = 1)
          BY <1>1, <2>1, <3>1
        <4> QED
          BY <4>1 DEF Changed
      <3>3. \A u \in Crew : /\ pc'[u] = "scan" => pc[u] = "scan"
                            /\ pc'[u] \in Late => pc[u] \in Late
                            /\ pc'[u] \in {"change", "reset"} => pc[u] \in {"change", "reset"}
                            /\ pc'[u] # "scan" => pc[u] # "scan"
        BY <1>1, <2>1 DEF Late
      <3>4. Lap'
        BY <1>1, <2>1, <2>2, <3>1, <3>2, <3>3 DEF Lap
      <3> QED
        BY <1>1, <2>2, <3>1, <3>4
    <2> QED
      BY <2>3, <2>4
  <1>2. CASE /\ pc[t] = "reset" /\ pc' = [pc EXCEPT ![t] = "frame"]
             /\ complete' = (IF complete[t] = 1 THEN [u \in Crew |-> 0] ELSE complete)
             /\ action' = action
    <2>1. /\ pc'[t] = "frame" /\ doing' = doing /\ next' = next
          /\ \A u \in Crew : u # t => pc'[u] = pc[u]
      BY <1>2 DEF Changing, RoundTypes
    <2>2. \A u \in Crew : pc'[u] = "no" <=> pc[u] = "no"
      BY <1>2, <2>1
    <2>3. \A u \in Crew : /\ pc'[u] = "scan" => pc[u] = "scan"
                          /\ pc'[u] \in Late => pc[u] \in Late
                          /\ pc'[u] \in {"change", "reset"} => pc[u] \in {"change", "reset"}
                          /\ pc'[u] # "scan" => pc[u] # "scan"
      BY <1>2, <2>1 DEF Late
    <2>4. CASE complete[t] = 1
      <3>1. Changed /\ \A u \in Crew : complete[u] = 1
        BY <1>2, <2>4 DEF Lap, Changed
      <3>2. \A u \in Crew : complete'[u] = 0 /\ complete'[u] # 1
        BY <1>2, <2>4
      <3>3. \A u \in Crew : doing[u] \in Deed /\ NextDeed[doing[u]] = action
        BY <3>1 DEF Lap
      <3>4. \A u \in Crew : pc'[u] # "no"
        BY <2>2, <3>1 DEF Lap
      <3>5. \A u \in Crew : pc'[u] # "scan" => next'[u] = 1
        BY <2>1, <2>3 DEF Lap
      <3>6. Lap'
        BY <1>2, <2>1, <3>2, <3>3, <3>4, <3>5 DEF Lap
      <3> QED
        BY <1>2, <2>2, <3>1, <3>2, <3>3, <3>6
    <2>5. CASE complete[t] # 1
      <3>1. complete' = complete
        BY <1>2, <2>5
      <3>2. Changed' <=> Changed
        <4>1. \A u \in Crew : (pc'[u] = "reset" /\ complete'[u] = 1)
                                  <=> (pc[u] = "reset" /\ complete[u] = 1)
          BY <1>2, <2>1, <2>5, <3>1
        <4> QED
          BY <4>1 DEF Changed
      <3>3. Lap'
        BY <1>2, <2>1, <2>2, <2>3, <3>1, <3>2 DEF Lap
      <3> QED
        BY <1>2, <2>2, <3>1, <3>3
    <2> QED
      BY <2>4, <2>5
  <1> QED
    BY <1>1, <1>2 DEF Changing

(* What a session's status is in an action, and when its thread has          *)
(* completed it.                                                           *)
Within == [CONNECT |-> {1, 3, 4}, MOVE |-> {4, 6}, MOVESTOP |-> {6, 7, 8},
           SENDCHATMSG |-> {8, 9, 10, 11}, CHECKCHATMSG |-> {11}, CHECKDISCONNECT |-> {4}]
Post == [CONNECT |-> {4}, MOVE |-> {6}, MOVESTOP |-> {8}, SENDCHATMSG |-> {11},
         CHECKCHATMSG |-> {4}, CHECKDISCONNECT |-> {1, 4}]
AlongOf(s) ==
    /\ complete[Keeper(s)] = 1 => dummyStatus[s] \in Post[doing[Keeper(s)]]
    /\ complete[Keeper(s)] = 0 => IF pc[Keeper(s)] = "no" THEN dummyStatus[s] = 0
                                                          ELSE dummyStatus[s] \in Within[action]
Along == \A s \in Everyone : AlongOf(s)

(* The states a turn leaves are states the next starts from.                *)
LEMMA PostWithin ==
    ASSUME NEW d \in Deed
    PROVE  NextDeed[d] \in Deed /\ Post[d] \subseteq Within[NextDeed[d]]
  BY DEF Deed, NextDeed, Post, Within

(* The state of one session tells what the round is at.                     *)
LEMMA StatusShows ==
    ASSUME ProgramsAssumption, RoundTypes, Lap, Along, NEW s \in Everyone
    PROVE  /\ dummyStatus[s] = 3 => /\ complete[Keeper(s)] = 0 /\ action = "CONNECT"
                                    /\ pc[Keeper(s)] # "no"
           /\ dummyStatus[s] = 7 => /\ complete[Keeper(s)] = 0 /\ action = "MOVESTOP"
                                    /\ pc[Keeper(s)] # "no"
           /\ dummyStatus[s] \in {9, 10} =>
                 /\ complete[Keeper(s)] = 0 /\ action = "SENDCHATMSG" /\ pc[Keeper(s)] # "no"
  <1>1. Keeper(s) \in Crew
    BY CrewFacts
  <1>2. complete[Keeper(s)] \in {0, 1} /\ action \in Deed
    BY <1>1 DEF Lap, RoundTypes
  <1>3. CASE complete[Keeper(s)] = 1
    <2>1. doing[Keeper(s)] \in Deed /\ dummyStatus[s] \in Post[doing[Keeper(s)]]
      BY <1>1, <1>3 DEF Lap, Along, AlongOf
    <2>2. dummyStatus[s] \in {1, 4, 6, 8, 11}
      BY <2>1 DEF Deed, Post
    <2> QED
      BY <2>2
  <1>4. CASE complete[Keeper(s)] = 0
    <2>1. CASE pc[Keeper(s)] = "no"
      BY <1>4, <2>1 DEF Along, AlongOf
    <2>2. CASE pc[Keeper(s)] # "no"
      <3>1. dummyStatus[s] \in Within[action]
        BY <1>4, <2>2 DEF Along, AlongOf
      <3> QED
        BY <1>2, <1>4, <2>2, <3>1 DEF Deed, Within
    <2> QED
      BY <2>1, <2>2
  <1> QED
    BY <1>2, <1>3, <1>4

(* While somebody talks nobody is anywhere else.                           *)
LEMMA AllTalk ==
    ASSUME ProgramsAssumption, RoundTypes, Lap, Along, action = "SENDCHATMSG",
           NEW t \in Crew, complete[t] = 0
    PROVE  \A s \in Everyone : dummyStatus[s] \in {8, 9, 10, 11}
  <1> SUFFICES ASSUME NEW s \in Everyone
               PROVE  dummyStatus[s] \in {8, 9, 10, 11}
    OBVIOUS
  <1>1. Keeper(s) \in Crew /\ complete[Keeper(s)] \in {0, 1}
    BY CrewFacts DEF Lap
  <1>2. ~Changed
    BY DEF Lap, Changed
  <1>3. CASE complete[Keeper(s)] = 1
    <2>1. doing[Keeper(s)] = "SENDCHATMSG"
      BY <1>1, <1>2, <1>3 DEF Lap
    <2> QED
      BY <1>3, <2>1 DEF Along, AlongOf, Post
  <1>4. CASE complete[Keeper(s)] = 0
    <2>1. pc[Keeper(s)] # "no"
      BY <1>1 DEF Lap
    <2> QED
      BY <1>4, <2>1 DEF Along, AlongOf, Within
  <1> QED
    BY <1>1, <1>3, <1>4

(* When one session talks, all threads are past stopping.                   *)
LEMMA TalkersTalk ==
    ASSUME ProgramsAssumption, RoundTypes, Lap, Along, NEW u \in Everyone,
           dummyStatus[u] \in {9, 10}
    PROVE  \A s \in Everyone : dummyStatus[s] \in {8, 9, 10, 11}
  <1>1. complete[Keeper(u)] = 0 /\ action = "SENDCHATMSG" /\ Keeper(u) \in Crew
    BY StatusShows, CrewFacts
  <1> QED
    BY <1>1, AllTalk

-----------------------------------------------------------------------------
(* Along after what a thread can do.                                        *)
LEMMA AlongStays ==
    ASSUME Along, UNCHANGED <<action, complete, pc, doing, dummyStatus>>
    PROVE  Along'
  BY DEF Along, AlongOf

LEMMA AlongScans ==
    ASSUME ProgramsAssumption, RoundTypes, Along, NEW t \in Crew, Scanning(t)
    PROVE  Along'
  <1>1. /\ action' = action /\ complete' = complete /\ doing' = doing /\ dummyStatus' = dummyStatus
        /\ \A u \in Crew : pc'[u] = "no" <=> pc[u] = "no"
    <2>1. CASE next[t] <= CrewSize /\ complete[next[t]] # 0
      BY <2>1 DEF Scanning
    <2>2. CASE ~(next[t] <= CrewSize /\ complete[next[t]] # 0)
      BY <2>2 DEF Scanning, RoundTypes
    <2> QED
      BY <2>1, <2>2
  <1>2. \A s \in Everyone : Keeper(s) \in Crew
    BY CrewFacts
  <1> QED
    BY <1>1, <1>2 DEF Along, AlongOf

LEMMA AlongBegins ==
    ASSUME ProgramsAssumption, RoundTypes, Lap, Along, NEW t \in Crew, Beginning(t),
           dummyStatus' = [s \in Everyone |-> IF Keeper(s) = t THEN 1 ELSE dummyStatus[s]]
    PROVE  Along'
  <1>1. /\ complete[t] = 0 /\ action = "CONNECT" /\ pc[t] = "no"
        /\ action' = action /\ doing' = doing /\ complete' = complete
        /\ pc'[t] = "frame" /\ \A u \in Crew : u # t => pc'[u] = pc[u]
    BY DEF Beginning, Lap, RoundTypes
  <1>2. ASSUME NEW s \in Everyone
        PROVE  AlongOf(s)'
    <2>1. Keeper(s) \in Crew
      BY CrewFacts
    <2>2. CASE Keeper(s) = t
      <3>1. dummyStatus'[s] = 1 /\ 1 \in Within["CONNECT"]
        BY <2>2 DEF Within
      <3> QED
        BY <1>1, <2>2, <3>1 DEF AlongOf
    <2>3. CASE Keeper(s) # t
      <3>1. dummyStatus'[s] = dummyStatus[s] /\ AlongOf(s) /\ pc'[Keeper(s)] = pc[Keeper(s)]
        BY <1>1, <2>1, <2>3 DEF Along
      <3> QED
        BY <1>1, <3>1 DEF AlongOf
    <2> QED
      BY <2>2, <2>3
  <1> QED
    BY <1>2 DEF Along

LEMMA AlongChanges ==
    ASSUME ProgramsAssumption, RoundTypes, Lap, Along, NEW t \in Crew, Changing(t)
    PROVE  Along'
  <1>1. /\ \/ complete' = complete /\ (action' = action \/ \A u \in Crew : complete[u] = 1)
           \/ /\ \A u \in Crew : /\ complete[u] = 1 /\ complete'[u] = 0 /\ doing[u] \in Deed
                                 /\ NextDeed[doing[u]] = action
              /\ action' = action
        /\ \A u \in Crew : pc'[u] = "no" <=> pc[u] = "no"
    BY LapChanges
  <1>2. dummyStatus' = dummyStatus /\ doing' = doing
    BY DEF Changing
  <1>3. ASSUME NEW s \in Everyone
        PROVE  AlongOf(s)'
    <2>1. Keeper(s) \in Crew /\ AlongOf(s)
      BY CrewFacts DEF Along
    <2>2. CASE complete' = complete /\ (action' = action \/ \A u \in Crew : complete[u] = 1)
      BY <1>1, <1>2, <2>1, <2>2 DEF AlongOf
    <2>3. CASE /\ \A u \in Crew : /\ complete[u] = 1 /\ complete'[u] = 0 /\ doing[u] \in Deed
                                  /\ NextDeed[doing[u]] = action
               /\ action' = action
      <3>1. dummyStatus[s] \in Post[doing[Keeper(s)]]
        BY <2>1, <2>3 DEF AlongOf
      <3>2. dummyStatus[s] \in Within[action]
        BY <2>1, <2>3, <3>1, PostWithin
      <3>3. pc'[Keeper(s)] # "no"
        BY <1>1, <2>1, <2>3 DEF Lap
      <3> QED
        BY <1>2, <2>1, <2>3, <3>2, <3>3 DEF AlongOf
    <2> QED
      BY <1>1, <2>2, <2>3
  <1> QED
    BY <1>3 DEF Along

(* A step of an action.                                                    *)
Doing(t) ==
    /\ pc[t] = "frame" /\ complete[t] = 0 /\ trust /\ action' = action
    /\ \A s \in Everyone : Keeper(s) # t => dummyStatus'[s] = dummyStatus[s]
    /\ \/ Staying /\ \A s \in Everyone : Keeper(s) = t => dummyStatus'[s] \in Within[action]
       \/ Completing(t) /\ \A s \in Everyone : Keeper(s) = t => dummyStatus'[s] \in Post[action]

LEMMA AlongDoes ==
    ASSUME ProgramsAssumption, RoundTypes, Lap, Along, NEW t \in Crew, Doing(t)
    PROVE  Lap' /\ Along'
  <1>1. CASE Staying /\ \A s \in Everyone : Keeper(s) = t => dummyStatus'[s] \in Within[action]
    <2>1. Lap'
      BY <1>1, LapStays DEF Staying, Doing
    <2>2. ASSUME NEW s \in Everyone
          PROVE  AlongOf(s)'
      <3>1. action' = action /\ complete' = complete /\ pc' = pc /\ doing' = doing
        BY <1>1 DEF Staying, Doing
      <3>2. CASE Keeper(s) = t
        BY <1>1, <3>1, <3>2 DEF AlongOf, Doing
      <3>3. CASE Keeper(s) # t
        <4>1. AlongOf(s) /\ dummyStatus'[s] = dummyStatus[s]
          BY <3>3 DEF Along, Doing
        <4> QED
          BY <3>1, <4>1 DEF AlongOf
      <3> QED
        BY <3>2, <3>3
    <2> QED
      BY <2>1, <2>2 DEF Along
  <1>2. CASE Completing(t) /\ \A s \in Everyone : Keeper(s) = t => dummyStatus'[s] \in Post[action]
    <2>1. Lap'
      BY <1>2, LapTurns DEF Turning2, Doing
    <2>2. /\ complete'[t] = 1 /\ doing'[t] = action /\ pc'[t] = "scan" /\ action' = action
          /\ \A u \in Crew : u # t => /\ pc'[u] = pc[u] /\ complete'[u] = complete[u]
                                      /\ doing'[u] = doing[u]
      BY <1>2 DEF RoundTypes, Completing, Doing
    <2>3. ASSUME NEW s \in Everyone
          PROVE  AlongOf(s)'
      <3>1. Keeper(s) \in Crew
        BY CrewFacts
      <3>2. CASE Keeper(s) = t
        BY <1>2, <2>2, <3>2 DEF AlongOf
      <3>3. CASE Keeper(s) # t
        <4>1. AlongOf(s) /\ dummyStatus'[s] = dummyStatus[s]
          BY <3>3 DEF Along, Doing
        <4> QED
          BY <2>2, <3>1, <3>3, <4>1 DEF AlongOf
      <3> QED
        BY <3>2, <3>3
    <2> QED
      BY <2>1, <2>3 DEF Along
  <1> QED
    BY <1>1, <1>2 DEF Doing

(* A step of one session that takes a message.                             *)
LEMMA AlongTakes ==
    ASSUME ProgramsAssumption, RoundTypes, Lap, Along, NEW s \in Everyone,
           UNCHANGED <<action, complete, pc, doing, next>>,
           \A r \in Everyone : r # s => dummyStatus'[r] = dummyStatus[r],
           \/ dummyStatus'[s] = dummyStatus[s]
           \/ dummyStatus[s] = 3 /\ dummyStatus'[s] = 4
           \/ dummyStatus[s] = 7 /\ dummyStatus'[s] = 8
           \/ dummyStatus[s] = 10 /\ dummyStatus'[s] = 11
    PROVE  Lap' /\ Along'
  <1>1. Lap'
    BY LapStays
  <1>2. ASSUME NEW r \in Everyone
        PROVE  AlongOf(r)'
    <2>1. CASE dummyStatus'[r] = dummyStatus[r]
      BY <2>1 DEF Along, AlongOf
    <2>2. CASE dummyStatus'[r] # dummyStatus[r]
      <3>1. r = s
        BY <2>2
      <3>2. /\ complete[Keeper(s)] = 0 /\ pc[Keeper(s)] # "no"
            /\ \/ action = "CONNECT" /\ dummyStatus'[s] = 4
               \/ action = "MOVESTOP" /\ dummyStatus'[s] = 8
               \/ action = "SENDCHATMSG" /\ dummyStatus'[s] = 11
        BY <2>2, <3>1, StatusShows
      <3>3. dummyStatus'[s] \in Within[action]
        BY <3>2 DEF Within
      <3> QED
        BY <3>1, <3>2, <3>3 DEF AlongOf
    <2> QED
      BY <2>1, <2>2
  <1> QED
    BY <1>1, <1>2 DEF Along

(* When an action is complete.                                             *)
LEMMA WhenDone ==
    ASSUME ProgramsAssumption, NEW t \in Crew
    PROVE  /\ D!HandleConnectAction(t) =>
                 (Those4(t, {1, 3}) = {} /\ Completing(t)) \/ Staying
           /\ D!HandleMoveAction(t) => (Those4(t, {4}) = {} /\ Completing(t)) \/ Staying
           /\ D!HandleMoveStopAction(t) =>
                 (Those4(t, {6, 7}) = {} /\ Completing(t)) \/ Staying
           /\ D!HandleSendChatMsgAction(t) =>
                 (Those4(t, 8 .. 10) = {} /\ Completing(t)) \/ Staying
           /\ D!HandleCheckMsgAction(t) => Completing(t)
           /\ D!HandleCheckDisconnectAction(t) => Completing(t)
  <1>1. /\ D!Complete(t) => Completing(t)
        /\ D!Going => Staying
    BY DummyNames
  <1>2. /\ D!With(t, {D!Created, D!Connecting}) = Those4(t, {1, 3})
        /\ D!With(t, {D!Connected}) = Those4(t, {4})
        /\ D!With(t, {D!SendingMove, D!WaitingMoveEnd}) = Those4(t, {6, 7})
        /\ D!With(t, D!RecvdMoveEnd .. D!WaitingChatEnd) = Those4(t, 8 .. 10)
    <2>1. /\ D!Created = 1 /\ D!Connecting = 3 /\ D!Connected = 4
          /\ D!SendingMove = 6 /\ D!WaitingMoveEnd = 7 /\ D!RecvdMoveEnd = 8
          /\ D!WaitingChatEnd = 10
      BY DummyNames
    <2>2. \A X : D!With(t, X) = Those4(t, X)
      BY DummyNames
    <2> QED
      BY <2>1, <2>2
  <1>3. D!HandleConnectAction(t) =>
           IF D!With(t, {D!Created, D!Connecting}) = {} THEN D!Complete(t) ELSE D!Going
    BY Zenon DEF D!HandleConnectAction
  <1>4. D!HandleMoveAction(t) =>
           IF D!With(t, {D!Connected}) = {} THEN D!Complete(t) ELSE D!Going
    BY Zenon DEF D!HandleMoveAction
  <1>5. D!HandleMoveStopAction(t) =>
           IF D!With(t, {D!SendingMove, D!WaitingMoveEnd}) = {} THEN D!Complete(t) ELSE D!Going
    BY Zenon DEF D!HandleMoveStopAction
  <1>6. D!HandleSendChatMsgAction(t) =>
           IF D!With(t, D!RecvdMoveEnd .. D!WaitingChatEnd) = {} THEN D!Complete(t) ELSE D!Going
    BY Zenon DEF D!HandleSendChatMsgAction
  <1>7. /\ D!HandleCheckMsgAction(t) => D!Complete(t)
        /\ D!HandleCheckDisconnectAction(t) => D!Complete(t)
    BY Zenon DEF D!HandleCheckMsgAction, D!HandleCheckDisconnectAction
  <1> HIDE DEF Completing, Staying
  <1> QED
    BY <1>1, <1>2, <1>3, <1>4, <1>5, <1>6, <1>7

(* The turns as what Lap and Along know.                                    *)
LEMMA WhatRuns ==
    ASSUME ProgramsAssumption, NEW t \in Crew, NEW w,
           \/ w = "CONNECT" /\ D!HandleConnectAction(t)
           \/ w = "MOVE" /\ D!HandleMoveAction(t)
           \/ w = "MOVESTOP" /\ D!HandleMoveStopAction(t)
           \/ w = "SENDCHATMSG" /\ D!HandleSendChatMsgAction(t)
           \/ w = "CHECKCHATMSG" /\ D!HandleCheckMsgAction(t)
           \/ w = "CHECKDISCONNECT" /\ D!HandleCheckDisconnectAction(t)
    PROVE  /\ pc[t] = "frame" /\ trust /\ complete[t] = 0 /\ action = w
           /\ trust' = trust /\ action' = action
  <1>1. D!Running(t) => pc[t] = "frame"
    BY DummyNames
  <1>2. \A x : D!Works(t, x) => /\ pc[t] = "frame" /\ trust /\ complete[t] = 0 /\ action = x
                                /\ trust' = trust /\ action' = action
    BY <1>1 DEF D!Works
  <1>3. CASE w = "CONNECT" /\ D!HandleConnectAction(t)
    <2>1. D!Works(t, "CONNECT")
      BY <1>3, Zenon DEF D!HandleConnectAction
    <2> QED
      BY <1>2, <1>3, <2>1
  <1>4. CASE w = "MOVE" /\ D!HandleMoveAction(t)
    <2>1. D!Works(t, "MOVE")
      BY <1>4, Zenon DEF D!HandleMoveAction
    <2> QED
      BY <1>2, <1>4, <2>1
  <1>5. CASE w = "MOVESTOP" /\ D!HandleMoveStopAction(t)
    <2>1. D!Works(t, "MOVESTOP")
      BY <1>5, Zenon DEF D!HandleMoveStopAction
    <2> QED
      BY <1>2, <1>5, <2>1
  <1>6. CASE w = "SENDCHATMSG" /\ D!HandleSendChatMsgAction(t)
    <2>1. D!Works(t, "SENDCHATMSG")
      BY <1>6, Zenon DEF D!HandleSendChatMsgAction
    <2> QED
      BY <1>2, <1>6, <2>1
  <1>7. CASE w = "CHECKCHATMSG" /\ D!HandleCheckMsgAction(t)
    <2>1. D!Works(t, "CHECKCHATMSG")
      BY <1>7, Zenon DEF D!HandleCheckMsgAction
    <2> QED
      BY <1>2, <1>7, <2>1
  <1>8. CASE w = "CHECKDISCONNECT" /\ D!HandleCheckDisconnectAction(t)
    BY <1>1, <1>8 DEF D!HandleCheckDisconnectAction
  <1> QED
    BY <1>3, <1>4, <1>5, <1>6, <1>7, <1>8

(* What a thread does to its sessions keeps them where the action has them.  *)
Keeps(t, S, st, X) ==
    /\ pc[t] = "frame" /\ trust /\ complete[t] = 0 /\ action' = action
    /\ S \subseteq {s \in Everyone : Keeper(s) = t}
    /\ dummyStatus' = [s \in Everyone |-> IF s \in S THEN st ELSE dummyStatus[s]]
    /\ st \in Within[action]
    /\ (Those4(t, X) = {} /\ Completing(t)) \/ Staying
    /\ \A s \in Everyone : Keeper(s) = t /\ dummyStatus[s] \in Within[action] =>
          dummyStatus[s] \in X \/ dummyStatus'[s] \in Post[action]

LEMMA KeptWithin ==
    ASSUME ProgramsAssumption, RoundTypes, Lap, Along, NEW t \in Crew, NEW S, NEW st, NEW X,
           Keeps(t, S, st, X)
    PROVE  Doing(t)
  <1>1. \A s \in Everyone : Keeper(s) = t => dummyStatus[s] \in Within[action]
    BY DEF Along, AlongOf, Keeps
  <1>2. \A s \in Everyone : /\ Keeper(s) # t => dummyStatus'[s] = dummyStatus[s]
                            /\ Keeper(s) = t => dummyStatus'[s] \in Within[action]
    BY <1>1 DEF Keeps
  <1>3. CASE Staying
    BY <1>2, <1>3 DEF Doing, Keeps
  <1>4. CASE Those4(t, X) = {} /\ Completing(t)
    <2>1. \A s \in Everyone : Keeper(s) = t => dummyStatus[s] \notin X
      BY <1>4 DEF Those4
    <2>2. \A s \in Everyone : Keeper(s) = t => dummyStatus'[s] \in Post[action]
      BY <1>1, <2>1 DEF Keeps
    <2> QED
      BY <1>2, <1>4, <2>2 DEF Doing, Keeps
  <1> QED
    BY <1>3, <1>4 DEF Keeps

LEMMA Those4Are ==
    \A t, X, Y : X \subseteq Y => /\ Those4(t, X) \subseteq Those4(t, Y)
                                  /\ Those4(t, X) \subseteq {s \in Everyone : Keeper(s) = t}
  BY DEF Those4

LEMMA TurnDoes ==
    ASSUME ProgramsAssumption, DummyBase, Lap, Along, NEW t \in Crew,
           \/ D!HandleConnectAction(t) \/ D!HandleMoveAction(t) \/ D!HandleMoveStopAction(t)
           \/ D!HandleSendChatMsgAction(t) \/ D!HandleCheckMsgAction(t)
           \/ D!HandleCheckDisconnectAction(t)
    PROVE  Doing(t)
  <1>1. RoundTypes /\ \A s \in Everyone : Keeper(s) = t => s \in {r \in Everyone : Keeper(r) = t}
    BY DEF DummyBase
  <1>2. ASSUME D!HandleConnectAction(t)
        PROVE  Doing(t)
    <2>1. /\ pc[t] = "frame" /\ trust /\ complete[t] = 0 /\ action = "CONNECT" /\ action' = action
      BY <1>2, WhatRuns
    <2>2. (Those4(t, {1, 3}) = {} /\ Completing(t)) \/ Staying
      BY <1>2, WhenDone
    <2> DEFINE S == Those4(t, {1})
    <2>3. dummyStatus' = [s \in Everyone |-> IF s \in S THEN 3 ELSE dummyStatus[s]]
      <3>1. D!Status(D!With(t, {D!Created}), D!Connecting)
        BY <1>2, Zenon DEF D!HandleConnectAction
      <3>2. D!With(t, {D!Created}) = S /\ D!Connecting = 3
        BY DummyNames
      <3>3. D!Status(S, 3)
        BY <3>1, <3>2
      <3> HIDE DEF S
      <3> QED
        BY <3>3, DummyNames
    <2>4. S \subseteq {s \in Everyone : Keeper(s) = t}
      BY DEF Those4
    <2>5. \A s \in Everyone : Keeper(s) = t /\ dummyStatus[s] \in Within[action] =>
              dummyStatus[s] \in {1, 3} \/ dummyStatus'[s] \in Post[action]
      BY <2>1, <2>3 DEF Within, Post, Those4
    <2>6. 3 \in Within[action]
      BY <2>1 DEF Within
    <2> HIDE DEF S
    <2>7. Keeps(t, S, 3, {1, 3})
      BY <2>1, <2>2, <2>3, <2>4, <2>5, <2>6 DEF Keeps
    <2> QED
      BY <1>1, <2>7, KeptWithin
  <1>3. ASSUME D!HandleMoveAction(t)
        PROVE  Doing(t)
    <2>1. /\ pc[t] = "frame" /\ trust /\ complete[t] = 0 /\ action = "MOVE" /\ action' = action
      BY <1>3, WhatRuns
    <2>2. (Those4(t, {4}) = {} /\ Completing(t)) \/ Staying
      BY <1>3, WhenDone
    <2> DEFINE S == Those4(t, {4})
    <2>3. dummyStatus' = [s \in Everyone |-> IF s \in S THEN 6 ELSE dummyStatus[s]]
      BY <1>3, DummyMoves
    <2>4. S \subseteq {s \in Everyone : Keeper(s) = t}
      BY DEF Those4
    <2>5. \A s \in Everyone : Keeper(s) = t /\ dummyStatus[s] \in Within[action] =>
              dummyStatus[s] \in {4} \/ dummyStatus'[s] \in Post[action]
      BY <2>1, <2>3 DEF Within, Post, Those4
    <2>6. 6 \in Within[action]
      BY <2>1 DEF Within
    <2> HIDE DEF S
    <2>7. Keeps(t, S, 6, {4})
      BY <2>1, <2>2, <2>3, <2>4, <2>5, <2>6 DEF Keeps
    <2> QED
      BY <1>1, <2>7, KeptWithin
  <1>4. ASSUME D!HandleMoveStopAction(t)
        PROVE  Doing(t)
    <2>1. /\ pc[t] = "frame" /\ trust /\ complete[t] = 0 /\ action = "MOVESTOP" /\ action' = action
      BY <1>4, WhatRuns
    <2>2. (Those4(t, {6, 7}) = {} /\ Completing(t)) \/ Staying
      BY <1>4, WhenDone
    <2> DEFINE S == Those4(t, {6})
    <2>3. dummyStatus' = [s \in Everyone |-> IF s \in S THEN 7 ELSE dummyStatus[s]]
      BY <1>4, DummyStops
    <2>4. S \subseteq {s \in Everyone : Keeper(s) = t}
      BY DEF Those4
    <2>5. \A s \in Everyone : Keeper(s) = t /\ dummyStatus[s] \in Within[action] =>
              dummyStatus[s] \in {6, 7} \/ dummyStatus'[s] \in Post[action]
      BY <2>1, <2>3 DEF Within, Post, Those4
    <2>6. 7 \in Within[action]
      BY <2>1 DEF Within
    <2> HIDE DEF S
    <2>7. Keeps(t, S, 7, {6, 7})
      BY <2>1, <2>2, <2>3, <2>4, <2>5, <2>6 DEF Keeps
    <2> QED
      BY <1>1, <2>7, KeptWithin
  <1>5. ASSUME D!HandleSendChatMsgAction(t)
        PROVE  Doing(t)
    <2>1. /\ pc[t] = "frame" /\ trust /\ complete[t] = 0 /\ action = "SENDCHATMSG" /\ action' = action
      BY <1>5, WhatRuns
    <2>2. (Those4(t, 8 .. 10) = {} /\ Completing(t)) \/ Staying
      BY <1>5, WhenDone
    <2>3. PICK S, E : /\ S = Those4(t, {8}) /\ E = Those4(t, {9})
                      /\ dummyStatus' = [s \in Everyone |-> IF s \in S THEN 9
                                                    ELSE IF s \in E THEN 10
                                                    ELSE dummyStatus[s]]
      BY <1>5, DummySays
    <2>4. \A s \in Everyone : s \in S \cup E => Keeper(s) = t
      BY <2>3 DEF Those4
    <2>5. \A s \in Everyone : Keeper(s) = t => dummyStatus[s] \in {8, 9, 10, 11}
      BY <1>1, <2>1, AllTalk
    <2>6. \A s \in Everyone : /\ Keeper(s) # t => dummyStatus'[s] = dummyStatus[s]
                              /\ Keeper(s) = t => dummyStatus'[s] \in {8, 9, 10, 11}
      BY <2>3, <2>4, <2>5
    <2>7. Those4(t, 8 .. 10) = {} => \A s \in Everyone : Keeper(s) = t => dummyStatus'[s] = 11
      <3> SUFFICES ASSUME Those4(t, 8 .. 10) = {}, NEW s \in Everyone, Keeper(s) = t
                   PROVE  dummyStatus'[s] = 11
        OBVIOUS
      <3>1. dummyStatus[s] \notin 8 .. 10 /\ dummyStatus[s] = 11
        BY <2>5 DEF Those4
      <3>2. s \notin S /\ s \notin E
        BY <2>3, <3>1 DEF Those4
      <3> QED
        BY <2>3, <3>1, <3>2
    <2>8. Within["SENDCHATMSG"] = {8, 9, 10, 11} /\ Post["SENDCHATMSG"] = {11}
      BY DEF Within, Post
    <2> QED
      BY <2>1, <2>2, <2>6, <2>7, <2>8 DEF Doing
  <1>6. ASSUME D!HandleCheckMsgAction(t)
        PROVE  Doing(t)
    <2>1. /\ pc[t] = "frame" /\ trust /\ complete[t] = 0 /\ action = "CHECKCHATMSG" /\ action' = action
      BY <1>6, WhatRuns
    <2>2. Completing(t)
      BY <1>6, WhenDone
    <2>3. dummyStatus' = [s \in Everyone |-> IF s \in Those4(t, 4 .. 11) THEN 4 ELSE dummyStatus[s]]
      BY <1>6, DummyChecks
    <2>4. \A s \in Everyone : Keeper(s) = t => dummyStatus[s] = 11
      BY <2>1 DEF Along, AlongOf, Within
    <2>5. \A s \in Everyone : s \in Those4(t, 4 .. 11) <=> Keeper(s) = t
      BY <2>4 DEF Those4
    <2>6. \A s \in Everyone : dummyStatus'[s] = IF Keeper(s) = t THEN 4 ELSE dummyStatus[s]
      BY <2>3, <2>5
    <2>7. Post["CHECKCHATMSG"] = {4}
      BY DEF Post
    <2> QED
      BY <2>1, <2>2, <2>6, <2>7 DEF Doing
  <1>7. ASSUME D!HandleCheckDisconnectAction(t)
        PROVE  Doing(t)
    <2>1. /\ pc[t] = "frame" /\ trust /\ complete[t] = 0 /\ action = "CHECKDISCONNECT" /\ action' = action
      BY <1>7, WhatRuns
    <2>2. Completing(t)
      BY <1>7, WhenDone
    <2>3. PICK S : /\ S \subseteq Those4(t, 4 .. 11)
                   /\ dummyStatus' = [s \in Everyone |-> IF s \in S THEN 1 ELSE dummyStatus[s]]
      BY <1>7, DummyDisconnects
    <2>4. \A s \in Everyone : Keeper(s) = t => dummyStatus[s] = 4
      BY <2>1 DEF Along, AlongOf, Within
    <2>5. \A s \in Everyone : s \in S => Keeper(s) = t
      BY <2>3 DEF Those4
    <2>6. \A s \in Everyone : /\ Keeper(s) # t => dummyStatus'[s] = dummyStatus[s]
                              /\ Keeper(s) = t => dummyStatus'[s] \in {1, 4}
      BY <2>3, <2>4, <2>5
    <2>7. Post["CHECKDISCONNECT"] = {1, 4}
      BY DEF Post
    <2> QED
      BY <2>1, <2>2, <2>6, <2>7 DEF Doing
  <1> QED
    BY <1>2, <1>3, <1>4, <1>5, <1>6, <1>7

(* Who says text, in what is still on its way to the server, where r is.    *)
Speakers(r, text) ==
    {s \in Everyone \ {r} : Those(outq[s], Said(text)) > 0 /\ at[r] \in Beside(at[s])}
CountedOf(r, text) ==
    stringCounter[r][text] = Those(inq[r], Said(text)) + Cardinality(Speakers(r, text))
Counted == \A r \in Everyone : \A text \in Text : CountedOf(r, text)

AllFair == \A s \in Everyone : FairOf(s)
Together == DummyBase /\ AllFair /\ trust /\ Lap /\ Along

(* The speakers of a text are finitely many.                                *)
LEMMA SpeakersFinite ==
    ASSUME ProgramsAssumption, NEW r, NEW text
    PROVE  /\ IsFiniteSet(Speakers(r, text)) /\ Cardinality(Speakers(r, text)) \in Nat
           /\ IsFiniteSet(Speakers(r, text)') /\ Cardinality(Speakers(r, text)') \in Nat
  <1>1. Speakers(r, text) \subseteq Everyone /\ Speakers(r, text)' \subseteq Everyone
    BY DEF Speakers
  <1> QED
    BY <1>1, EveryoneFinite

LEMMA SaidFew ==
    ASSUME NEW q \in Seq(MsgType), NEW text
    PROVE  Those(q, Of("LocalChat")) = 0 => Those(q, Said(text)) = 0
  <1>1. Said(text) \subseteq Of("LocalChat")
    BY DEF Said, Of
  <1> QED
    BY <1>1, ThoseNone

(* Counted after what a step can do.                                        *)
LEMMA CountedSame ==
    ASSUME Counted, stringCounter' = stringCounter, \A r \in Everyone : at'[r] = at[r],
           \A r \in Everyone : \A text :
              Those(inq'[r], Said(text)) = Those(inq[r], Said(text)),
           \A r \in Everyone : \A text :
              Those(outq'[r], Said(text)) = Those(outq[r], Said(text))
    PROVE  Counted'
  <1> SUFFICES ASSUME NEW r \in Everyone, NEW text \in Text
               PROVE  CountedOf(r, text)'
    BY DEF Counted
  <1>1. CountedOf(r, text)
    BY DEF Counted
  <1>2. Speakers(r, text)' = Speakers(r, text)
    BY DEF Speakers
  <1> QED
    BY <1>1, <1>2 DEF CountedOf

(* While nobody talks no chat message is on its way to the server.          *)
LEMMA NobodyTalks ==
    ASSUME ProgramsAssumption, Together, \A s \in Everyone : dummyStatus[s] \notin {9, 10}
    PROVE  /\ \A s \in Everyone : \A text : Those(outq[s], Said(text)) = 0
           /\ \A r \in Everyone : \A text : Cardinality(Speakers(r, text)) = 0
  <1>1. ASSUME NEW s \in Everyone
        PROVE  \A text : Those(outq[s], Said(text)) = 0
    <2>1. outq[s] \in Seq(MsgType)
      BY DEF Together, DummyBase, CastTypes, Ways
    <2>2. Steady(dummyStatus[s], place[s], outq[s], at[s])
      BY DEF Together, AllFair, FairOf, Fair
    <2>3. Those(outq[s], Of("LocalChat")) = 0
      BY <2>1, <2>2, SteadyQuiet
    <2> QED
      BY <2>1, <2>3, SaidFew
  <1>2. \A r \in Everyone : \A text : Speakers(r, text) = {}
    BY <1>1 DEF Speakers
  <1> QED
    BY <1>1, <1>2, FS_EmptySet

(* A step while nobody talks.                                              *)
LEMMA CountedQuiet ==
    ASSUME ProgramsAssumption, Together, Counted,
           \A s \in Everyone : dummyStatus[s] \notin {9, 10},
           \A s \in Everyone : \A text : Those(outq'[s], Said(text)) = 0,
           \A r \in Everyone : \A text \in Text :
              \/ /\ stringCounter'[r][text] = stringCounter[r][text]
                 /\ Those(inq'[r], Said(text)) = Those(inq[r], Said(text))
              \/ stringCounter'[r][text] = 0 /\ Those(inq'[r], Said(text)) = 0
    PROVE  Counted'
  <1> SUFFICES ASSUME NEW r \in Everyone, NEW text \in Text
               PROVE  CountedOf(r, text)'
    BY DEF Counted
  <1>1. CountedOf(r, text) /\ Cardinality(Speakers(r, text)) = 0
    BY NobodyTalks DEF Counted
  <1>2. Speakers(r, text)' = {}
    BY DEF Speakers
  <1>3. Cardinality(Speakers(r, text)') = 0
    BY <1>2, FS_EmptySet
  <1>4. stringCounter[r][text] \in Nat
    BY DEF Together, DummyBase, CastTypes
  <1>5. Those(inq[r], Said(text)) \in Nat
    BY ThoseFinite DEF Together, DummyBase, CastTypes, Ways
  <1>6. stringCounter[r][text] = Those(inq[r], Said(text))
    BY <1>1, <1>5 DEF CountedOf
  <1>7. stringCounter'[r][text] = Those(inq'[r], Said(text)) /\ Those(inq'[r], Said(text)) \in Nat
    BY <1>4, <1>5, <1>6
  <1> QED
    BY <1>3, <1>7 DEF CountedOf

LEMMA CountedSays ==
    ASSUME ProgramsAssumption, Together, Counted, NEW t \in Crew, D!HandleSendChatMsgAction(t)
    PROVE  Counted'
  <1>1. action = "SENDCHATMSG" /\ complete[t] = 0
    BY WhatRuns
  <1>2. \A s \in Everyone : dummyStatus[s] \in {8, 9, 10, 11}
    BY <1>1, AllTalk DEF Together, DummyBase
  <1>3. \A s \in Everyone : Steady(dummyStatus[s], place[s], outq[s], at[s])
    BY DEF Together, AllFair, FairOf, Fair
  <1>4. \A s \in Everyone : at[s] = place[s]
    BY <1>2, <1>3 DEF Steady, Settled
  <1>5. DummyBase
    BY DEF Together
  <1>6. PICK said, S :
              /\ S = Those4(t, {8}) /\ said \in [S -> Text] /\ Saids(S, said)
              /\ \A s \in Everyone : \A text : Those(outq'[s], Said(text))
                    = Those(outq[s], Said(text))
                         + (IF s \in S /\ said[s] = text THEN 1 ELSE 0)
              /\ UNCHANGED <<place, inq, at>>
    BY <1>5, DummySays
  <1>7. \A s \in S : s \in Everyone /\ \A text : Those(outq[s], Said(text)) = 0
    <2> SUFFICES ASSUME NEW s \in S
                 PROVE  s \in Everyone /\ \A text : Those(outq[s], Said(text)) = 0
      OBVIOUS
    <2>1. s \in Everyone /\ dummyStatus[s] = 8
      BY <1>6 DEF Those4
    <2>2. outq[s] \in Seq(MsgType)
      BY <1>5, <2>1 DEF DummyBase, CastTypes, Ways
    <2>3. Steady(dummyStatus[s], place[s], outq[s], at[s]) /\ dummyStatus[s] \notin {9, 10}
      BY <1>3, <2>1
    <2>4. Those(outq[s], Of("LocalChat")) = 0
      BY <2>1, <2>2, <2>3, SteadyQuiet
    <2> QED
      BY <2>1, <2>2, <2>4, SaidFew
  <1> SUFFICES ASSUME NEW r \in Everyone, NEW text \in Text
               PROVE  CountedOf(r, text)'
    BY DEF Counted
  <1> DEFINE H == Hearing(S, said, r, text)
             Old == Speakers(r, text)
             Now == Speakers(r, text)'
  <1>8. Now = Old \cup H
    <2> SUFFICES ASSUME NEW s
                 PROVE  s \in Now <=> s \in Old \/ s \in H
      OBVIOUS
    <2>1. CASE s \in S
      <3>1. s \in Everyone /\ Those(outq[s], Said(text)) = 0
        BY <1>7, <2>1
      <3>2. Those(outq'[s], Said(text)) = IF said[s] = text THEN 1 ELSE 0
        BY <1>6, <2>1, <3>1
      <3>3. at'[s] = place[s] /\ at'[r] = place[r]
        BY <1>4, <1>6, <3>1
      <3>4. s \notin Old
        BY <3>1 DEF Speakers
      <3>5. s \in Now <=> s # r /\ said[s] = text /\ place[r] \in Beside(place[s])
        <4>1. Those(outq'[s], Said(text)) > 0 <=> said[s] = text
          BY <3>2
        <4> QED
          BY <3>1, <3>3, <4>1 DEF Speakers
      <3>6. s \in H <=> s # r /\ said[s] = text /\ place[r] \in Beside(place[s])
        BY <2>1 DEF Hearing
      <3> QED
        BY <3>4, <3>5, <3>6
    <2>2. CASE s \notin S /\ s \in Everyone
      <3>1. s \notin H
        BY <2>2 DEF Hearing
      <3>2. Those(outq[s], Said(text)) \in Nat
        BY <1>5, <2>2, ThoseFinite DEF DummyBase, CastTypes, Ways
      <3>3. Those(outq'[s], Said(text)) = Those(outq[s], Said(text))
        BY <1>6, <2>2, <3>2
      <3> QED
        BY <1>6, <3>1, <3>3 DEF Speakers
    <2>3. CASE s \notin S /\ s \notin Everyone
      BY <2>3 DEF Speakers, Hearing
    <2> QED
      BY <2>1, <2>2, <2>3
  <1>9. Old \cap H = {}
    <2>1. \A s \in H : Those(outq[s], Said(text)) = 0
      BY <1>7 DEF Hearing
    <2> QED
      BY <2>1 DEF Speakers
  <1>10. IsFiniteSet(H) /\ Cardinality(H) \in Nat
    <2>1. H \subseteq Everyone
      BY <1>7 DEF Hearing
    <2> QED
      BY <2>1, EveryoneFinite
  <1>11. stringCounter'[r][text] = stringCounter[r][text] + Cardinality(H)
    BY <1>6 DEF Saids
  <1>12. CountedOf(r, text) /\ Those(inq[r], Said(text)) \in Nat /\ inq' = inq
    BY <1>5, <1>6, ThoseFinite DEF Counted, DummyBase, CastTypes, Ways
  <1>13. IsFiniteSet(Old) /\ Cardinality(Old) \in Nat
    BY SpeakersFinite
  <1> HIDE DEF H, Old, Now
  <1>14. Cardinality(Now) = Cardinality(Old) + Cardinality(H)
    <2>1. Cardinality(Old \cup H) = Cardinality(Old) + Cardinality(H) - Cardinality(Old \cap H)
      BY <1>10, <1>13, FS_Union
    <2>2. Cardinality(Old \cap H) = 0
      BY <1>9, FS_EmptySet
    <2> QED
      BY <1>8, <1>10, <1>13, <2>1, <2>2
  <1>15. stringCounter[r][text] = Those(inq[r], Said(text)) + Cardinality(Old)
    BY <1>12 DEF CountedOf, Old
  <1>16. stringCounter'[r][text] = Those(inq'[r], Said(text)) + Cardinality(Now)
    BY <1>10, <1>11, <1>12, <1>13, <1>14, <1>15
  <1> QED
    BY <1>16 DEF CountedOf, Now

(* Counted after a message is taken, a session accepted, closed or          *)
(* answered.                                                                *)
LEMMA CountedTakes ==
    ASSUME ProgramsAssumption, Together, Counted, NEW s \in Everyone, D!Receive(s)
    PROVE  Counted'
  <1>1. DummyBase /\ trust
    BY DEF Together
  <1>2. /\ UNCHANGED <<outq, at>>
        /\ \A r \in Everyone : \A text : Those(inq'[r], Said(text)) \in Nat
    BY <1>1, DummyTakes
  <1>3. \/ /\ stringCounter' = stringCounter
           /\ \A r \in Everyone : \A text :
                 Those(inq'[r], Said(text)) = Those(inq[r], Said(text))
        \/ \E x \in Text :
              /\ Lowered(s, x)
              /\ \A r \in Everyone : \A text :
                    Those(inq[r], Said(text)) = Those(inq'[r], Said(text))
                       + (IF r = s /\ x = text THEN 1 ELSE 0)
    BY <1>1, DummyTakes
  <1>4. CASE /\ stringCounter' = stringCounter
             /\ \A r \in Everyone : \A text :
                 Those(inq'[r], Said(text)) = Those(inq[r], Said(text))
    <2>1. /\ \A r \in Everyone : at'[r] = at[r]
          /\ \A r \in Everyone : \A text :
                Those(outq'[r], Said(text)) = Those(outq[r], Said(text))
      BY <1>2
    <2> QED
      BY <1>4, <2>1, CountedSame
  <1>5. ASSUME NEW x \in Text, Lowered(s, x),
               \A r \in Everyone : \A text :
                  Those(inq[r], Said(text)) = Those(inq'[r], Said(text))
                       + (IF r = s /\ x = text THEN 1 ELSE 0)
        PROVE  Counted'
    <2> SUFFICES ASSUME NEW r \in Everyone, NEW text \in Text
                 PROVE  CountedOf(r, text)'
      BY DEF Counted
    <2>1. stringCounter \in [Everyone -> [Text -> Nat]] /\ stringCounter[r][text] \in Nat
      BY <1>1 DEF DummyBase, CastTypes
    <2>2. stringCounter[r][text] = Those(inq[r], Said(text)) + Cardinality(Speakers(r, text))
      BY DEF Counted, CountedOf
    <2>3. Speakers(r, text)' = Speakers(r, text) /\ Cardinality(Speakers(r, text)) \in Nat
      BY <1>2, SpeakersFinite DEF Speakers
    <2>4. Those(inq'[r], Said(text)) \in Nat
      BY <1>2
    <2>5. PICK f : f = [stringCounter[s] EXCEPT ![x] = stringCounter[s][x] - 1]
      OBVIOUS
    <2>6. stringCounter' = [stringCounter EXCEPT ![s] = f]
      BY <1>5, <2>5 DEF Lowered
    <2>7. stringCounter'[r] = IF r = s THEN f ELSE stringCounter[r]
      BY <2>1, <2>6
    <2>8. f[text] = IF text = x THEN stringCounter[s][x] - 1 ELSE stringCounter[s][text]
      BY <2>1, <2>5
    <2>9. stringCounter'[r][text] = stringCounter[r][text] - (IF r = s /\ x = text THEN 1 ELSE 0)
      BY <2>1, <2>7, <2>8
    <2>10. Those(inq[r], Said(text)) = Those(inq'[r], Said(text))
                       + (IF r = s /\ x = text THEN 1 ELSE 0)
      BY <1>5
    <2>11. stringCounter'[r][text] = Those(inq'[r], Said(text)) + Cardinality(Speakers(r, text))
      BY <2>1, <2>2, <2>3, <2>4, <2>9, <2>10
    <2> QED
      BY <2>3, <2>11 DEF CountedOf
  <1> QED
    BY <1>3, <1>4, <1>5

LEMMA CountedAccepts ==
    ASSUME ProgramsAssumption, Together, Counted, NEW s \in Everyone, D!Accepts(s)
    PROVE  Counted'
  <1>1. DummyBase /\ RoundTypes /\ Lap /\ Along
    BY DEF Together, DummyBase
  <1>2. /\ stringCounter' = stringCounter /\ outq' = outq /\ dummyStatus[s] = 3
        /\ \A r \in Everyone : \A text :
                 Those(inq'[r], Said(text)) = Those(inq[r], Said(text))
    BY <1>1, DummyAccepted
  <1>3. \A u \in Everyone : dummyStatus[u] \notin {9, 10}
    BY <1>1, <1>2, TalkersTalk
  <1>4. \A u \in Everyone : \A text : Those(outq'[u], Said(text)) = 0
    BY <1>2, <1>3, NobodyTalks
  <1> QED
    BY <1>2, <1>3, <1>4, CountedQuiet

LEMMA CountedDisconnects ==
    ASSUME ProgramsAssumption, Together, Counted, NEW t \in Crew,
           D!HandleCheckDisconnectAction(t)
    PROVE  Counted'
  <1>1. DummyBase /\ RoundTypes /\ Lap /\ Along /\ Ways /\ MAX_SECTOR \in Nat
    BY DEF Together, DummyBase, CastTypes, ProgramsAssumption
  <1>2. action = "CHECKDISCONNECT"
    BY WhatRuns
  <1>3. \A u \in Everyone : dummyStatus[u] \notin {9, 10}
    BY <1>1, <1>2, StatusShows
  <1>4. PICK S : /\ Closing(S)
                 /\ stringCounter' = [s \in Everyone |-> IF s \in S THEN [text \in Text |-> 0]
                                                         ELSE stringCounter[s]]
    BY <1>1, DummyDisconnects
  <1>5. \A u \in Everyone : /\ u \in S => outq'[u] = <<>> /\ inq'[u] = <<>>
                            /\ u \notin S => outq'[u] = outq[u] /\ inq'[u] = inq[u]
    BY <1>1, <1>4, ClosingDoes
  <1>6. \A u \in Everyone : \A text : Those(outq'[u], Said(text)) = 0
    <2>1. \A u \in Everyone : \A text : Those(outq[u], Said(text)) = 0
      BY <1>3, NobodyTalks
    <2> QED
      BY <1>5, <2>1, EmptyWay
  <1>7. ASSUME NEW r \in Everyone, NEW text \in Text
        PROVE  \/ /\ stringCounter'[r][text] = stringCounter[r][text]
                  /\ Those(inq'[r], Said(text)) = Those(inq[r], Said(text))
               \/ stringCounter'[r][text] = 0 /\ Those(inq'[r], Said(text)) = 0
    BY <1>4, <1>5, EmptyWay
  <1> QED
    BY <1>3, <1>6, <1>7, CountedQuiet

LEMMA CountedAnswers ==
    ASSUME ProgramsAssumption, Together, Counted, NEW s \in Everyone, D!Answers(s)
    PROVE  Counted'
  <1>1. DummyBase /\ RoundTypes /\ Lap /\ Along /\ Ways
    BY DEF Together, DummyBase, CastTypes
  <1>2. /\ stringCounter' = stringCounter /\ outq[s] # <<>>
        /\ \A r \in Everyone :
              /\ outq'[r] = IF r = s THEN Tail(outq[s]) ELSE outq[r]
              /\ at'[r] = IF r = s /\ Head(outq[s]).sector # 0
                          THEN Head(outq[s]).sector ELSE at[r]
              /\ \A text : Those(inq'[r], Said(text)) = Those(inq[r], Said(text))
                    + (IF r \in Near(s) THEN One(Head(outq[s]), Said(text)) ELSE 0)
    BY <1>1, DummyAnswered
  <1>3. outq[s] \in Seq(MsgType) /\ \A r \in Everyone : inq[r] \in Seq(MsgType)
    BY <1>1 DEF Ways
  <1>4. PICK m : m = Head(outq[s])
    OBVIOUS
  <1>5. PICK rest : rest = Tail(outq[s])
    OBVIOUS
  <1>6. /\ m \in MsgType /\ rest \in Seq(MsgType)
        /\ \A kind : Those(outq[s], kind) = Those(rest, kind) + One(m, kind)
    BY <1>2, <1>3, <1>4, <1>5, ThoseLess
  <1>7. \A r \in Everyone : \A text :
           Those(inq[r], Said(text)) \in Nat
    BY <1>3, ThoseFinite
  <1>8. \A kind : Those(rest, kind) \in Nat
    BY <1>6, ThoseFinite
  <1>9. /\ \A type : One(m, Of(type)) = IF m.type = type THEN 1 ELSE 0
        /\ \A text : One(m, Said(text)) =
              IF m.type = "LocalChat" /\ m.text = text THEN 1 ELSE 0
    BY <1>6, KindOf
  <1>10. /\ \A r \in Everyone : outq'[r] = IF r = s THEN rest ELSE outq[r]
         /\ \A r \in Everyone : at'[r] = IF r = s /\ m.sector # 0 THEN m.sector ELSE at[r]
         /\ \A r \in Everyone : \A text :
               Those(inq'[r], Said(text)) = Those(inq[r], Said(text))
                    + (IF r \in Near(s) THEN One(m, Said(text)) ELSE 0)
    BY <1>2, <1>4, <1>5
  <1>11. Steady(dummyStatus[s], place[s], outq[s], at[s])
    BY DEF Together, AllFair, FairOf, Fair
  <1>12. CASE m.type = "LocalChat"
    <2>1. m.sector = 0 /\ \A r \in Everyone : at'[r] = at[r]
      BY <1>6, <1>10, <1>12 DEF MsgType
    <2>2. \A text : Those(rest, Said(text)) = 0
      <3>1. Those(outq[s], Of("LocalChat")) = Those(rest, Of("LocalChat")) + 1
        BY <1>6, <1>9, <1>12
      <3>2. Those(outq[s], Of("LocalChat")) <= 1
        BY <1>11 DEF Steady
      <3>3. Those(rest, Of("LocalChat")) = 0
        BY <1>8, <3>1, <3>2
      <3> QED
        BY <1>6, <3>3, SaidFew
    <2> SUFFICES ASSUME NEW r \in Everyone, NEW text \in Text
                 PROVE  CountedOf(r, text)'
      BY DEF Counted
    <2> DEFINE Old == Speakers(r, text)
               Now == Speakers(r, text)'
    <2>3. Those(outq'[s], Said(text)) = 0 /\ Those(outq[s], Said(text)) = One(m, Said(text))
          /\ One(m, Said(text)) \in {0, 1}
      BY <1>6, <1>9, <1>10, <2>2
    <2>4. Now = Old \ {s}
      <3>1. \A u \in Everyone : u # s => outq'[u] = outq[u]
        BY <1>10
      <3> QED
        BY <2>1, <2>3, <3>1 DEF Speakers
    <2>5. s \in Old <=> r \in Near(s) /\ One(m, Said(text)) = 1
      <3>1. Those(outq[s], Said(text)) > 0 <=> One(m, Said(text)) = 1
        BY <2>3
      <3> QED
        BY <3>1 DEF Speakers, Near
    <2>6. IsFiniteSet(Old) /\ Cardinality(Old) \in Nat
      BY SpeakersFinite
    <2>7. stringCounter[r][text] = Those(inq[r], Said(text)) + Cardinality(Old)
      BY DEF Counted, CountedOf
    <2>8. stringCounter'[r][text] = stringCounter[r][text]
      BY <1>2
    <2> HIDE DEF Old, Now
    <2>9. stringCounter'[r][text] = Those(inq'[r], Said(text)) + Cardinality(Now)
      <3>1. CASE s \in Old
        <4>1. Cardinality(Now) = Cardinality(Old) - 1
          BY <2>4, <2>6, <3>1, OneLess
        <4>2. Those(inq'[r], Said(text)) = Those(inq[r], Said(text)) + 1
          BY <1>10, <2>5, <3>1
        <4> QED
          BY <1>7, <2>6, <2>7, <2>8, <4>1, <4>2
      <3>2. CASE s \notin Old
        <4>1. Now = Old
          BY <2>4, <3>2
        <4>2. Those(inq'[r], Said(text)) = Those(inq[r], Said(text))
          <5>1. (IF r \in Near(s) THEN One(m, Said(text)) ELSE 0) = 0
            BY <2>3, <2>5, <3>2
          <5>2. Those(inq'[r], Said(text)) = Those(inq[r], Said(text)) + 0
            BY <1>10, <5>1
          <5> QED
            BY <1>7, <5>2
        <4> QED
          BY <2>7, <2>8, <4>1, <4>2
      <3> QED
        BY <3>1, <3>2
    <2> QED
      BY <2>9 DEF CountedOf, Now
  <1>13. CASE m.type # "LocalChat"
    <2>1. \A text : One(m, Said(text)) = 0
      BY <1>9, <1>13
    <2>2. \A r \in Everyone : \A text :
             Those(inq'[r], Said(text)) = Those(inq[r], Said(text))
      <3> SUFFICES ASSUME NEW r \in Everyone, NEW text
                   PROVE  Those(inq'[r], Said(text)) = Those(inq[r], Said(text))
        OBVIOUS
      <3>1. Those(inq'[r], Said(text)) = Those(inq[r], Said(text)) + 0
        BY <1>10, <2>1
      <3> QED
        BY <1>7, <3>1
    <2>3. \A text : Those(rest, Said(text)) = Those(outq[s], Said(text))
      <3> SUFFICES ASSUME NEW text
                   PROVE  Those(rest, Said(text)) = Those(outq[s], Said(text))
        OBVIOUS
      <3>1. Those(outq[s], Said(text)) = Those(rest, Said(text)) + 0
        BY <1>6, <2>1
      <3> QED
        BY <1>8, <3>1
    <2>4. \A r \in Everyone : \A text :
             Those(outq'[r], Said(text)) = Those(outq[r], Said(text))
      BY <1>10, <2>3
    <2>5. CASE m.sector = 0
      BY <1>2, <1>10, <2>2, <2>4, <2>5, CountedSame
    <2>6. CASE m.sector # 0
      <3>1. Those(outq[s], Moving) # 0
        <4>1. One(m, Moving) = 1
          BY <1>6, <2>6 DEF One, Moving
        <4> QED
          BY <1>6, <1>8, <4>1, SMTT(20)
      <3>2. dummyStatus[s] \notin {8, 9, 10, 11}
        BY <1>11, <3>1 DEF Steady, Settled
      <3>3. \A u \in Everyone : dummyStatus[u] \notin {9, 10}
        BY <1>1, <3>2, TalkersTalk
      <3>4. \A u \in Everyone : \A text : Those(outq'[u], Said(text)) = 0
        BY <2>4, <3>3, NobodyTalks
      <3> QED
        BY <1>2, <2>2, <3>3, <3>4, CountedQuiet
    <2> QED
      BY <2>5, <2>6
  <1> QED
    BY <1>12, <1>13

DummyInv == DummyBase /\ AllFair /\ (trust => Lap /\ Along /\ Counted)

(* Without marks in complete, or without a round that looks at them, the     *)
(* whole invariant holds at first.                                          *)
LEMMA DummyInits ==
    ASSUME ProgramsAssumption, D!DummyInit,
           trust => \A t \in Crew : complete[t] = 0
    PROVE  DummyInv
  <1>1. DummyBase /\ AllFair
    BY DummyStart DEF AllFair
  <1> SUFFICES ASSUME trust PROVE Lap /\ Along /\ Counted
    BY <1>1 DEF DummyInv
  <1>2. /\ action = "CONNECT" /\ \A t \in Crew : complete[t] = 0
        /\ pc = [t \in Crew |-> "no"] /\ next = [t \in Crew |-> 1]
        /\ dummyStatus = [s \in Everyone |-> 0]
        /\ stringCounter = [s \in Everyone |-> [text \in Text |-> 0]]
        /\ inq = [s \in Everyone |-> <<>>] /\ outq = [s \in Everyone |-> <<>>]
    BY DummyNames, DummyWay, CrewsAre DEF D!DummyInit
  <1>3. Lap
    BY <1>2 DEF Lap, Late
  <1>4. Along
    <2> SUFFICES ASSUME NEW s \in Everyone
                 PROVE  AlongOf(s)
      BY DEF Along
    <2>1. Keeper(s) \in Crew
      BY CrewFacts
    <2>2. complete[Keeper(s)] = 0 /\ pc[Keeper(s)] = "no" /\ dummyStatus[s] = 0
      BY <1>2, <2>1
    <2> QED
      BY <2>2 DEF AlongOf
  <1>5. Counted
    <2> SUFFICES ASSUME NEW r \in Everyone, NEW text \in Text
                 PROVE  CountedOf(r, text)
      BY DEF Counted
    <2>1. Speakers(r, text) = {}
      BY <1>2, EmptyWay DEF Speakers
    <2>2. Those(inq[r], Said(text)) = 0 /\ stringCounter[r][text] = 0
      BY <1>2, EmptyWay
    <2>3. Cardinality(Speakers(r, text)) = 0
      BY <2>1, FS_EmptySet
    <2> QED
      BY <2>2, <2>3 DEF CountedOf
  <1> QED
    BY <1>3, <1>4, <1>5

(* A turn of a thread in the round.                                        *)
LEMMA DummyTurns ==
    ASSUME ProgramsAssumption, Together, Counted, NEW t \in Crew,
           \/ D!HandleConnectAction(t) \/ D!HandleMoveAction(t) \/ D!HandleMoveStopAction(t)
           \/ D!HandleSendChatMsgAction(t) \/ D!HandleCheckMsgAction(t)
           \/ D!HandleCheckDisconnectAction(t)
    PROVE  DummyInv'
  <1>1. DummyBase /\ RoundTypes /\ Lap /\ Along /\ \A s \in Everyone : FairOf(s)
    BY DEF Together, DummyBase, AllFair
  <1>2. Lap' /\ Along'
    BY <1>1, TurnDoes, AlongDoes
  <1>3. CASE D!HandleConnectAction(t)
    <2>1. DummyBase' /\ AllFair'
      BY <1>1, <1>3, DummyConnects DEF AllFair
    <2>2. UNCHANGED <<stringCounter, inq, outq, at>>
      BY <1>3 DEF D!HandleConnectAction, D!Works
    <2> QED
      BY <1>2, <2>1, <2>2, CountedSame DEF DummyInv
  <1>4. CASE D!HandleMoveAction(t)
    <2>1. DummyBase' /\ AllFair'
      BY <1>1, <1>4, DummyMoves DEF AllFair
    <2>2. /\ stringCounter' = stringCounter /\ inq' = inq /\ at' = at
          /\ \A s \in Everyone : \A text :
                 Those(outq'[s], Said(text)) = Those(outq[s], Said(text))
      BY <1>1, <1>4, DummyMoves
    <2> QED
      BY <1>2, <2>1, <2>2, CountedSame DEF DummyInv
  <1>5. CASE D!HandleMoveStopAction(t)
    <2>1. DummyBase' /\ AllFair'
      BY <1>1, <1>5, DummyStops DEF AllFair
    <2>2. /\ stringCounter' = stringCounter /\ inq' = inq /\ at' = at
          /\ \A s \in Everyone : \A text :
                 Those(outq'[s], Said(text)) = Those(outq[s], Said(text))
      BY <1>1, <1>5, DummyStops
    <2> QED
      BY <1>2, <2>1, <2>2, CountedSame DEF DummyInv
  <1>6. CASE D!HandleSendChatMsgAction(t)
    <2>1. DummyBase' /\ AllFair'
      BY <1>1, <1>6, DummySays DEF AllFair
    <2> QED
      BY <1>2, <1>6, <2>1, CountedSays DEF DummyInv
  <1>7. CASE D!HandleCheckMsgAction(t)
    <2>1. complete[t] = 0 /\ action = "CHECKCHATMSG" /\ pc[t] = "frame"
      BY <1>7, WhatRuns
    <2>2. \A s \in Everyone : Keeper(s) = t => dummyStatus[s] = 11
      BY <1>1, <2>1 DEF Along, AlongOf, Within
    <2>3. DummyBase' /\ AllFair'
      BY <1>1, <1>7, <2>2, DummyChecks DEF AllFair
    <2>4. UNCHANGED <<stringCounter, inq, outq, at>>
      BY <1>1, <1>7, DummyChecks
    <2> QED
      BY <1>2, <2>3, <2>4, CountedSame DEF DummyInv
  <1>8. CASE D!HandleCheckDisconnectAction(t)
    <2>1. DummyBase' /\ AllFair'
      BY <1>1, <1>8, DummyDisconnects DEF AllFair
    <2> QED
      BY <1>2, <1>8, <2>1, CountedDisconnects DEF DummyInv
  <1> QED
    BY <1>3, <1>4, <1>5, <1>6, <1>7, <1>8

(* A step of the round that leaves the sessions alone, or moves them.       *)
LEMMA DummyRounds ==
    ASSUME ProgramsAssumption, DummyInv, NEW t \in Crew,
           D!Start(t) \/ Scanning(t) \/ Changing(t) \/ D!WaitForOthers(t)
    PROVE  DummyInv'
  <1>1. DummyBase /\ RoundTypes /\ \A s \in Everyone : FairOf(s)
    BY DEF DummyInv, DummyBase, AllFair
  <1>2. /\ UNCHANGED <<trust, stringCounter, inq, outq, at>>
        /\ DummyBase' /\ AllFair'
        /\ trust => (Lap' /\ Along')
    <2>1. CASE D!Start(t)
      <3>1. /\ UNCHANGED <<trust, stringCounter, inq, outq, at>>
            /\ DummyBase' /\ AllFair'
        BY <1>1, <2>1, DummyBegins DEF AllFair
      <3>2. /\ Beginning(t)
            /\ dummyStatus' = [s \in Everyone |-> IF Keeper(s) = t THEN 1 ELSE dummyStatus[s]]
        BY <1>1, <2>1, DummyBegins DEF Beginning
      <3>3. trust => (Lap' /\ Along')
        BY <1>1, <3>2, LapBegins, AlongBegins DEF DummyInv
      <3> QED
        BY <3>1, <3>3
    <2>2. CASE Scanning(t)
      <3>1. UNCHANGED <<trust, stringCounter, inq, outq, at>>
        BY <2>2 DEF Scanning
      <3>2. DummyBase' /\ AllFair'
        BY <1>1, <2>2, DummyScans DEF AllFair
      <3>3. trust => (Lap' /\ Along')
        BY <1>1, <2>2, LapScans, AlongScans DEF DummyInv
      <3> QED
        BY <3>1, <3>2, <3>3
    <2>3. CASE Changing(t)
      <3>1. UNCHANGED <<trust, stringCounter, inq, outq, at>>
        BY <2>3 DEF Changing
      <3>2. DummyBase' /\ AllFair'
        BY <1>1, <2>3, DummyChanges DEF AllFair
      <3>3. trust => (Lap' /\ Along')
        BY <1>1, <2>3, LapChanges, AlongChanges DEF DummyInv
      <3> QED
        BY <3>1, <3>2, <3>3
    <2>4. CASE D!WaitForOthers(t)
      <3>1. /\ place' \in D!Moves(t)
            /\ UNCHANGED <<trust, action, complete, pc, doing, next, dummyStatus,
                           stringCounter, inq, outq, at>>
        BY <2>4 DEF D!WaitForOthers, D!round
      <3>2. DummyBase' /\ AllFair'
        BY <1>1, <3>1, DummyWaits DEF AllFair
      <3>3. trust => (Lap' /\ Along')
        BY <1>1, <3>1, LapStays, AlongStays DEF DummyInv
      <3> QED
        BY <3>1, <3>2, <3>3
    <2> QED
      BY <2>1, <2>2, <2>3, <2>4
  <1>3. trust => Counted'
    BY <1>2, CountedSame DEF DummyInv
  <1> QED
    BY <1>2, <1>3 DEF DummyInv

(* Every step keeps the invariant.                                          *)
LEMMA DummyKept ==
    ASSUME ProgramsAssumption, DummyInv, D!DummyNext
    PROVE  DummyInv'
  <1>1. /\ DummyBase /\ RoundTypes /\ \A s \in Everyone : FairOf(s)
        /\ trust => Together /\ Counted
    BY DEF DummyInv, DummyBase, AllFair, Together
  <1>2. ASSUME NEW t \in Crew, D!Start(t) \/ D!TrustStep(t) \/ D!WaitForOthers(t)
        PROVE  DummyInv'
    <2>1. ASSUME \/ D!HandleConnectAction(t) \/ D!HandleMoveAction(t)
                 \/ D!HandleMoveStopAction(t) \/ D!HandleSendChatMsgAction(t)
                 \/ D!HandleCheckMsgAction(t) \/ D!HandleCheckDisconnectAction(t)
          PROVE  DummyInv'
      <3>1. trust
        BY <2>1, WhatRuns
      <3> QED
        BY <1>1, <2>1, <3>1, DummyTurns
    <2>2. D!Scan(t) \/ D!ChangeAction(t) => DummyInv'
      BY RoundNames, DummyRounds
    <2>3. D!Start(t) \/ D!WaitForOthers(t) => DummyInv'
      BY DummyRounds
    <2> QED
      BY <1>2, <2>1, <2>2, <2>3 DEF D!TrustStep
  <1>3. ASSUME NEW s \in Everyone, D!FreeStep(s)
        PROVE  DummyInv'
    <2>1. DummyBase' /\ AllFair' /\ ~trust /\ trust' = trust
      BY <1>1, <1>3, DummyFree DEF AllFair
    <2> QED
      BY <2>1 DEF DummyInv
  <1>4. ASSUME NEW s \in Everyone, D!Receive(s)
        PROVE  DummyInv'
    <2>1. DummyBase' /\ AllFair' /\ trust' = trust
      BY <1>1, <1>4, DummyTakes DEF AllFair
    <2>2. ASSUME trust
          PROVE  Lap' /\ Along' /\ Counted'
      <3>1. /\ UNCHANGED <<action, complete, pc, doing, next>>
            /\ \A r \in Everyone : r # s => dummyStatus'[r] = dummyStatus[r]
            /\ \/ dummyStatus'[s] = dummyStatus[s]
               \/ dummyStatus[s] = 3 /\ dummyStatus'[s] = 4
               \/ dummyStatus[s] = 7 /\ dummyStatus'[s] = 8
               \/ dummyStatus[s] = 10 /\ dummyStatus'[s] = 11
        BY <1>1, <1>4, DummyTakes
      <3>2. Lap /\ Along
        BY <2>2 DEF DummyInv
      <3>3. Lap' /\ Along'
        BY <1>1, <3>1, <3>2, AlongTakes
      <3> QED
        BY <1>1, <1>4, <2>2, <3>3, CountedTakes
    <2> QED
      BY <2>1, <2>2 DEF DummyInv
  <1>5. ASSUME NEW s \in Everyone, D!Accepts(s) \/ D!Answers(s)
        PROVE  DummyInv'
    <2>1. /\ DummyBase' /\ AllFair'
          /\ UNCHANGED <<trust, action, complete, pc, doing, next, dummyStatus>>
      BY <1>1, <1>5, DummyAccepted, DummyAnswered DEF AllFair
    <2>2. ASSUME trust
          PROVE  Lap' /\ Along' /\ Counted'
      <3>1. Lap /\ Along
        BY <2>2 DEF DummyInv
      <3>2. Lap' /\ Along'
        BY <2>1, <3>1, LapStays, AlongStays
      <3> QED
        BY <1>1, <1>5, <2>2, <3>2, CountedAccepts, CountedAnswers
    <2> QED
      BY <2>1, <2>2 DEF DummyInv
  <1> QED
    <2>1. D!Threads = Crew /\ D!Session = Everyone
      BY CrewsAre, DummyWay
    <2> QED
      BY <1>2, <1>3, <1>4, <1>5, <2>1 DEF D!DummyNext

(* So no __debugbreak is reached, and every session waits for one answer.   *)
LEMMA DummyThen ==
    ASSUME ProgramsAssumption, DummyInv
    PROVE  D!NoDebugBreak /\ D!LocksApart /\ D!OneAnswer
  <1>1. /\ DummyBase /\ RoundTypes /\ CastTypes /\ Ways
        /\ \A s \in Everyone : /\ FairOf(s) /\ HomeOf(s) /\ dummyStatus[s] \in Condition
                               /\ inq[s] \in Seq(MsgType) /\ outq[s] \in Seq(MsgType)
        /\ D!Threads = Crew /\ D!Session = Everyone
    BY CrewsAre, DummyWay DEF DummyInv, DummyBase, AllFair, CastTypes, Ways
  <1>2. D!OneAnswer
    <2> SUFFICES ASSUME NEW s \in Everyone
                 PROVE  /\ D!On(outq[s], "MoveStop") + D!On(inq[s], "MoveStopComplete")
                             = IF dummyStatus[s] = 7 THEN 1 ELSE 0
                        /\ D!On(outq[s], "ChatEnd") + D!On(inq[s], "ChatComplete")
                             = IF dummyStatus[s] = 10 THEN 1 ELSE 0
      BY <1>1, DummyNames DEF D!OneAnswer
    <2>1. Asked(dummyStatus[s], inq[s], outq[s])
      BY <1>1 DEF FairOf, Fair
    <2>2. \A type : /\ D!On(outq[s], type) = Those(outq[s], Of(type))
                    /\ D!On(inq[s], type) = Those(inq[s], Of(type))
      BY <1>1, CountedOnWay
    <2> QED
      BY <2>1, <2>2 DEF Asked
  <1>3. D!LocksApart
    <2> SUFFICES ASSUME trust, NEW u \in Everyone, dummyStatus[u] = 9, NEW s \in Everyone
                 PROVE  dummyStatus[s] >= 4
      <3>1. D!Session = Everyone /\ D!SendingChat = 9 /\ D!Connected = 4
        BY DummyWay, DummyNames
      <3> QED
        BY <3>1 DEF D!LocksApart
    <2>1. dummyStatus[u] \in {9, 10} /\ Lap /\ Along
      BY DEF DummyInv
    <2>2. dummyStatus[s] \in {8, 9, 10, 11}
      BY <1>1, <2>1, TalkersTalk
    <2> QED
      BY <2>2
  <1>4. ASSUME trust, NEW t \in Crew, pc[t] = "frame", complete[t] = 0
        PROVE  /\ action = "MOVE" => Those4(t, 4 .. 11) = Those4(t, {4, 6})
               /\ action = "MOVESTOP" => Those4(t, 4 .. 11) = Those4(t, {6, 7, 8})
    <2>1. \A s \in Everyone : Keeper(s) = t => dummyStatus[s] \in Within[action]
      BY <1>4 DEF DummyInv, Along, AlongOf
    <2>2. Within["MOVE"] = {4, 6} /\ Within["MOVESTOP"] = {6, 7, 8}
      BY DEF Within
    <2> QED
      BY <2>1, <2>2 DEF Those4
  <1>5. ASSUME trust, NEW s \in Everyone, inq[s] # <<>>, Head(inq[s]).type = "LocalChat"
        PROVE  stringCounter[s][Head(inq[s]).text] > 0
    <2>1. PICK m : m = Head(inq[s])
      OBVIOUS
    <2>2. /\ m \in MsgType /\ \A kind : Those(inq[s], kind) = Those(Tail(inq[s]), kind) + One(m, kind)
          /\ Tail(inq[s]) \in Seq(MsgType)
      BY <1>1, <1>5, <2>1, ThoseLess
    <2>3. PICK text \in Text : text = m.text
      BY <1>5, <2>1, <2>2 DEF MsgType
    <2>4. One(m, Said(text)) = 1
      BY <1>5, <2>1, <2>2, <2>3, KindOf
    <2>5. Those(Tail(inq[s]), Said(text)) \in Nat
      BY <2>2, ThoseFinite
    <2>6. Cardinality(Speakers(s, text)) \in Nat
      BY SpeakersFinite
    <2>7. stringCounter[s][text] = Those(inq[s], Said(text)) + Cardinality(Speakers(s, text))
      BY <1>5 DEF DummyInv, Counted, CountedOf
    <2>8. Those(inq[s], Said(text)) = Those(Tail(inq[s]), Said(text)) + 1
      BY <2>2, <2>4
    <2>9. stringCounter[s][text] > 0
      BY <2>5, <2>6, <2>7, <2>8
    <2> QED
      BY <2>1, <2>3, <2>9
  <1>6. D!NoDebugBreak
    <2>1. \A t \in Crew : /\ D!With(t, D!Online) = Those4(t, 4 .. 11)
                          /\ D!With(t, {D!Connected, D!SendingMove}) = Those4(t, {4, 6})
                          /\ D!With(t, {D!SendingMove, D!WaitingMoveEnd, D!RecvdMoveEnd})
                                = Those4(t, {6, 7, 8})
                          /\ D!Running(t) <=> pc[t] = "frame"
      <3>1. D!Online = 4 .. 11 /\ D!Connected = 4 /\ D!SendingMove = 6
            /\ D!WaitingMoveEnd = 7 /\ D!RecvdMoveEnd = 8
        BY DummyNames
      <3>2. /\ \A t \in Crew : \A X : D!With(t, X) = Those4(t, X)
            /\ \A t : D!Running(t) <=> pc[t] = "frame"
        BY DummyNames
      <3> QED
        BY <3>1, <3>2
    <2> QED
      BY <1>1, <1>4, <1>5, <2>1 DEF D!NoDebugBreak
  <1> QED
    BY <1>2, <1>3, <1>6

(* Its types, whatever complete starts from.                                *)
LEMMA DummyBaseKept ==
    ASSUME ProgramsAssumption, DummyBase, D!DummyNext
    PROVE  DummyBase'
  <1>1. ASSUME NEW t \in Crew, D!Start(t) \/ D!TrustStep(t) \/ D!WaitForOthers(t)
        PROVE  DummyBase'
    <2>1. ASSUME \/ D!HandleConnectAction(t) \/ D!HandleMoveAction(t)
                 \/ D!HandleMoveStopAction(t) \/ D!HandleSendChatMsgAction(t)
                 \/ D!HandleCheckMsgAction(t) \/ D!HandleCheckDisconnectAction(t)
          PROVE  DummyBase'
      BY <2>1, DummyConnects, DummyMoves, DummyStops, DummySays, DummyChecks,
         DummyDisconnects
    <2>2. D!Scan(t) \/ D!ChangeAction(t) => DummyBase'
      BY RoundNames, DummyScans, DummyChanges
    <2>3. CASE D!WaitForOthers(t)
      <3>1. /\ place' \in D!Moves(t)
            /\ UNCHANGED <<trust, action, complete, pc, doing, next, dummyStatus,
                           stringCounter, inq, outq, at>>
        BY <2>3 DEF D!WaitForOthers, D!round
      <3> QED
        BY <3>1, DummyWaits
    <2> QED
      BY <1>1, <2>1, <2>2, <2>3, DummyBegins DEF D!TrustStep
  <1>2. ASSUME NEW s \in Everyone,
               D!FreeStep(s) \/ D!Receive(s) \/ D!Accepts(s) \/ D!Answers(s)
        PROVE  DummyBase'
    BY <1>2, DummyFree, DummyTakes, DummyAccepted, DummyAnswered
  <1> QED
    <2>1. D!Threads = Crew /\ D!Session = Everyone
      BY CrewsAre, DummyWay
    <2> QED
      BY <1>1, <1>2, <2>1 DEF D!DummyNext

LEMMA DummyTypesThen ==
    ASSUME ProgramsAssumption, DummyBase
    PROVE  D!DummyTypeOK
  <1>1. /\ RoundTypes /\ CastTypes /\ Ways
        /\ \A s \in Everyone : HomeOf(s) /\ dummyStatus[s] \in Condition
        /\ D!Threads = Crew /\ D!Session = Everyone
    BY CrewsAre, DummyWay DEF DummyBase, CastTypes, Ways
  <1>2. \A s \in Everyone : Len(inq[s]) <= MaxOnWay
    BY <1>1 DEF HomeOf, Home
  <1> QED
    BY <1>1, <1>2 DEF D!DummyTypeOK, RoundTypes, CastTypes, Ways

-----------------------------------------------------------------------------
Kinds == {"chat", "login", "monitor", "dummy", "older dummy"}

(* What every program keeps of the types, and the program that runs of the  *)
(* rest.                                                                    *)
IInv ==
    /\ part \in Kinds /\ Sessions
    /\ SingleTypes /\ LoginTypes /\ MonitorTypes
    /\ part # "older dummy" => DummyBase
    /\ part = "chat" => SingleInv /\ Heard
    /\ part = "login" => LoginInv
    /\ part = "monitor" => MonitorInv
    /\ part = "older dummy" => OlderInv /\ HeardSums

(* What is left of each invariant is types.                                 *)
LEMMA TypesOfParts ==
    /\ SingleInv => SingleTypes
    /\ LoginInv => LoginTypes
    /\ MonitorInv => MonitorTypes
    /\ DummyInv => DummyBase
  BY DEF SingleInv, LoginInv, MonitorInv, DummyInv

(* The types of the parts are those of TypeOK.                              *)
LEMMA LoginTypesThen ==
    ASSUME LoginTypes
    PROVE  L!LoginTypeOK
  BY DEF LoginTypes, L!LoginTypeOK

LEMMA SessionsThen ==
    ASSUME Sessions
    PROVE  C!SessionsTypeOK
  BY DEF Sessions, SlotType, Used, EmptySlot, C!SessionsTypeOK

(* What a part keeps as long as another runs.                              *)
LEMMA OthersRest ==
    /\ SingleTypes /\ UNCHANGED singleVars => SingleTypes'
    /\ LoginTypes /\ UNCHANGED loginVars => LoginTypes'
    /\ MonitorTypes /\ UNCHANGED monitorVars => MonitorTypes'
    /\ Sessions /\ UNCHANGED sessionVars => Sessions'
  <1>1. SingleTypes /\ UNCHANGED singleVars => SingleTypes'
    BY DEF SingleTypes, singleVars
  <1>2. LoginTypes /\ UNCHANGED loginVars => LoginTypes'
    BY DEF LoginTypes, loginVars
  <1>3. MonitorTypes /\ UNCHANGED monitorVars => MonitorTypes'
    BY DEF MonitorTypes, monitorVars
  <1>4. Sessions /\ UNCHANGED sessionVars => Sessions'
    BY DEF Sessions, Used, sessionVars
  <1> QED
    BY <1>1, <1>2, <1>3, <1>4

LEMMA ClientRests ==
    ASSUME DummyBase, UNCHANGED clientVars
    PROVE  DummyBase'
  BY DEF DummyBase, RoundTypes, CastTypes, Ways, HomeOf, clientVars, wayVars, dummyVars

(* Nothing changes in a program that does not move. *)
LEMMA SingleStill ==
    ASSUME SingleInv, Heard, UNCHANGED sessionVars, UNCHANGED singleVars
    PROVE  SingleInv' /\ Heard'
  <1>1. /\ slot' = slot /\ lastId' = lastId /\ jobs' = jobs /\ player' = player
        /\ sector' = sector /\ playerCount' = playerCount /\ loginCount' = loginCount
        /\ received' = received /\ lost' = lost /\ heard' = heard
    BY DEF sessionVars, singleVars
  <1>2. SingleTypes' /\ Homes' /\ Ordered' /\ Bounds' /\ Started' /\ Ended'
    <2>1. SingleTypes'
      BY <1>1 DEF SingleInv, SingleTypes
    <2>2. Homes'
      <3>1. \A s, id : HasHome(s, id)' <=> HasHome(s, id)
        BY <1>1 DEF HasHome, Used, HasAny
      <3> QED
        BY <1>1, <3>1 DEF SingleInv, Homes
    <2>3. Ordered'
      BY <1>1 DEF SingleInv, Ordered
    <2>4. Bounds'
      BY <1>1 DEF SingleInv, Bounds, Used, IsHere
    <2>5. Started'
      BY <1>1 DEF SingleInv, Started, ClientSlots, IsHere, Alive
    <2>6. Ended'
      BY <1>1 DEF SingleInv, Ended, Alive
    <2> QED
      BY <2>1, <2>2, <2>3, <2>4, <2>5, <2>6
  <1>3. Situated'
    BY <1>1 DEF SingleInv, Situated, Alive, At
  <1>4. Counts'
    BY <1>1 DEF SingleInv, Counts, ClientSlots, AliveSlots, IsHere, Alive
  <1>5. Heard'
    BY <1>1 DEF Heard, C!HeardAround, C!IsAlive
  <1> QED
    BY <1>2, <1>3, <1>4, <1>5 DEF SingleInv

LEMMA LoginStill ==
    ASSUME LoginInv, UNCHANGED sessionVars, UNCHANGED loginVars
    PROVE  LoginInv'
  <1>1. /\ slot' = slot /\ user' = user /\ currentUserCount' = currentUserCount
        /\ token' = token /\ wTh' = wTh /\ logins' = logins /\ answered' = answered
        /\ loginSuccessCount' = loginSuccessCount /\ reported' = reported
        /\ wLost' = wLost /\ lastId' = lastId
    BY DEF sessionVars, loginVars
  <1>2. LoginTypes' /\ LoginLost' /\ LoginSent'
    BY <1>1 DEF LoginInv, LoginTypes, LoginLost, IsHere, LoginSent
  <1>3. Clients' = Clients /\ Counting' = Counting
    BY <1>1 DEF Clients, IsHere, Counting
  <1>4. LoginUsers' /\ LoginWork'
    BY <1>1, <1>3 DEF LoginInv, LoginUsers, LoginWork
  <1>5. LoginCount' /\ LoginSum'
    BY <1>1, <1>3 DEF LoginInv, LoginCount, LoginSum
  <1> QED
    BY <1>2, <1>4, <1>5 DEF LoginInv

LEMMA MonitorStill ==
    ASSUME MonitorInv, UNCHANGED sessionVars, UNCHANGED monitorVars
    PROVE  MonitorInv'
  <1>1. MonitorTypes' /\ UNCHANGED <<agent, clientList, serverList, changed, slot>>
    BY OthersRest DEF MonitorInv, sessionVars, monitorVars
  <1>2. \A s \in Slot : /\ IsHere(s) => IsHere(s)' /\ slot'[s].id = slot[s].id
    BY <1>1 DEF IsHere
  <1> QED
    BY <1>1, <1>2, MonitorRests

LEMMA OlderStill ==
    ASSUME OlderInv, HeardSums, UNCHANGED clientVars
    PROVE  OlderInv' /\ HeardSums'
  <1>1. /\ UNCHANGED <<trustMode, g_GlobalState, waitThreadCount, oldState, threadEnd,
                       storing, conn, isMoving, isReadyForChat, moveStopRecv, chatSent,
                       messageCount, moveStopCnt, chatPlayerCnt, chatCompleteCnt>>
        /\ UNCHANGED <<place, inq, outq, at>>
    BY DEF clientVars, chatVars, wayVars
  <1>2. OlderTypes'
    BY <1>1 DEF OlderInv, OlderTypes, StageTypes, FlagTypes, Ways, Roomy
  <1>3. Stages'
    BY <1>1 DEF OlderInv, Stages, Through
  <1>4. Offline'
    BY <1>1 DEF OlderInv, Offline
  <1>5. Stops'
    BY <1>1 DEF OlderInv, Stops, StopSum, Stopping
  <1>6. Chats'
    BY <1>1 DEF OlderInv, Chats, ChatSum, Talking, Busy
  <1> QED
    BY <1>1, <1>2, <1>3, <1>4, <1>5, <1>6, HeardSame DEF OlderInv

LEMMA DummyStill ==
    ASSUME DummyInv, UNCHANGED clientVars
    PROVE  DummyInv'
  <1>1. UNCHANGED <<trust, action, complete, pc, doing, next, dummyStatus, stringCounter,
                    place, inq, outq, at>>
    BY DEF clientVars, dummyVars, wayVars
  <1>2. DummyBase'
    BY ClientRests DEF DummyInv
  <1>3. AllFair'
    BY <1>1 DEF DummyInv, AllFair, FairOf
  <1>4. Lap => Lap'
    BY <1>1 DEF Lap, Changed
  <1>5. Along => Along'
    BY <1>1 DEF Along, AlongOf
  <1>6. Counted => Counted'
    BY <1>1 DEF Counted, CountedOf, Speakers
  <1> QED
    BY <1>1, <1>2, <1>3, <1>4, <1>5, <1>6 DEF DummyInv

(* IInv holds at first ...                                                  *)
LEMMA Begins ==
    ASSUME ProgramsAssumption, Init
    PROVE  IInv /\ (~(trust /\ \E t \in Crew : complete[t] # 0) => DummyInv)
  <1>1. /\ C!SessionsInit /\ C!SingleInit /\ L!LoginInit(Idle) /\ M!MonitorInit
        /\ D!DummyInit /\ O!ChatInit
        /\ part \in Kinds
    BY DEF Init, Kinds
  <1>2. Sessions /\ SingleInv /\ LoginInv /\ MonitorInv
    BY <1>1, SessionsStart, SingleStart, LoginStart, MonitorStart
  <1>3. /\ DummyBase /\ OlderInv /\ HeardSums
        /\ ~(trust /\ \E t \in Crew : complete[t] # 0) => DummyInv
    BY <1>1, DummyStart, OlderInit, HeardStarts, DummyInits
  <1>4. Heard
    BY <1>1 DEF C!SingleInit, C!HeardAround, C!NoMessage, Heard
  <1> QED
    BY <1>1, <1>2, <1>3, <1>4, TypesOfParts DEF IInv

(* ... and every step keeps it: one program runs, and the others rest.      *)
LEMMA Steps ==
    ASSUME ProgramsAssumption, IInv, [Next]_vars
    PROVE  IInv'
  <1>1. CASE Chatting
    <2>1. /\ part = "chat" /\ part' = part /\ C!SingleNext
          /\ UNCHANGED loginVars /\ UNCHANGED monitorVars /\ UNCHANGED clientVars
      BY <1>1 DEF Chatting
    <2>2. Sessions' /\ SingleInv' /\ Heard'
      BY <2>1, SingleKept DEF IInv
    <2>3. SingleTypes'
      BY <2>2 DEF SingleInv
    <2>4. LoginTypes' /\ MonitorTypes'
      BY <2>1, OthersRest DEF IInv
    <2>5. DummyBase'
      BY <2>1, ClientRests DEF IInv
    <2> QED
      BY <2>1, <2>2, <2>3, <2>4, <2>5 DEF IInv
  <1>2. CASE LoggingIn
    <2>1. /\ part = "login" /\ part' = part /\ L!LoginNext
          /\ UNCHANGED singleVars /\ UNCHANGED monitorVars /\ UNCHANGED clientVars
      BY <1>2 DEF LoggingIn
    <2>2. Sessions' /\ LoginInv'
      BY <2>1, LoginKept DEF IInv
    <2>3. LoginTypes'
      BY <2>2 DEF LoginInv
    <2>4. SingleTypes' /\ MonitorTypes'
      BY <2>1, OthersRest DEF IInv
    <2>5. DummyBase'
      BY <2>1, ClientRests DEF IInv
    <2> QED
      BY <2>1, <2>2, <2>3, <2>4, <2>5 DEF IInv
  <1>3. CASE Reporting
    <2>1. /\ part = "monitor" /\ part' = part /\ M!MonitorNext
          /\ UNCHANGED singleVars /\ UNCHANGED loginVars /\ UNCHANGED clientVars
      BY <1>3 DEF Reporting
    <2>2. Sessions' /\ MonitorInv'
      BY <2>1, MonitorKept DEF IInv
    <2>3. MonitorTypes'
      BY <2>2 DEF MonitorInv
    <2>4. SingleTypes' /\ LoginTypes'
      BY <2>1, OthersRest DEF IInv
    <2>5. DummyBase'
      BY <2>1, ClientRests DEF IInv
    <2> QED
      BY <2>1, <2>2, <2>3, <2>4, <2>5 DEF IInv
  <1>4. CASE Testing
    <2>1. /\ part = "dummy" /\ part' = part /\ D!DummyNext /\ UNCHANGED serverVars
      BY <1>4 DEF Testing
    <2>2. /\ UNCHANGED sessionVars /\ UNCHANGED singleVars
          /\ UNCHANGED loginVars /\ UNCHANGED monitorVars
      BY <2>1 DEF serverVars
    <2>3. Sessions' /\ SingleTypes' /\ LoginTypes' /\ MonitorTypes'
      BY <2>2, OthersRest DEF IInv
    <2>4. DummyBase'
      BY <2>1, DummyBaseKept DEF IInv
    <2> QED
      BY <2>1, <2>3, <2>4 DEF IInv
  <1>5. CASE OlderTesting
    <2>1. /\ part = "older dummy" /\ part' = part /\ O!ChatNext /\ UNCHANGED serverVars
      BY <1>5 DEF OlderTesting
    <2>2. /\ UNCHANGED sessionVars /\ UNCHANGED singleVars
          /\ UNCHANGED loginVars /\ UNCHANGED monitorVars
      BY <2>1 DEF serverVars
    <2>3. Sessions' /\ SingleTypes' /\ LoginTypes' /\ MonitorTypes'
      BY <2>2, OthersRest DEF IInv
    <2>4. OlderInv' /\ HeardSums'
      BY <2>1, OlderKept, HeardKept DEF IInv
    <2> QED
      BY <2>1, <2>3, <2>4 DEF IInv
  <1>6. CASE UNCHANGED vars
    <2>1. /\ part' = part /\ UNCHANGED serverVars /\ UNCHANGED clientVars
      BY <1>6 DEF vars
    <2>2. /\ UNCHANGED sessionVars /\ UNCHANGED singleVars
          /\ UNCHANGED loginVars /\ UNCHANGED monitorVars
      BY <2>1 DEF serverVars
    <2>3. Sessions' /\ SingleTypes' /\ LoginTypes' /\ MonitorTypes'
      BY <2>2, OthersRest DEF IInv
    <2>4. DummyBase => DummyBase'
      BY <2>1, ClientRests
    <2>5. SingleInv /\ Heard => SingleInv' /\ Heard'
      BY <2>2, SingleStill
    <2>6. (LoginInv => LoginInv') /\ (MonitorInv => MonitorInv')
      BY <2>2, LoginStill, MonitorStill
    <2>7. OlderInv /\ HeardSums => OlderInv' /\ HeardSums'
      BY <2>1, OlderStill
    <2> QED
      BY <2>1, <2>3, <2>4, <2>5, <2>6, <2>7 DEF IInv
  <1> QED
    BY <1>1, <1>2, <1>3, <1>4, <1>5, <1>6 DEF Next

(* With complete at 0 from the start, the newer client keeps its invariant. *)
LEMMA DummySteps ==
    ASSUME ProgramsAssumption, part = "dummy" => DummyInv, [Next]_vars
    PROVE  (part = "dummy" => DummyInv)'
  <1>1. CASE part = "dummy" /\ D!DummyNext
    BY <1>1, DummyKept
  <1>2. CASE part = "dummy" /\ UNCHANGED vars
    <2>1. UNCHANGED clientVars
      BY <1>2 DEF vars
    <2> QED
      BY <1>2, <2>1, DummyStill
  <1>3. CASE part # "dummy" /\ part' = part
    BY <1>3
  <1> QED
    BY <1>1, <1>2, <1>3 DEF Next, Chatting, LoggingIn, Reporting, Testing,
       OlderTesting, vars

(* The invariant of whichever program runs, and the types of those that     *)
(* rest, hold throughout: Init has them and each action of each program     *)
(* keeps them.                                                              *)
THEOREM ProgramsInvariant ==
    Spec => []IInv
  <1>1. ProgramsAssumption
    BY ProgramsAssumption DEF ProgramsAssumption
  <1>2. Init => IInv
    BY <1>1, Begins
  <1>3. IInv /\ [Next]_vars => IInv'
    BY <1>1, Steps
  <1> QED
    BY <1>2, <1>3, PTL DEF Spec

(* Every variable of every program keeps its type; so a player stays on the *)
(* map however it moves and the averages are numbers.                       *)
THEOREM ProgramsTypes ==
    Spec => []TypeOK
  <1>1. ProgramsAssumption
    BY ProgramsAssumption DEF ProgramsAssumption
  <1>2. IInv => TypeOK
    <2> SUFFICES ASSUME IInv PROVE TypeOK
      OBVIOUS
    <2>1. /\ C!SessionsTypeOK /\ C!SingleTypeOK /\ L!LoginTypeOK /\ M!MonitorTypeOK
      BY <1>1, SessionsThen, SingleTypesThen, LoginTypesThen,
         MonitorTypesThen DEF IInv
    <2>2. part # "older dummy" => D!DummyTypeOK
      BY <1>1, DummyTypesThen DEF IInv
    <2>3. part = "older dummy" => O!ChatTypeOK
      BY <1>1, OlderTypesThen DEF IInv
    <2> QED
      BY <2>1, <2>2, <2>3 DEF TypeOK
  <1> QED
    BY <1>2, ProgramsInvariant, PTL

(* ChatSingleServer: the jobs of a session come creation first and deletion *)
(* last, a message finds the player of its own session and never of another *)
(* in the same slot, a player is in the list of the sector it stands in and *)
(* of no other, a chat message is heard by the players around and by nobody *)
(* else, and playerCount and loginCount are the sessions and the players.   *)
THEOREM ChatRight ==
    Spec => []ChatAgrees
  <1>1. ProgramsAssumption
    BY ProgramsAssumption DEF ProgramsAssumption
  <1>2. IInv => ChatAgrees
    BY <1>1, SingleThen DEF IInv, ChatAgrees, Heard
  <1> QED
    BY <1>2, ProgramsInvariant, PTL

(* LoginServer and MonitoringServer: the users and the two lists are the    *)
(* sessions that are here, a worker never answers for the user of another   *)
(* session and a login is counted once, and an average is between the       *)
(* extremes it was made of.                                                 *)
THEOREM ServersRight ==
    Spec => []ServersAgree
  <1>1. ProgramsAssumption
    BY ProgramsAssumption DEF ProgramsAssumption
  <1>2. IInv => ServersAgree
    BY <1>1, LoginThen, MonitorThen, MonitorTypesThen DEF IInv, ServersAgree
  <1> QED
    BY <1>2, ProgramsInvariant, PTL

(* No step changes the mode.                                                *)
LEMMA ModeStays ==
    ASSUME [Next]_vars
    PROVE  trust' = trust
  <1>1. CASE Testing
    <2>1. D!DummyNext
      BY <1>1 DEF Testing
    <2>2. ASSUME NEW t, D!TrustStep(t) PROVE trust' = trust
      BY <2>2 DEF D!TrustStep, D!Works, D!HandleConnectAction, D!HandleMoveAction,
         D!HandleMoveStopAction, D!HandleSendChatMsgAction, D!HandleCheckMsgAction,
         D!HandleCheckDisconnectAction, D!Scan, D!ChangeAction
    <2>3. ASSUME NEW s, D!FreeStep(s) PROVE trust' = trust
      BY <2>3 DEF D!FreeStep, D!Freely, D!DoSessionConnect, D!SendRandomChat,
         D!MoveStart, D!Move, D!MoveStop, D!ChatEnd
    <2>4. ASSUME NEW s, D!Receive(s) PROVE trust' = trust
      BY <2>4 DEF D!Receive, D!Received, D!CreateCharacter, D!HandleLocalChatMsg,
         D!HandleMoveStopCompleteMsg, D!HandleChatCompleteMsg
    <2> QED
      BY <2>1, <2>2, <2>3, <2>4 DEF D!DummyNext, D!Start, D!WaitForOthers, D!Accepts,
         D!Answers
  <1>2. CASE ~Testing
    BY <1>2 DEF Next, Chatting, LoggingIn, Reporting, OlderTesting, vars, clientVars,
       dummyVars
  <1> QED
    BY <1>1, <1>2

(* The test clients, whatever new long[] gave them (Fresh).  ChatDummy: the *)
(* threads are never more than a step apart, no __debugbreak is reached, and *)
(* the counters they wait for agree with what is on the way.  DummyClient    *)
(* without the trust mode: a session waits for exactly one answer.           *)
THEOREM ClientsRight ==
    Spec => [](~trust => ClientsAgree)
  <1>1. ProgramsAssumption
    BY ProgramsAssumption DEF ProgramsAssumption
  <1> DEFINE DInv == part = "dummy" /\ ~trust => DummyInv
  <1>2. Init => DInv
    BY <1>1, Begins
  <1>3. DInv /\ [Next]_vars => DInv'
    BY <1>1, DummySteps, ModeStays
  <1>4. IInv /\ DInv => (~trust => ClientsAgree)
    BY <1>1, OlderThen, DummyThen DEF IInv, ClientsAgree
  <1> HIDE DEF DInv
  <1> QED
    BY <1>2, <1>3, <1>4, ProgramsInvariant, PTL DEF Spec

(* DummyClient in the trust mode: the same, and nobody is ahead of the round *)
(* and no lock order is turned around, in a run whose new long[] happened to *)
(* give zeros - which the code does not see to.                              *)
THEOREM ZeroedClientsRight ==
    Spec /\ (trust => \A t \in Crew : complete[t] = 0) => []ClientsAgree
  <1>1. ProgramsAssumption
    BY ProgramsAssumption DEF ProgramsAssumption
  <1> DEFINE Zeroed == trust => \A t \in Crew : complete[t] = 0
             DInv == part = "dummy" => DummyInv
  <1>2. Init /\ Zeroed => DInv
    BY <1>1, Begins
  <1>3. DInv /\ [Next]_vars => DInv'
    BY <1>1, DummySteps
  <1>4. IInv /\ DInv => ClientsAgree
    BY <1>1, OlderThen, DummyThen DEF IInv, ClientsAgree
  <1> HIDE DEF DInv, Zeroed
  <1>5. Spec /\ Zeroed => []ClientsAgree
    BY <1>2, <1>3, <1>4, ProgramsInvariant, PTL DEF Spec
  <1> QED
    BY <1>5 DEF Zeroed

===============================================================================
