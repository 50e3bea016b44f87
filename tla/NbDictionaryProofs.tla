------------------------- MODULE NbDictionaryProofs -------------------------
(***************************************************************************)
(* Every ID is understood, for any namespaces, names, numbering of the     *)
(* receiver and length of the wire.  The inductive invariant is Inv of     *)
(* NbDictionary.tla: the receiver's guard speaks of the first message      *)
(* only, but whether the first message will be understood is settled when  *)
(* it is written, so StandsFor speaks of every point of the wire.          *)
(***************************************************************************)
EXTENDS NbDictionary, SequenceTheorems, TLAPS

USE DictionaryAssumption

-----------------------------------------------------------------------------
(* Sequences.                                                              *)

\* Growing an array for an index keeps the entries below its old length.
LEMMA EnsuredEffect ==
  ASSUME NEW arr \in Seq(Nat), NEW p \in Nat
  PROVE  /\ Ensured(arr, p) \in Seq(Nat)
         /\ Len(Ensured(arr, p)) >= Len(arr) /\ Len(Ensured(arr, p)) > p
         /\ \A k \in 1..Len(arr) : Ensured(arr, p)[k] = arr[k]
<1>1. CASE Len(arr) > p
  BY <1>1 DEF Ensured
<1>2. CASE ~(Len(arr) > p)
  <2> DEFINE n == p + 1 - Len(arr)
             zeros == [i \in 1..n |-> 0]
  <2>1. Len(arr) \in Nat /\ n \in Nat /\ n + Len(arr) = p + 1
    BY <1>2, LenProperties
  <2>2. zeros \in Seq(Nat) /\ Len(zeros) = n
    <3>1. zeros \in [1..n -> Nat]
      OBVIOUS
    <3>2. zeros \in Seq(Nat)
      BY <2>1, <3>1, SeqDef
    <3> QED BY <2>1, <3>1, <3>2, LenProperties
  <2>3. Ensured(arr, p) = arr \o zeros
    BY <1>2 DEF Ensured
  <2> HIDE DEF zeros, n
  <2>4. /\ arr \o zeros \in Seq(Nat)
        /\ Len(arr \o zeros) = Len(arr) + Len(zeros)
        /\ \A k \in 1..(Len(arr) + Len(zeros)) :
             (arr \o zeros)[k] = IF k <= Len(arr) THEN arr[k] ELSE zeros[k - Len(arr)]
    BY <2>2, ConcatProperties
  <2> QED BY <2>1, <2>2, <2>3, <2>4
<1> QED BY <1>1, <1>2

\* recv_keys enters one lid and changes no other entry.
LEMMA LearntEffect ==
  ASSUME NEW arr \in Seq(Nat), NEW p \in Nat, NEW lid \in Nat
  PROVE  /\ Learnt(arr, p, lid) \in Seq(Nat)
         /\ Len(Learnt(arr, p, lid)) >= Len(arr) /\ Len(Learnt(arr, p, lid)) > p
         /\ Learnt(arr, p, lid)[p + 1] = lid
         /\ \A k \in 1..Len(arr) : k # p + 1 => Learnt(arr, p, lid)[k] = arr[k]
<1> DEFINE grown == Ensured(arr, p)
           new == Learnt(arr, p, lid)
<1>1. /\ grown \in Seq(Nat) /\ Len(grown) >= Len(arr) /\ Len(grown) > p
      /\ \A k \in 1..Len(arr) : grown[k] = arr[k]
  BY EnsuredEffect
<1>2. new = [grown EXCEPT ![p + 1] = lid]
  BY DEF Learnt
<1> HIDE DEF grown, new
<1>3. Len(arr) \in Nat /\ Len(grown) \in Nat /\ p + 1 \in 1..Len(grown)
  BY <1>1, LenProperties
<1>4. grown \in [1..Len(grown) -> Nat]
  BY <1>1, LenProperties
<1>5. /\ new \in [1..Len(grown) -> Nat]
      /\ \A k \in 1..Len(grown) : new[k] = IF k = p + 1 THEN lid ELSE grown[k]
  BY <1>2, <1>3, <1>4
<1>6. new \in Seq(Nat) /\ Len(new) = Len(grown)
  <2>1. new \in Seq(Nat)
    BY <1>3, <1>5, SeqDef
  <2> QED BY <1>3, <1>5, <2>1, LenProperties
<1>7. /\ new \in Seq(Nat) /\ Len(new) >= Len(arr) /\ Len(new) > p
      /\ new[p + 1] = lid
      /\ \A k \in 1..Len(arr) : k # p + 1 => new[k] = arr[k]
  BY <1>1, <1>3, <1>5, <1>6
<1> QED BY <1>7 DEF new

\* Taking a message off the wire moves the others one place down.
LEMMA TailEffect ==
  ASSUME NEW S, NEW s \in Seq(S), s # <<>>
  PROVE  /\ Tail(s) \in Seq(S) /\ Len(s) \in Nat \ {0}
         /\ Len(Tail(s)) = Len(s) - 1
         /\ \A k \in 1..(Len(s) - 1) : Tail(s)[k] = s[k + 1]
         /\ Head(s) = s[1] /\ s[1] \in S
<1>1. Len(s) \in Nat \ {0}
  BY EmptySeq, LenProperties
<1> QED BY <1>1, HeadTailProperties, ElementOfSeq

-----------------------------------------------------------------------------
(* StandsFor when the wire changes at its end, or at its front.            *)

\* What is written behind point i changes nothing for i, nor for a later point j
\* unless it defines the same pid.
LEMMA StandsWhenWritten ==
  ASSUME NEW i \in Nat, NEW j \in Nat, i <= j, NEW ns, NEW p, NEW name,
         pid_to_lid' = pid_to_lid,
         \A k \in 1..i : wire'[k] = wire[k],
         \A k \in (i + 1)..j : ~Redefines(wire'[k], ns, p),
         StandsFor(i, ns, p, name)
  PROVE  StandsFor(j, ns, p, name)'
<1>1. Known(ns, p, name)' <=> Known(ns, p, name)
  BY DEF Known
<1>2. CASE Known(ns, p, name) /\ \A k \in 1..i : ~Redefines(wire[k], ns, p)
  <2>1. \A k \in 1..j : ~Redefines(wire'[k], ns, p)
    BY <1>2
  <2> QED BY <1>1, <1>2, <2>1 DEF StandsFor, Redefines
<1>3. CASE \E h \in 1..i : /\ Redefines(wire[h], ns, p) /\ wire[h].name = name
                           /\ \A k \in (h + 1)..i : ~Redefines(wire[k], ns, p)
  <2>1. PICK h \in 1..i : /\ Redefines(wire[h], ns, p) /\ wire[h].name = name
                          /\ \A k \in (h + 1)..i : ~Redefines(wire[k], ns, p)
    BY <1>3
  <2>2. /\ h \in 1..j /\ Redefines(wire'[h], ns, p) /\ wire'[h].name = name
        /\ \A k \in (h + 1)..j : ~Redefines(wire'[k], ns, p)
    BY <2>1
  <2> QED BY <2>2 DEF StandsFor, Redefines
<1> QED BY <1>2, <1>3 DEF StandsFor

\* Taking the first message leaves every later point as it was, if the receiver
\* has learnt that message's definition and forgotten no other.
LEMMA StandsWhenTaken ==
  ASSUME TypeOK, wire # <<>>, wire' = Tail(wire),
         NEW i \in Nat, i < Len(wire), NEW ns, NEW p, NEW name,
         Known(ns, p, name) /\ ~Redefines(wire[1], ns, p) => Known(ns, p, name)',
         Redefines(wire[1], ns, p) /\ wire[1].name = name => Known(ns, p, name)',
         StandsFor(i + 1, ns, p, name)
  PROVE  StandsFor(i, ns, p, name)'
<1>1. Len(wire) \in Nat /\ \A k \in 1..(Len(wire) - 1) : wire'[k] = wire[k + 1]
  BY TailEffect DEF TypeOK
<1>2. CASE Known(ns, p, name) /\ \A k \in 1..(i + 1) : ~Redefines(wire[k], ns, p)
  <2>1. Known(ns, p, name)'
    BY <1>2
  <2>2. \A k \in 1..i : ~Redefines(wire'[k], ns, p)
    BY <1>1, <1>2
  <2> QED BY <2>1, <2>2 DEF StandsFor, Redefines
<1>3. CASE \E h \in 1..(i + 1) :
             /\ Redefines(wire[h], ns, p) /\ wire[h].name = name
             /\ \A k \in (h + 1)..(i + 1) : ~Redefines(wire[k], ns, p)
  <2>1. PICK h \in 1..(i + 1) :
               /\ Redefines(wire[h], ns, p) /\ wire[h].name = name
               /\ \A k \in (h + 1)..(i + 1) : ~Redefines(wire[k], ns, p)
    BY <1>3
  <2>2. CASE h = 1
    <3>1. Known(ns, p, name)'
      BY <2>1, <2>2
    <3>2. \A k \in 1..i : ~Redefines(wire'[k], ns, p)
      BY <1>1, <2>1, <2>2
    <3> QED BY <3>1, <3>2 DEF StandsFor, Redefines
  <2>3. CASE h # 1
    <3>1. /\ h - 1 \in 1..i /\ Redefines(wire'[h - 1], ns, p) /\ wire'[h - 1].name = name
          /\ \A k \in ((h - 1) + 1)..i : ~Redefines(wire'[k], ns, p)
      BY <1>1, <2>1, <2>3
    <3> QED BY <3>1 DEF StandsFor, Redefines
  <2> QED BY <2>2, <2>3
<1> QED BY <1>2, <1>3 DEF StandsFor

-----------------------------------------------------------------------------
(* The invariant.                                                          *)

\* Nobody has named anything yet.
LEMMA InitInv == Init => Inv
<1> SUFFICES ASSUME Init PROVE Inv
  OBVIOUS
<1>1. TypeOK
  BY EmptySeq DEF Init, TypeOK
<1>2. PidsInRange
  <2> SUFFICES ASSUME NEW ns \in Namespaces
               PROVE  /\ max_pid[ns] >= 1
                      /\ \A name \in Names : pid[ns][name] = 0
    BY DEF PidsInRange
  <2> QED BY DEF Init
<1>3. UsesStand
  BY EmptySeq DEF Init, UsesStand
<1>4. AssignedStand
  BY DEF Init, AssignedStand
<1> QED BY <1>1, <1>2, <1>3, <1>4 DEF Inv

\* UsesStand' and AssignedStand', message by message and name by name.
LEMMA UsesStandNext ==
  ASSUME \A i \in 1..Len(wire') : \A ns, p, name :
           /\ wire'[i].act = "use"
           /\ wire'[i].ns = ns /\ wire'[i].pid = p /\ wire'[i].name = name
           => StandsFor(i - 1, ns, p, name)'
  PROVE  UsesStand'
BY DEF UsesStand, StandsFor, Known, Redefines

\* AssignedStand', pid by pid.
LEMMA AssignedStandNext ==
  ASSUME \A n : \A ns \in Namespaces, name \in Names : \A p :
           open' /\ n = Len(wire') /\ pid'[ns][name] = p /\ p # 0
           => StandsFor(n, ns, p, name)'
  PROVE  AssignedStand'
<1> SUFFICES ASSUME open', NEW ns \in Namespaces, NEW name \in Names, pid'[ns][name] # 0
             PROVE  StandsFor(Len(wire), ns, pid[ns][name], name)'
  BY DEF AssignedStand
<1>1. PICK n, p : n = Len(wire') /\ p = pid'[ns][name]
  OBVIOUS
<1>2. StandsFor(n, ns, p, name)'
  BY <1>1
<1> QED BY <1>1, <1>2 DEF StandsFor, Known, Redefines

\* Messages written behind those there are leave the latter's meaning alone.
LEMMA OldUsesStand ==
  ASSUME Inv, pid_to_lid' = pid_to_lid,
         NEW i \in 1..Len(wire), \A k \in 1..i : wire'[k] = wire[k],
         NEW ns, NEW p, NEW name, wire'[i].act = "use",
         wire'[i].ns = ns, wire'[i].pid = p, wire'[i].name = name
  PROVE  StandsFor(i - 1, ns, p, name)'
<1>1. Len(wire) \in Nat /\ i - 1 \in Nat /\ i \in 1..i
  BY LenProperties DEF Inv, TypeOK
<1>2. StandsFor(i - 1, ns, p, name)
  BY <1>1 DEF Inv, UsesStand
<1> QED BY <1>1, <1>2, StandsWhenWritten

\* A use of a pid given out earlier stands for what it stood for.
LEMMA SendKnownInv ==
  ASSUME Inv, NEW ns \in Namespaces, NEW name \in Names, SendKnown(ns, name)
  PROVE  Inv'
<1> DEFINE p == pid[ns][name]
           m == Use(ns, name, p)
<1>1. p \in Nat \ {0, 1} /\ m \in Message
  BY DEF Inv, SendKnown, TypeOK, PidsInRange, Use, Message
<1>2. /\ wire' \in Seq(Message) /\ Len(wire) \in Nat /\ Len(wire') = Len(wire) + 1
      /\ \A k \in 1..Len(wire) : wire'[k] = wire[k]
      /\ wire'[Len(wire) + 1] = m
  BY <1>1, AppendProperties, LenProperties DEF Inv, SendKnown, TypeOK
<1>3. TypeOK'
  BY <1>2 DEF Inv, SendKnown, TypeOK
<1>4. PidsInRange'
  BY DEF Inv, SendKnown, PidsInRange
<1>5. UsesStand'
  <2>1. ASSUME NEW i \in 1..Len(wire'), NEW ns1, NEW p1, NEW name1, wire'[i].act = "use",
               wire'[i].ns = ns1, wire'[i].pid = p1, wire'[i].name = name1
        PROVE  StandsFor(i - 1, ns1, p1, name1)'
    <3>1. CASE i \in 1..Len(wire)
      BY <1>2, <2>1, <3>1, OldUsesStand DEF SendKnown
    <3>2. CASE i = Len(wire) + 1
      <4>1. ns1 = ns /\ p1 = p /\ name1 = name /\ i - 1 = Len(wire)
        BY <1>2, <2>1, <3>2 DEF Use
      <4>2. StandsFor(Len(wire), ns, p, name)
        BY DEF Inv, SendKnown, AssignedStand
      <4>3. StandsFor(Len(wire), ns1, p1, name1)
        BY <4>1, <4>2
      <4>4. \A k \in (Len(wire) + 1)..Len(wire) : ~Redefines(wire'[k], ns1, p1)
        BY <1>2
      <4>5. \A k \in 1..Len(wire) : wire'[k] = wire[k]
        BY <1>2
      <4> QED BY <1>2, <4>1, <4>3, <4>4, <4>5, StandsWhenWritten DEF SendKnown
    <3> QED BY <1>2, <3>1, <3>2
  <2> QED BY <2>1, UsesStandNext
<1>6. AssignedStand'
  <2>1. ASSUME NEW n, NEW ns1 \in Namespaces, NEW name1 \in Names, NEW p1,
               open', n = Len(wire'), pid'[ns1][name1] = p1, p1 # 0
        PROVE  StandsFor(n, ns1, p1, name1)'
    <3>1. StandsFor(Len(wire), ns1, p1, name1)
      BY <2>1 DEF Inv, SendKnown, AssignedStand
    <3>2. \A k \in (Len(wire) + 1)..n : ~Redefines(wire'[k], ns1, p1)
      BY <1>2, <2>1 DEF Redefines, Use
    <3>3. n \in Nat /\ n >= Len(wire) /\ (\A k \in 1..Len(wire) : wire'[k] = wire[k])
          /\ UNCHANGED pid_to_lid
      BY <1>2, <2>1 DEF SendKnown
    <3> HIDE DEF m, p
    <3> QED BY <1>2, <3>1, <3>2, <3>3, StandsWhenWritten
  <2> QED BY <2>1, AssignedStandNext
<1> QED BY <1>3, <1>4, <1>5, <1>6 DEF Inv

\* The new pid is above max_pid, so its definition takes no other pid in use away.
LEMMA SendNewInv ==
  ASSUME Inv, NEW ns \in Namespaces, NEW name \in Names, SendNew(ns, name)
  PROVE  Inv'
<1> DEFINE p == max_pid[ns] + 1
           d == Define(ns, name, p)
           u == Use(ns, name, p)
<1>1. max_pid[ns] \in Nat \ {0} /\ p \in Nat \ {0, 1} /\ d \in Message /\ u \in Message
  BY DEF Inv, TypeOK, PidsInRange, Define, Use, Message
<1>2. /\ wire' \in Seq(Message) /\ Len(wire) \in Nat /\ Len(wire') = Len(wire) + 2
      /\ \A k \in 1..Len(wire) : wire'[k] = wire[k]
      /\ wire'[Len(wire) + 1] = d /\ wire'[Len(wire) + 2] = u
  <2>1. <<d, u>> \in Seq(Message) /\ Len(<<d, u>>) = 2 /\ <<d, u>>[1] = d /\ <<d, u>>[2] = u
    BY <1>1
  <2> DEFINE both == <<d, u>>
  <2>2. wire' = wire \o both /\ wire \in Seq(Message)
    BY DEF Inv, TypeOK, SendNew
  <2> HIDE DEF both, d, u
  <2>3. /\ both \in Seq(Message) /\ Len(both) = 2 /\ both[1] = d /\ both[2] = u
        /\ Len(wire) \in Nat
    BY <2>1, <2>2, LenProperties DEF both
  <2>4. /\ wire \o both \in Seq(Message)
        /\ Len(wire \o both) = Len(wire) + Len(both)
        /\ \A k \in 1..(Len(wire) + Len(both)) :
             (wire \o both)[k] = IF k <= Len(wire) THEN wire[k] ELSE both[k - Len(wire)]
    BY <2>2, <2>3, ConcatProperties
  <2> QED BY <2>2, <2>3, <2>4
<1>3. TypeOK'
  BY <1>1, <1>2 DEF Inv, SendNew, TypeOK
<1>4. PidsInRange'
  BY <1>1 DEF Inv, SendNew, TypeOK, PidsInRange
<1>5. ASSUME NEW n \in {Len(wire) + 1, Len(wire) + 2},
             NEW ns1, NEW p1, NEW name1, ns1 = ns, p1 = p, name1 = name
      PROVE  StandsFor(n, ns1, p1, name1)'
  <2> DEFINE j == Len(wire) + 1
  <2>1. j \in 1..n /\ j \in Nat
    BY <1>2
  <2>2. Redefines(wire'[j], ns1, p1) /\ wire'[j].name = name1
    BY <1>2, <1>5 DEF Redefines, Define
  <2>3. \A k \in (j + 1)..n : ~Redefines(wire'[k], ns1, p1)
    BY <1>2 DEF Redefines, Use
  <2> HIDE DEF j
  <2> QED BY <2>1, <2>2, <2>3 DEF StandsFor, Redefines
<1>6. UsesStand'
  <2>1. ASSUME NEW i \in 1..Len(wire'), NEW ns1, NEW p1, NEW name1, wire'[i].act = "use",
               wire'[i].ns = ns1, wire'[i].pid = p1, wire'[i].name = name1
        PROVE  StandsFor(i - 1, ns1, p1, name1)'
    <3>1. CASE i \in 1..Len(wire)
      <4>1. pid_to_lid' = pid_to_lid
        BY DEF SendNew
      <4>2. \A k \in 1..i : wire'[k] = wire[k]
        BY <1>2, <3>1
      <4> HIDE DEF p, d, u
      <4> QED BY <2>1, <3>1, <4>1, <4>2, OldUsesStand
    <3>2. CASE i = Len(wire) + 1
      BY <1>2, <2>1, <3>2 DEF Define
    <3>3. CASE i = Len(wire) + 2
      <4>1. ns1 = ns /\ p1 = p /\ name1 = name /\ i - 1 \in {Len(wire) + 1, Len(wire) + 2}
        BY <1>2, <2>1, <3>3 DEF Use
      <4> QED BY <1>5, <4>1
    <3> QED BY <1>2, <3>1, <3>2, <3>3
  <2> QED BY <2>1, UsesStandNext
<1>7. AssignedStand'
  <2>1. ASSUME NEW n, NEW ns1 \in Namespaces, NEW name1 \in Names, NEW p1,
               open', n = Len(wire'), pid'[ns1][name1] = p1, p1 # 0
        PROVE  StandsFor(n, ns1, p1, name1)'
    <3>1. CASE ns1 = ns /\ name1 = name
      <4>1. p1 = p
        BY <2>1, <3>1 DEF Inv, TypeOK, SendNew
      <4>2. n \in {Len(wire) + 1, Len(wire) + 2}
        BY <1>2, <2>1
      <4> QED BY <1>5, <3>1, <4>1, <4>2
    <3>2. CASE ~(ns1 = ns /\ name1 = name)
      <4>1. p1 = pid[ns1][name1]
        BY <2>1, <3>2 DEF Inv, TypeOK, SendNew
      <4>2. StandsFor(Len(wire), ns1, p1, name1)
        BY <2>1, <4>1 DEF Inv, SendNew, AssignedStand
      <4>3. ns1 = ns => p1 # p
        BY <1>1, <2>1, <4>1 DEF Inv, TypeOK, PidsInRange
      <4>4. \A k \in (Len(wire) + 1)..n : ~Redefines(wire'[k], ns1, p1)
        BY <1>2, <2>1, <4>3 DEF Redefines, Use, Define
      <4>5. pid_to_lid' = pid_to_lid
        BY DEF SendNew
      <4>6. Len(wire) \in Nat /\ n \in Nat /\ Len(wire) <= n
        BY <1>2, <2>1
      <4>7. \A k \in 1..Len(wire) : wire'[k] = wire[k]
        BY <1>2
      <4> HIDE DEF p, d, u
      <4> QED BY <4>2, <4>4, <4>5, <4>6, <4>7, StandsWhenWritten
    <3> QED BY <3>1, <3>2
  <2> QED BY <2>1, AssignedStandNext
<1> QED BY <1>3, <1>4, <1>6, <1>7 DEF Inv

\* A sender that starts afresh has given out no pids.
LEMMA RestartInv == ASSUME Inv, Restart PROVE Inv'
<1>1. Len(wire) \in Nat
  BY LenProperties DEF Inv, TypeOK
<1>2. TypeOK'
  BY DEF Inv, Restart, TypeOK
<1>3. PidsInRange'
  <2> SUFFICES ASSUME NEW ns \in Namespaces
               PROVE  max_pid'[ns] = 1 /\ \A name \in Names : pid'[ns][name] = 0
    BY DEF PidsInRange
  <2> QED BY DEF Restart
<1>4. UsesStand'
  <2>1. ASSUME NEW i \in 1..Len(wire'), NEW ns, NEW p, NEW name, wire'[i].act = "use",
               wire'[i].ns = ns, wire'[i].pid = p, wire'[i].name = name
        PROVE  StandsFor(i - 1, ns, p, name)'
    BY <2>1, OldUsesStand DEF Restart
  <2> QED BY <2>1, UsesStandNext
<1>5. AssignedStand'
  BY DEF Restart, AssignedStand
<1> QED BY <1>2, <1>3, <1>4, <1>5 DEF Inv

\* A wire that breaks off loses messages at its end only.
LEMMA BreakOffInv == ASSUME Inv, BreakOff PROVE Inv'
<1>1. PICK n \in 0..Len(wire) : wire' = SubSeq(wire, 1, n)
  BY DEF BreakOff
<1>2. Len(wire) \in Nat /\ \A k \in 1..n : wire[k] \in Message
  BY LenProperties, ElementOfSeq DEF Inv, TypeOK
<1>3. wire' \in Seq(Message) /\ Len(wire') = n /\ \A k \in 1..n : wire'[k] = wire[k]
  BY <1>1, <1>2, SubSeqProperties
<1>4. TypeOK'
  BY <1>3 DEF Inv, BreakOff, TypeOK
<1>5. PidsInRange'
  BY DEF Inv, BreakOff, PidsInRange
<1>6. UsesStand'
  <2>1. ASSUME NEW i \in 1..Len(wire'), NEW ns, NEW p, NEW name, wire'[i].act = "use",
               wire'[i].ns = ns, wire'[i].pid = p, wire'[i].name = name
        PROVE  StandsFor(i - 1, ns, p, name)'
    <3>1. i \in 1..Len(wire) /\ \A k \in 1..i : wire'[k] = wire[k]
      BY <1>2, <1>3, <2>1
    <3> QED BY <2>1, <3>1, OldUsesStand DEF BreakOff
  <2> QED BY <2>1, UsesStandNext
<1>7. AssignedStand'
  BY DEF BreakOff, AssignedStand
<1> QED BY <1>4, <1>5, <1>6, <1>7 DEF Inv

\* What the two receiving actions have in common.
LEMMA TakenInv ==
  ASSUME Inv, wire # <<>>, wire' = Tail(wire),
         UNCHANGED <<pid, max_pid, open>>,
         pid_to_lid' \in [Namespaces -> Seq(Nat)],
         \A ns \in Namespaces, p \in Nat : \A name :
           /\ Known(ns, p, name) /\ ~Redefines(wire[1], ns, p) => Known(ns, p, name)'
           /\ Redefines(wire[1], ns, p) /\ wire[1].name = name => Known(ns, p, name)'
  PROVE  Inv'
<1>1. /\ wire' \in Seq(Message) /\ Len(wire) \in Nat \ {0} /\ Len(wire') = Len(wire) - 1
      /\ \A k \in 1..(Len(wire) - 1) : wire'[k] = wire[k + 1]
  BY TailEffect DEF Inv, TypeOK
<1>2. TypeOK'
  BY <1>1 DEF Inv, TypeOK
<1>3. PidsInRange'
  BY DEF Inv, PidsInRange
<1>4. UsesStand'
  <2>1. ASSUME NEW i \in 1..Len(wire'), NEW ns, NEW p, NEW name, wire'[i].act = "use",
               wire'[i].ns = ns, wire'[i].pid = p, wire'[i].name = name
        PROVE  StandsFor(i - 1, ns, p, name)'
    <3>1. i - 1 \in Nat /\ i - 1 < Len(wire) /\ i + 1 \in 1..Len(wire)
      BY <1>1
    <3>2. ns \in Namespaces /\ p \in Nat
      <4>1. wire'[i] \in Message
        BY <1>1, ElementOfSeq
      <4> QED BY <2>1, <4>1 DEF Message
    <3>3. StandsFor((i + 1) - 1, ns, p, name)
      BY <1>1, <2>1, <3>1 DEF Inv, UsesStand
    <3>4. StandsFor((i - 1) + 1, ns, p, name)
      <4>1. (i + 1) - 1 = (i - 1) + 1
        BY <3>1
      <4> QED BY <3>3, <4>1
    <3> QED BY <3>1, <3>2, <3>4, StandsWhenTaken DEF Inv
  <2> QED BY <2>1, UsesStandNext
<1>5. AssignedStand'
  <2>1. ASSUME NEW n, NEW ns \in Namespaces, NEW name \in Names, NEW p,
               open', n = Len(wire'), pid'[ns][name] = p, p # 0
        PROVE  StandsFor(n, ns, p, name)'
    <3>1. n \in Nat /\ n < Len(wire) /\ n + 1 = Len(wire)
      BY <1>1, <2>1
    <3>2. StandsFor(n + 1, ns, p, name)
      BY <2>1, <3>1 DEF Inv, AssignedStand
    <3>3. p \in Nat
      BY <2>1 DEF Inv, TypeOK
    <3> QED BY <3>1, <3>2, <3>3, StandsWhenTaken DEF Inv
  <2> QED BY <2>1, AssignedStandNext
<1> QED BY <1>2, <1>3, <1>4, <1>5 DEF Inv

\* A use teaches the receiver nothing.
LEMMA RecvIdInv == ASSUME Inv, RecvId PROVE Inv'
<1>1. wire # <<>> /\ wire' = Tail(wire) /\ UNCHANGED <<pid, max_pid, open>>
  BY DEF RecvId
<1>2. wire[1].act = "use"
  BY TailEffect DEF RecvId, Inv, TypeOK
<1>3. pid_to_lid' \in [Namespaces -> Seq(Nat)]
  BY DEF RecvId, Inv, TypeOK
<1>4. \A ns \in Namespaces, p \in Nat : \A name :
        /\ Known(ns, p, name) /\ ~Redefines(wire[1], ns, p) => Known(ns, p, name)'
        /\ Redefines(wire[1], ns, p) /\ wire[1].name = name => Known(ns, p, name)'
  BY <1>2 DEF RecvId, Known, Redefines
<1> QED BY <1>1, <1>3, <1>4, TakenInv

\* The receiver now knows what the definition said; later points of the wire are as before.
LEMMA RecvKeysInv == ASSUME Inv, RecvKeys PROVE Inv'
<1> DEFINE m == wire[1]
<1>0. m.act = "define"
  BY TailEffect DEF RecvKeys, Inv, TypeOK
<1>1. Head(wire) = m /\ m \in Message /\ m.ns \in Namespaces /\ m.pid \in Nat
  <2>1. wire \in Seq(Message) /\ wire # <<>>
    BY DEF RecvKeys, Inv, TypeOK
  <2>2. Head(wire) = m /\ m \in Message
    BY <2>1, TailEffect
  <2> QED BY <2>2 DEF Message
<1>2. PICK lid \in 0..Len(RLids[m.ns]) - 1 :
        /\ RName(m.ns, lid) = m.name
        /\ pid_to_lid' = [pid_to_lid EXCEPT ![m.ns] = Learnt(@, m.pid, lid)]
  BY <1>1 DEF RecvKeys
<1> DEFINE old == pid_to_lid[m.ns]
           new == Learnt(old, m.pid, lid)
<1>3. old \in Seq(Nat) /\ lid \in Nat
  <2>1. Len(RLids[m.ns]) \in Nat
    BY <1>1, LenProperties
  <2> QED BY <1>1, <1>2, <2>1 DEF Inv, TypeOK
<1>4. /\ new \in Seq(Nat) /\ Len(new) >= Len(old) /\ Len(new) > m.pid
      /\ new[m.pid + 1] = lid
      /\ \A k \in 1..Len(old) : k # m.pid + 1 => new[k] = old[k]
  BY <1>1, <1>3, LearntEffect
<1>5. pid_to_lid' = [pid_to_lid EXCEPT ![m.ns] = new]
  BY <1>2
<1>6. pid_to_lid' \in [Namespaces -> Seq(Nat)] /\ pid_to_lid'[m.ns] = new
      /\ \A ns \in Namespaces : ns # m.ns => pid_to_lid'[ns] = pid_to_lid[ns]
  BY <1>1, <1>4, <1>5 DEF Inv, TypeOK
<1> HIDE DEF new
<1>7. ASSUME NEW ns \in Namespaces, NEW p \in Nat, NEW name
      PROVE  /\ Known(ns, p, name) /\ ~Redefines(m, ns, p) => Known(ns, p, name)'
             /\ Redefines(m, ns, p) /\ m.name = name => Known(ns, p, name)'
  <2> HIDE DEF m, old
  <2>1. ASSUME Known(ns, p, name), ~Redefines(m, ns, p) PROVE Known(ns, p, name)'
    <3>1. CASE ns # m.ns
      BY <1>6, <2>1, <3>1 DEF Known, RName
    <3>2. CASE ns = m.ns
      <4>1. p # m.pid
        BY <1>0, <2>1, <3>2 DEF Redefines
      <4>2. p < Len(old) /\ RName(ns, old[p + 1]) = name
        BY <2>1, <3>2 DEF Known, old
      <4>3. p < Len(new) /\ new[p + 1] = old[p + 1]
        <5>1. Len(old) \in Nat /\ Len(new) \in Nat
          BY <1>3, <1>4, LenProperties
        <5>2. p + 1 \in 1..Len(old) /\ p + 1 # m.pid + 1
          BY <1>1, <4>1, <4>2, <5>1
        <5> HIDE DEF new
        <5> QED BY <1>4, <4>2, <5>1, <5>2
      <4> QED BY <1>6, <3>2, <4>2, <4>3 DEF Known, RName
    <3> QED BY <3>1, <3>2
  <2>2. ASSUME Redefines(m, ns, p), m.name = name PROVE Known(ns, p, name)'
    <3>1. ns = m.ns /\ p = m.pid
      BY <2>2 DEF Redefines
    <3>2. p < Len(new) /\ new[p + 1] = lid
      BY <1>4, <3>1
    <3> QED BY <1>2, <1>6, <2>2, <3>1, <3>2 DEF Known, RName
  <2> QED BY <2>1, <2>2
<1>8. wire # <<>> /\ wire' = Tail(wire) /\ UNCHANGED <<pid, max_pid, open>>
  BY DEF RecvKeys
<1> QED BY <1>6, <1>7, <1>8, TakenInv

\* Inv is inductive.
LEMMA StepInv == Inv /\ [Next]_vars => Inv'
<1> SUFFICES ASSUME Inv, [Next]_vars PROVE Inv'
  OBVIOUS
<1>1. ASSUME NEW ns \in Namespaces, NEW name \in Names, SendKnown(ns, name) PROVE Inv'
  BY <1>1, SendKnownInv
<1>2. ASSUME NEW ns \in Namespaces, NEW name \in Names, SendNew(ns, name) PROVE Inv'
  BY <1>2, SendNewInv
<1>3. CASE Restart
  BY <1>3, RestartInv
<1>4. CASE BreakOff
  BY <1>4, BreakOffInv
<1>5. CASE RecvKeys
  BY <1>5, RecvKeysInv
<1>6. CASE RecvId
  BY <1>6, RecvIdInv
<1>7. CASE UNCHANGED vars
  <2>1. pid' = pid /\ max_pid' = max_pid /\ open' = open /\ wire' = wire
        /\ pid_to_lid' = pid_to_lid
    BY <1>7 DEF vars
  <2>2. TypeOK' /\ PidsInRange'
    BY <2>1 DEF Inv, TypeOK, PidsInRange
  <2>3. UsesStand'
    BY <2>1 DEF Inv, UsesStand, StandsFor, Known
  <2>4. AssignedStand'
    BY <2>1 DEF Inv, AssignedStand, StandsFor, Known
  <2> QED BY <2>2, <2>3, <2>4 DEF Inv
<1> QED BY <1>1, <1>2, <1>3, <1>4, <1>5, <1>6, <1>7 DEF Next

\* Pids and lids keep their types, and no name gets one of the reserved pids.
THEOREM TypeCorrect == Spec => []TypeOK
<1>1. Inv => TypeOK
  BY DEF Inv
<1> QED BY <1>1, InitInv, StepInv, PTL DEF Spec

\* At every point of the wire a pid in use stands for the name meant.
THEOREM Consistent == Spec => []Inv
BY InitInv, StepInv, PTL DEF Spec

\* recv_id never reports and never mistakes an ID: the sender's pid and the
\* receiver's lid name the same attribute or group.
THEOREM Understood == Spec => []IdsUnderstood
<1>1. Inv => IdsUnderstood
  <2> SUFFICES ASSUME Inv, wire # <<>>, Head(wire).act = "use"
               PROVE  LET m == Head(wire)
                      IN  /\ ~Reported(m.ns, m.pid)
                          /\ RName(m.ns, Lookup(m.ns, m.pid)) = m.name
    BY DEF IdsUnderstood
  <2> DEFINE m == wire[1]
  <2>1. wire \in Seq(Message)
    BY DEF Inv, TypeOK
  <2>2. Head(wire) = m /\ m \in Message /\ 1 \in 1..Len(wire)
    BY <2>1, TailEffect
  <2>3. StandsFor(1 - 1, m.ns, m.pid, m.name)
    BY <2>2 DEF Inv, UsesStand
  <2>4. Known(m.ns, m.pid, m.name)
    BY <2>3 DEF StandsFor
  <2>5. m.pid \in Nat /\ Len(pid_to_lid[m.ns]) \in Nat
    BY <2>2, LenProperties DEF Inv, TypeOK, Message
  <2> QED BY <2>2, <2>4, <2>5 DEF Known, Reported, Lookup
<1> QED BY <1>1, InitInv, StepInv, PTL DEF Spec

=============================================================================
