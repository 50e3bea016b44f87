--------------------------- MODULE CborSyntaxProofs --------------------------
(***************************************************************************)
(* Facts about sequences, parity and the grammar that the proofs about the *)
(* encoder and the decoder share: above all what Trimmed leaves of the     *)
(* open levels, nothing when none takes more, and otherwise all up to the  *)
(* last one that does.                                                     *)
(***************************************************************************)
EXTENDS CborSyntax, SequenceTheorems, WellFoundedInduction, TLAPS

\* What is open: blocks, and tags whose item is due or is still open itself.
OpenSet == [type : {"array", "map", "text", "tag"}, left : Nat \cup {Unbounded}, odd : BOOLEAN]

-----------------------------------------------------------------------------
(* Sequences and parity.                                                   *)

\* Any element of a sequence is one of the set.
LEMMA ElementOf == ASSUME NEW S, NEW s \in Seq(S), NEW i \in 1..Len(s) PROVE s[i] \in S
  OBVIOUS

\* A sequence without its last element.
LEMMA AllButLast ==
  ASSUME NEW S, NEW s \in Seq(S)
  PROVE  /\ SubSeq(s, 1, Len(s) - 1) \in Seq(S)
         /\ s # <<>> =>
              /\ Len(SubSeq(s, 1, Len(s) - 1)) = Len(s) - 1
              /\ \A k \in 1..Len(s) - 1 : SubSeq(s, 1, Len(s) - 1)[k] = s[k]
<1>1. Len(s) \in Nat /\ (s # <<>> => Len(s) # 0) OBVIOUS
<1>2. 1 \in Int /\ Len(s) - 1 \in Int /\ \A i \in 1..Len(s) - 1 : s[i] \in S
  BY <1>1, ElementOf
<1>3. /\ SubSeq(s, 1, Len(s) - 1) \in Seq(S)
      /\ Len(SubSeq(s, 1, Len(s) - 1)) = IF 1 <= Len(s) - 1 THEN Len(s) - 1 - 1 + 1 ELSE 0
      /\ \A k \in 1..Len(s) - 1 - 1 + 1 : SubSeq(s, 1, Len(s) - 1)[k] = s[1 + k - 1]
  BY <1>2, SubSeqProperties
<1>4. ASSUME s # <<>>, NEW k \in 1..Len(s) - 1 PROVE SubSeq(s, 1, Len(s) - 1)[k] = s[k]
  <2>1. k \in 1..Len(s) - 1 - 1 + 1 /\ 1 + k - 1 = k BY <1>1, <1>4
  <2> QED BY <1>3, <2>1
<1>5. ASSUME s # <<>> PROVE Len(SubSeq(s, 1, Len(s) - 1)) = Len(s) - 1
  <2>1. Len(s) \in Nat \ {0} BY <1>1, <1>5
  <2>2. \A n \in Nat \ {0} : (IF 1 <= n - 1 THEN n - 1 - 1 + 1 ELSE 0) = n - 1 OBVIOUS
  <2> QED BY <1>3, <2>1, <2>2
<1> QED BY <1>3, <1>4, <1>5

\* One more turns odd into even.
LEMMA Parity ==
  ASSUME NEW n \in Nat
  PROVE /\ n % 2 \in {0, 1}
        /\ (n + 1) % 2 = 1 <=> n % 2 = 0
  OBVIOUS

\* One item less to come and one more counted keep the parity of the sum.
LEMMA ParityOfSum ==
  ASSUME NEW n \in Nat, NEW m \in Nat
  PROVE  m # 0 => ((m - 1) + (n + 1)) % 2 = (m + n) % 2
  OBVIOUS

-----------------------------------------------------------------------------
(* Trimmed.                                                                *)

\* The greatest element of a set is the one that bounds it.
LEMMA MaxIs ==
  ASSUME NEW S, S \subseteq Nat, NEW m \in S, \A x \in S : m >= x
  PROVE  Max(S) = m
<1>1. Max(S) \in S /\ \A x \in S : Max(S) >= x
  BY DEF Max
<1> DEFINE x == Max(S)
<1>2. x \in Nat /\ m \in Nat /\ x >= m /\ m >= x
  BY <1>1
<1> HIDE DEF x
<1>3. x = m
  BY <1>2
<1> QED BY <1>3 DEF x

\* The beginning of a sequence.
LEMMA Beginning ==
  ASSUME NEW S, NEW s \in Seq(S), NEW m \in 0..Len(s)
  PROVE  /\ SubSeq(s, 1, m) \in Seq(S) /\ Len(SubSeq(s, 1, m)) = m
         /\ \A i \in 1..m : SubSeq(s, 1, m)[i] = s[i]
<1>1. Len(s) \in Nat /\ m \in Nat /\ \A i \in 1..m : s[i] \in S
  BY LenProperties, ElementOfSeq
<1> DEFINE t == SubSeq(s, 1, m)
<1>2. /\ t \in Seq(S) /\ Len(t) = IF 1 <= m THEN m - 1 + 1 ELSE 0
      /\ \A i \in 1..m - 1 + 1 : t[i] = s[1 + i - 1]
  BY <1>1, SubSeqProperties
<1> HIDE DEF t
<1>3. Len(t) = m
  BY <1>1, <1>2
<1>4. ASSUME NEW i \in 1..m PROVE t[i] = s[i]
  <2>1. i \in 1..m - 1 + 1 /\ 1 + i - 1 = i
    BY <1>1
  <2> QED BY <1>2, <2>1
<1> QED BY <1>2, <1>3, <1>4 DEF t

\* The last level that takes more is where the open levels end.
LEMMA TrimmedTo ==
  ASSUME NEW F \in Seq(OpenSet), NEW m \in 1..Len(F), F[m].left # 0,
         \A i \in 1..Len(F) : i > m => F[i].left = 0
  PROVE  Trimmed(F) = SubSeq(F, 1, m)
<1> DEFINE S == {0} \cup {i \in 1..Len(F) : F[i].left # 0}
<1>1. Len(F) \in Nat /\ S \subseteq Nat /\ m \in S
  BY LenProperties
<1>2. \A x \in S : m >= x
  BY <1>1
<1>3. Max(S) = m
  <2> HIDE DEF S
  <2> QED BY <1>1, <1>2, MaxIs
<1> QED BY <1>3 DEF Trimmed

\* Levels that take no more are all closed.
LEMMA TrimmedAll ==
  ASSUME NEW F \in Seq(OpenSet), \A i \in 1..Len(F) : F[i].left = 0
  PROVE  Trimmed(F) = <<>>
<1> DEFINE S == {0} \cup {i \in 1..Len(F) : F[i].left # 0}
<1>1. S \subseteq Nat /\ 0 \in S /\ \A x \in S : 0 >= x
  OBVIOUS
<1>2. Max(S) = 0
  <2> HIDE DEF S
  <2> QED BY <1>1, MaxIs
<1>3. Len(SubSeq(F, 1, 0)) = 0 /\ SubSeq(F, 1, 0) \in Seq(OpenSet)
  BY LenProperties, Beginning
<1>4. SubSeq(F, 1, 0) = <<>>
  BY <1>3, EmptySeq
<1> QED BY <1>2, <1>4 DEF Trimmed

\* A level that takes more keeps all those around it open.
LEMMA TrimmedNone ==
  ASSUME NEW F \in Seq(OpenSet), NEW l \in OpenSet, l.left # 0
  PROVE  Trimmed(Append(F, l)) = Append(F, l)
<1> DEFINE G == Append(F, l)
           m == Len(F) + 1
<1>1. Len(F) \in Nat /\ G \in Seq(OpenSet) /\ Len(G) = m /\ G[m] = l
  BY LenProperties, AppendProperties
<1> HIDE DEF G
<1>2. m \in 1..Len(G) /\ \A i \in 1..Len(G) : ~(i > m)
  BY <1>1
<1>3. Trimmed(G) = SubSeq(G, 1, m)
  BY <1>1, <1>2, TrimmedTo
<1>4. SubSeq(G, 1, m) = G
  BY <1>1
<1> QED BY <1>3, <1>4 DEF G

\* One level put behind others.
LEMMA ConcatOne ==
  ASSUME NEW S, NEW s \in Seq(S), NEW x \in S
  PROVE  s \o <<x>> = Append(s, x)
  OBVIOUS

\* The last level becomes another one.
LEMMA LastReplaced ==
  ASSUME NEW S, NEW s \in Seq(S), NEW x \in S, NEW y \in S
  PROVE  [Append(s, x) EXCEPT ![Len(s) + 1] = y] = Append(s, y)
<1> DEFINE t == Append(s, x)
           u == Append(s, y)
           n == Len(s) + 1
           v == [t EXCEPT ![n] = y]
<1>1. /\ Len(s) \in Nat
      /\ t \in Seq(S) /\ Len(t) = n /\ \A i \in 1..Len(s) : t[i] = s[i]
      /\ u \in Seq(S) /\ Len(u) = n /\ u[n] = y /\ \A i \in 1..Len(s) : u[i] = s[i]
  BY LenProperties, AppendProperties
<1> HIDE DEF t, u
<1>2. n \in 1..Len(t) /\ n \notin 1..Len(s) /\ \A i \in 1..n : i = n \/ i \in 1..Len(s)
  BY <1>1
<1> HIDE DEF n
<1>3. v \in Seq(S) /\ Len(v) = Len(t) /\ \A j \in 1..Len(t) : v[j] = IF j = n THEN y ELSE t[j]
  BY <1>1, <1>2, ExceptSeq
<1> HIDE DEF v
<1>4. \A i \in 1..Len(v) : v[i] = u[i]
  BY <1>1, <1>2, <1>3
<1>5. v = u
  BY <1>1, <1>3, <1>4, SeqEqual
<1> QED BY <1>5 DEF v, t, u, n

\* A set of natural numbers below a bound has a greatest element.
LEMMA MaxIn ==
  ASSUME NEW n \in Nat, NEW S, S \subseteq 0..n, S # {}
  PROVE  Max(S) \in S /\ \A x \in S : Max(S) >= x
<1> DEFINE R == OpToRel(<, Nat)
           T == {d \in 0..n : n - d \in S}
<1>1. IsWellFoundedOn(R, Nat)
  BY NatLessThanWellFounded
<1>2. \A x, y \in Nat : x < y => <<x, y>> \in R
  BY DEF OpToRel
<1> HIDE DEF R
<1>3. T # {} /\ T \in SUBSET Nat
  <2>1. PICK x : x \in S /\ x \in 0..n
    OBVIOUS
  <2>2. n - x \in T
    <3>1. n - x \in 0..n /\ n - (n - x) = x
      BY <2>1
    <3> QED BY <2>1, <3>1
  <2> QED BY <2>2
<1>4. PICK d \in T : \A y \in T : ~(<<y, d>> \in R)
  <2> HIDE DEF T
  <2> QED BY <1>1, <1>3, WFMin
<1> DEFINE m == n - d
<1>5. d \in 0..n /\ m \in S
  BY <1>4
<1>6. ASSUME NEW x \in S PROVE m >= x
  <2>1. x \in 0..n /\ n - x \in 0..n /\ n - (n - x) = x
    OBVIOUS
  <2>2. n - x \in T
    BY <2>1
  <2>3. ~(n - x < d)
    <3>1. n - x \in Nat /\ d \in Nat
      BY <1>5, <2>1
    <3> HIDE DEF T
    <3> QED BY <1>2, <1>4, <2>2, <3>1
  <2> QED BY <1>5, <2>1, <2>3
<1> HIDE DEF m, T
<1>7. S \subseteq Nat
  OBVIOUS
<1>8. Max(S) = m
  BY <1>5, <1>6, <1>7, MaxIs
<1> QED BY <1>5, <1>6, <1>8

\* A level that takes no more, as the last one, is closed.
LEMMA TrimmedLast ==
  ASSUME NEW F \in Seq(OpenSet), NEW l \in OpenSet, l.left = 0
  PROVE  Trimmed(Append(F, l)) = Trimmed(F)
<1> DEFINE G == Append(F, l)
           n == Len(F)
           S == {0} \cup {i \in 1..n : F[i].left # 0}
           T == {0} \cup {i \in 1..Len(G) : G[i].left # 0}
<1>1. n \in Nat /\ G \in Seq(OpenSet) /\ Len(G) = n + 1 /\ G[n + 1] = l
      /\ \A i \in 1..n : G[i] = F[i]
  BY LenProperties, AppendProperties
<1> HIDE DEF G
<1>2. S = T
  BY <1>1
<1> DEFINE m == Max(S)
<1>3. m \in 0..n
  <2>1. S \subseteq 0..n /\ S # {}
    BY <1>1
  <2> HIDE DEF S
  <2>2. Max(S) \in S
    BY <1>1, <2>1, MaxIn
  <2> QED BY <2>1, <2>2
<1>4. Trimmed(F) = SubSeq(F, 1, m)
  BY DEF Trimmed
<1>5. Trimmed(G) = SubSeq(G, 1, m)
  <2>1. Trimmed(G) = SubSeq(G, 1, Max(T))
    BY DEF Trimmed
  <2> HIDE DEF S, T
  <2> QED BY <1>2, <2>1
<1> HIDE DEF m
<1>6. m \in 0..Len(G)
  BY <1>1, <1>3
<1>7. /\ SubSeq(F, 1, m) \in Seq(OpenSet) /\ Len(SubSeq(F, 1, m)) = m
      /\ \A i \in 1..m : SubSeq(F, 1, m)[i] = F[i]
  BY <1>3, Beginning
<1>8. /\ SubSeq(G, 1, m) \in Seq(OpenSet) /\ Len(SubSeq(G, 1, m)) = m
      /\ \A i \in 1..m : SubSeq(G, 1, m)[i] = G[i]
  BY <1>1, <1>6, Beginning
<1>9. \A i \in 1..m : SubSeq(F, 1, m)[i] = SubSeq(G, 1, m)[i]
  BY <1>1, <1>3, <1>7, <1>8
<1>10. SubSeq(F, 1, m) = SubSeq(G, 1, m)
  BY <1>7, <1>8, <1>9, SeqEqual
<1> QED BY <1>4, <1>5, <1>10 DEF G
=============================================================================
