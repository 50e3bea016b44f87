-------------------------- MODULE CborDecodeProofs --------------------------
(***************************************************************************)
(* The decoder's recursion, its block stack and the grammar agree, for     *)
(* streams of any length and depth and all announced lengths: the          *)
(* properties of CborDecode, and what CborDiag prints of them.             *)
(*                                                                         *)
(* The inductive invariant has two parts.  Whatever the stream, the blocks *)
(* are the loops the decoder is in (Shape).  And as long as the stream has *)
(* nothing that decode.c does not cope with, the levels open by the        *)
(* grammar are, up to those that are complete, what the loops still have   *)
(* to do (LevelsOf), and the blocks have counted what they have done.      *)
(*                                                                         *)
(* The diagnostics of CborDiag come behind them, with an invariant of      *)
(* their own (Logging): what has been written so far, read by the reader   *)
(* of CborDiag, is at the place of the blocks, and the indentation is that *)
(* of the blocks and the keys among them.                                  *)
(***************************************************************************)
EXTENDS CborDiag, CborSyntaxProofs, FiniteSetTheorems

CallSet == [type : {"array", "map", "text", "tag"}, indefinite : BOOLEAN, size : Nat, i : Nat]
BlockSet == [type : ItemTypes \cup {"root"}, indefinite : BOOLEAN, len : Nat, num_items : Nat]

\* The level of the loop c: begun is 1 once the item c is at has begun.
LevelOf(c, begun) ==
  [type |-> c.type,
   left |-> IF c.indefinite THEN Unbounded ELSE c.size - c.i - begun,
   odd  |-> c.indefinite /\ (c.i + begun) % 2 = 1]

\* Only the innermost loop may be at an item that has not begun; fresh says it is.
Begun(cs, k, fresh) == IF k = Len(cs) /\ fresh THEN 0 ELSE 1
LevelsOf(cs, fresh) == [k \in 1..Len(cs) |-> LevelOf(cs[k], Begun(cs, k, fresh))]

\* Loops the decoder is in without trouble: each has an item left for what it is at,
\* maps have pairs, and there are no tags among the items of a block of known length.
Proper(cs, fresh) ==
  \A k \in 1..Len(cs) :
    /\ cs[k].type # "text"
    /\ ~cs[k].indefinite => cs[k].i + Begun(cs, k, fresh) <= cs[k].size
    /\ cs[k].type = "map" /\ ~cs[k].indefinite => cs[k].size % 2 = 0
    /\ cs[k].type = "tag" =>
         /\ ~cs[k].indefinite /\ cs[k].size = 1 /\ cs[k].i = 0
         /\ k - 1 \in 1..Len(cs) => cs[k - 1].indefinite \/ cs[k - 1].type = "tag"

-----------------------------------------------------------------------------
(* The levels of the loops.                                                *)

LEMMA LevelType ==
  ASSUME NEW c \in CallSet, NEW begun \in {0, 1}, ~c.indefinite => c.i + begun <= c.size
  PROVE  LevelOf(c, begun) \in OpenSet
<1>1. c.size \in Nat /\ c.i \in Nat /\ c.indefinite \in BOOLEAN
      /\ c.type \in {"array", "map", "text", "tag"}
  BY DEF CallSet
<1> DEFINE l == IF c.indefinite THEN Unbounded ELSE c.size - c.i - begun
           o == c.indefinite /\ (c.i + begun) % 2 = 1
<1>2. l \in Nat \cup {Unbounded}
  BY <1>1
<1>3. o \in BOOLEAN
  BY <1>1, Zenon
<1>4. LevelOf(c, begun) = [type |-> c.type, left |-> l, odd |-> o]
  BY DEF LevelOf
<1> HIDE DEF l, o
<1> QED BY <1>1, <1>2, <1>3, <1>4 DEF OpenSet

LEMMA LevelsType ==
  ASSUME NEW cs \in Seq(CallSet), NEW fresh \in BOOLEAN, Proper(cs, fresh)
  PROVE  /\ LevelsOf(cs, fresh) \in Seq(OpenSet) /\ Len(LevelsOf(cs, fresh)) = Len(cs)
         /\ \A k \in 1..Len(cs) : LevelsOf(cs, fresh)[k] = LevelOf(cs[k], Begun(cs, k, fresh))
<1>1. Len(cs) \in Nat
  BY LenProperties
<1>2. ASSUME NEW k \in 1..Len(cs) PROVE LevelOf(cs[k], Begun(cs, k, fresh)) \in OpenSet
  <2>1. cs[k] \in CallSet
    BY ElementOf
  <2>2. Begun(cs, k, fresh) \in {0, 1}
    BY DEF Begun
  <2>3. ~cs[k].indefinite => cs[k].i + Begun(cs, k, fresh) <= cs[k].size
    BY DEF Proper
  <2> QED BY <2>1, <2>2, <2>3, LevelType
<1>3. LevelsOf(cs, fresh) \in [1..Len(cs) -> OpenSet]
  BY <1>2 DEF LevelsOf
<1>4. LevelsOf(cs, fresh) \in Seq(OpenSet)
  BY <1>1, <1>3
<1>5. Len(LevelsOf(cs, fresh)) = Len(cs)
  BY <1>1, <1>3
<1> QED BY <1>4, <1>5 DEF LevelsOf

\* The level of a loop whose item begins.
LEMMA LevelBegins ==
  ASSUME NEW c \in CallSet, ~c.indefinite => c.i < c.size
  PROVE  TakenLevel(LevelOf(c, 0)) = LevelOf(c, 1)
<1>1. c.size \in Nat /\ c.i \in Nat /\ c.indefinite \in BOOLEAN
  BY DEF CallSet
<1>2. CASE c.indefinite
  <2> DEFINE o == c.indefinite /\ (c.i + 0) % 2 = 1
             q == c.indefinite /\ (c.i + 1) % 2 = 1
  <2>1. LevelOf(c, 0) = [type |-> c.type, left |-> Unbounded, odd |-> o]
        /\ LevelOf(c, 1) = [type |-> c.type, left |-> Unbounded, odd |-> q]
    BY <1>2 DEF LevelOf
  <2>2. (c.i + 0) % 2 = c.i % 2 /\ c.i % 2 \in {0, 1} /\ ((c.i + 1) % 2 = 1 <=> c.i % 2 = 0)
    BY <1>1, Parity
  <2>3. q <=> ~o
    BY <1>2, <2>2
  <2>4. q = ~o
    <3> HIDE DEF o
    <3> QED BY <2>3, Zenon
  <2> HIDE DEF o, q
  <2>5. TakenLevel(LevelOf(c, 0)) = [type |-> c.type, left |-> Unbounded, odd |-> ~o]
    BY <2>1 DEF TakenLevel
  <2> QED BY <2>1, <2>4, <2>5
<1>3. CASE ~c.indefinite
  <2> DEFINE l == c.size - c.i
  <2>1. l \in Nat /\ c.size - c.i - 0 = l /\ c.size - c.i - 1 = l - 1 /\ l # Unbounded
    BY <1>1, <1>3 DEF Unbounded
  <2>2. LevelOf(c, 0) = [type |-> c.type, left |-> c.size - c.i - 0, odd |-> FALSE]
        /\ LevelOf(c, 1) = [type |-> c.type, left |-> c.size - c.i - 1, odd |-> FALSE]
    BY <1>3 DEF LevelOf
  <2> HIDE DEF l
  <2>3. LevelOf(c, 0) = [type |-> c.type, left |-> l, odd |-> FALSE]
        /\ LevelOf(c, 1) = [type |-> c.type, left |-> l - 1, odd |-> FALSE]
    BY <2>1, <2>2
  <2>4. PICK d : d = LevelOf(c, 0)
    OBVIOUS
  <2>5. d = [type |-> c.type, left |-> l, odd |-> FALSE] /\ d.left = l
    BY <2>3, <2>4
  <2>6. TakenLevel(d) = [d EXCEPT !.left = @ - 1]
    BY <2>1, <2>5 DEF TakenLevel
  <2>7. [d EXCEPT !.left = @ - 1] = [type |-> c.type, left |-> l - 1, odd |-> FALSE]
    <3>1. PICK o : o = FALSE
      OBVIOUS
    <3>2. d = [type |-> c.type, left |-> l, odd |-> o]
      BY <2>5, <3>1
    <3>3. [d EXCEPT !.left = @ - 1] = [type |-> c.type, left |-> l - 1, odd |-> o]
      BY ONLY <3>2
    <3> QED BY <3>1, <3>3
  <2> QED BY <2>3, <2>4, <2>6, <2>7
<1> QED BY <1>1, <1>2, <1>3

\* The item that the innermost loop is at begins.
LEMMA LevelsBegin ==
  ASSUME NEW cs \in Seq(CallSet), Proper(cs, TRUE),
         cs # <<>> => (~cs[Len(cs)].indefinite => cs[Len(cs)].i < cs[Len(cs)].size)
  PROVE  /\ Trimmed(LevelsOf(cs, TRUE)) = LevelsOf(cs, TRUE)
         /\ Taken(LevelsOf(cs, TRUE)) = LevelsOf(cs, FALSE) /\ Proper(cs, FALSE)
         /\ cs = <<>> => LevelsOf(cs, TRUE) = <<>>
         /\ cs # <<>> => /\ LevelsOf(cs, TRUE) # <<>>
                         /\ Innermost(LevelsOf(cs, TRUE)) = LevelOf(cs[Len(cs)], 0)
<1> DEFINE F == LevelsOf(cs, TRUE)
           G == LevelsOf(cs, FALSE)
           n == Len(cs)
<1>1. n \in Nat /\ F \in Seq(OpenSet) /\ Len(F) = n
      /\ \A k \in 1..n : F[k] = LevelOf(cs[k], Begun(cs, k, TRUE))
  BY LenProperties, LevelsType
<1>2. Proper(cs, FALSE)
  <2> SUFFICES ASSUME NEW k \in 1..n, ~cs[k].indefinite
               PROVE  cs[k].i + Begun(cs, k, FALSE) <= cs[k].size
    BY DEF Proper
  <2>1. cs[k] \in CallSet
    BY ElementOf
  <2>2. cs[k].i + Begun(cs, k, TRUE) <= cs[k].size
    BY DEF Proper
  <2>3. CASE k = n
    <3>1. cs # <<>> /\ cs[k].i < cs[k].size
      BY <2>3, EmptySeq
    <3> QED BY <2>1, <3>1 DEF Begun, CallSet
  <2>4. CASE k # n
    BY <2>2, <2>4 DEF Begun
  <2> QED BY <2>3, <2>4
<1>3. G \in Seq(OpenSet) /\ Len(G) = n
      /\ \A k \in 1..n : G[k] = LevelOf(cs[k], Begun(cs, k, FALSE))
  BY <1>2, LevelsType
<1>4. CASE cs = <<>>
  <2>1. n = 0
    BY <1>4, EmptySeq
  <2>2. F = <<>> /\ G = <<>>
    BY <1>1, <1>3, <2>1, EmptySeq
  <2>3. Trimmed(F) = <<>>
    <3>1. F \in Seq(OpenSet) /\ Len(F) = 0
      BY <1>1, <2>1
    <3> HIDE DEF F
    <3>2. \A i \in 1..Len(F) : F[i].left = 0
      BY ONLY <3>1
    <3> QED BY <3>1, <3>2, TrimmedAll
  <2>4. Taken(F) = <<>>
    BY <2>2 DEF Taken
  <2> QED BY <1>2, <1>4, <2>2, <2>3, <2>4
<1>5. CASE cs # <<>>
  <2>1. n # 0 /\ n \in 1..n
    <3>1. n # 0
      BY <1>5, EmptySeq
    <3> QED BY <1>1, <3>1
  <2> DEFINE c == cs[n]
             l == LevelOf(c, 0)
             m == LevelOf(c, 1)
  <2>2. c \in CallSet /\ (~c.indefinite => c.i < c.size)
    BY <1>5, <2>1, ElementOf
  <2>3. F[n] = l /\ G[n] = m /\ l \in OpenSet /\ m \in OpenSet
    BY <1>1, <1>3, <2>1, ElementOf DEF Begun
  <2>4. TakenLevel(l) = m
    BY <2>2, LevelBegins
  <2>5. l.left # 0
    <3>1. c.size \in Nat /\ c.i \in Nat
      BY <2>2 DEF CallSet
    <3>2. l.left = IF c.indefinite THEN Unbounded ELSE c.size - c.i - 0
      BY DEF LevelOf
    <3> HIDE DEF c, l, m, n, F, G
    <3>3. CASE c.indefinite
      BY <3>2, <3>3 DEF Unbounded
    <3>4. CASE ~c.indefinite
      <4>1. c.size - c.i - 0 # 0
        BY <2>2, <3>1, <3>4
      <4> QED BY <3>2, <3>4, <4>1
    <3> QED BY <3>3, <3>4
  <2> HIDE DEF l, m, c, F, G
  <2>6. \A i \in 1..Len(F) : ~(i > n)
    BY <1>1
  <2>7. Trimmed(F) = F
    <3>1. Trimmed(F) = SubSeq(F, 1, n)
      BY <1>1, <2>1, <2>3, <2>5, <2>6, TrimmedTo
    <3>2. SubSeq(F, 1, n) = F
      BY <1>1, SubSeqFull
    <3> QED BY <3>1, <3>2
  <2>8. F # <<>> /\ Innermost(F) = l
    BY <1>1, <2>1, <2>3, EmptySeq DEF Innermost
  <2>9. Taken(F) = [F EXCEPT ![n] = m]
    BY <1>1, <2>4, <2>8 DEF Taken
  <2>10. Taken(F) \in Seq(OpenSet) /\ Len(Taken(F)) = n
         /\ \A j \in 1..n : Taken(F)[j] = IF j = n THEN m ELSE F[j]
    BY <1>1, <2>1, <2>3, <2>9, ExceptSeq
  <2>11. \A j \in 1..n : Taken(F)[j] = G[j]
    <3> SUFFICES ASSUME NEW j \in 1..n, j # n PROVE F[j] = G[j]
      BY <2>3, <2>10
    <3> QED BY <1>1, <1>3 DEF Begun, F, G
  <2>12. Taken(F) = G
    BY <1>3, <2>10, <2>11, SeqEqual DEF G
  <2> QED BY <1>2, <1>5, <2>7, <2>8, <2>12 DEF F, G, l, c
<1> QED BY <1>4, <1>5

\* The levels of two nests of loops are the same if they are one by one.
LEMMA SameLevels ==
  ASSUME NEW F \in Seq(OpenSet), NEW G \in Seq(OpenSet), Len(F) = Len(G),
         \A k \in 1..Len(F) : F[k] = G[k]
  PROVE  F = G
  BY SeqEqual

\* A loop is entered within the item of the innermost one.
LEMMA LevelsPush ==
  ASSUME NEW cs \in Seq(CallSet), NEW c \in CallSet, Proper(cs, FALSE), c.type # "text",
         c.i = 0, c.type = "map" /\ ~c.indefinite => c.size % 2 = 0,
         c.type = "tag" =>
           /\ ~c.indefinite /\ c.size = 1
           /\ cs # <<>> => cs[Len(cs)].indefinite \/ cs[Len(cs)].type = "tag"
  PROVE  /\ Proper(Append(cs, c), TRUE)
         /\ LevelsOf(cs, FALSE) \in Seq(OpenSet) /\ LevelOf(c, 0) \in OpenSet
         /\ LevelsOf(Append(cs, c), TRUE) = Append(LevelsOf(cs, FALSE), LevelOf(c, 0))
<1> DEFINE n == Len(cs)
           ds == Append(cs, c)
<1>1. /\ n \in Nat /\ ds \in Seq(CallSet) /\ Len(ds) = n + 1
      /\ ds[n + 1] = c /\ \A k \in 1..n : ds[k] = cs[k]
  BY LenProperties, AppendProperties
<1> HIDE DEF ds
<1>2. ASSUME NEW k \in 1..n PROVE Begun(ds, k, TRUE) = 1 /\ Begun(cs, k, FALSE) = 1
  BY <1>1 DEF Begun
<1>3. Begun(ds, n + 1, TRUE) = 0
  BY <1>1 DEF Begun
<1>4. Proper(ds, TRUE)
  <2>1. ASSUME NEW k \in 1..n
        PROVE  /\ ds[k].type # "text"
               /\ ~ds[k].indefinite => ds[k].i + Begun(ds, k, TRUE) <= ds[k].size
               /\ ds[k].type = "map" /\ ~ds[k].indefinite => ds[k].size % 2 = 0
               /\ ds[k].type = "tag" =>
                    /\ ~ds[k].indefinite /\ ds[k].size = 1 /\ ds[k].i = 0
                    /\ k - 1 \in 1..Len(ds) => ds[k - 1].indefinite \/ ds[k - 1].type = "tag"
    <3>1. ds[k] = cs[k] /\ (k - 1 \in 1..Len(ds) => k - 1 \in 1..n /\ ds[k - 1] = cs[k - 1])
      BY <1>1
    <3> QED BY <1>2, <3>1 DEF Proper
  <2>2. /\ c.type # "text" /\ (~c.indefinite => c.i + 0 <= c.size)
        /\ c.type = "map" /\ ~c.indefinite => c.size % 2 = 0
        /\ c.type = "tag" => ~c.indefinite /\ c.size = 1 /\ c.i = 0
    BY DEF CallSet
  <2>3. ASSUME c.type = "tag", n + 1 - 1 \in 1..n + 1
        PROVE  ds[n + 1 - 1].indefinite \/ ds[n + 1 - 1].type = "tag"
    <3>1. n + 1 - 1 = n /\ n \in 1..n
      BY <1>1, <2>3
    <3>2. cs # <<>>
      BY <3>1, EmptySeq
    <3> QED BY <1>1, <2>3, <3>1, <3>2
  <2>4. \A k \in 1..Len(ds) : k \in 1..n \/ k = n + 1
    BY <1>1
  <2>5. ASSUME NEW k, k = n + 1
        PROVE  /\ ds[k].type # "text"
               /\ ~ds[k].indefinite => ds[k].i + Begun(ds, k, TRUE) <= ds[k].size
               /\ ds[k].type = "map" /\ ~ds[k].indefinite => ds[k].size % 2 = 0
               /\ ds[k].type = "tag" =>
                    /\ ~ds[k].indefinite /\ ds[k].size = 1 /\ ds[k].i = 0
                    /\ k - 1 \in 1..Len(ds) => ds[k - 1].indefinite \/ ds[k - 1].type = "tag"
    <3>1. ds[k] = c /\ Begun(ds, k, TRUE) = 0 /\ Len(ds) = n + 1
      BY <1>1, <1>3, <2>5
    <3>2. c.type = "tag" /\ k - 1 \in 1..n + 1 => ds[k - 1].indefinite \/ ds[k - 1].type = "tag"
      BY <2>3, <2>5
    <3> QED BY <2>2, <3>1, <3>2
  <2> QED BY <2>1, <2>4, <2>5 DEF Proper
<1> DEFINE F == LevelsOf(ds, TRUE)
           G == LevelsOf(cs, FALSE)
           l == LevelOf(c, 0)
<1>5. F \in Seq(OpenSet) /\ Len(F) = n + 1
      /\ \A k \in 1..n + 1 : F[k] = LevelOf(ds[k], Begun(ds, k, TRUE))
  BY <1>1, <1>4, LevelsType
<1>6. G \in Seq(OpenSet) /\ Len(G) = n /\ \A k \in 1..n : G[k] = LevelOf(cs[k], Begun(cs, k, FALSE))
  BY LevelsType
<1>7. \A k \in 1..n : F[k] = G[k]
  <2> SUFFICES ASSUME NEW k \in 1..n PROVE F[k] = G[k]
    OBVIOUS
  <2>1. k \in 1..n + 1
    BY <1>1
  <2> HIDE DEF F, G
  <2> QED BY <1>1, <1>2, <1>5, <1>6, <2>1
<1>8. n + 1 \in 1..n + 1
  BY <1>1
<1>9. F[n + 1] = l /\ l \in OpenSet
  <2> HIDE DEF F
  <2>1. F[n + 1] = l
    BY <1>1, <1>3, <1>5, <1>8
  <2>2. F[n + 1] \in OpenSet
    BY <1>5, <1>8, ElementOf
  <2> QED BY <2>1, <2>2
<1> HIDE DEF F, G, l
<1>10. /\ Append(G, l) \in Seq(OpenSet) /\ Len(Append(G, l)) = n + 1 /\ Append(G, l)[n + 1] = l
       /\ \A k \in 1..n : Append(G, l)[k] = G[k]
  BY <1>6, <1>9, AppendProperties
<1>11. \A k \in 1..n + 1 : k \in 1..n \/ k = n + 1
  BY <1>1
<1>12. \A k \in 1..Len(F) : F[k] = Append(G, l)[k]
  BY <1>5, <1>7, <1>9, <1>10, <1>11
<1>13. F = Append(G, l)
  BY <1>5, <1>10, <1>12, SameLevels
<1> QED BY <1>4, <1>6, <1>9, <1>13 DEF F, G, l, ds

\* The innermost loop is left.
LEMMA LevelsPop ==
  ASSUME NEW cs \in Seq(CallSet), cs # <<>>, NEW fresh \in BOOLEAN, Proper(cs, fresh)
  PROVE  LET b == IF fresh THEN 0 ELSE 1
             ds == SubSeq(cs, 1, Len(cs) - 1)
         IN  /\ Proper(ds, FALSE)
             /\ LevelsOf(ds, FALSE) \in Seq(OpenSet) /\ LevelOf(cs[Len(cs)], b) \in OpenSet
             /\ LevelsOf(cs, fresh) = Append(LevelsOf(ds, FALSE), LevelOf(cs[Len(cs)], b))
<1> DEFINE n == Len(cs)
           m == n - 1
           b == IF fresh THEN 0 ELSE 1
           ds == SubSeq(cs, 1, n - 1)
<1>1. n \in Nat /\ n # 0 /\ m \in Nat /\ n = m + 1
  BY LenProperties, EmptySeq
<1>2. ds \in Seq(CallSet) /\ Len(ds) = m /\ \A k \in 1..m : ds[k] = cs[k]
  BY AllButLast
<1> HIDE DEF m, ds
<1>3. ASSUME NEW k \in 1..m PROVE Begun(cs, k, fresh) = 1 /\ Begun(ds, k, FALSE) = 1
  BY <1>1 DEF Begun
<1>4. Begun(cs, n, fresh) = b
  BY DEF Begun
<1> HIDE DEF b
<1>5. Proper(ds, FALSE)
  <2> SUFFICES ASSUME NEW k \in 1..m
               PROVE  /\ ds[k].type # "text"
                      /\ ~ds[k].indefinite => ds[k].i + Begun(ds, k, FALSE) <= ds[k].size
                      /\ ds[k].type = "map" /\ ~ds[k].indefinite => ds[k].size % 2 = 0
                      /\ ds[k].type = "tag" =>
                           /\ ~ds[k].indefinite /\ ds[k].size = 1 /\ ds[k].i = 0
                           /\ k - 1 \in 1..Len(ds) => ds[k - 1].indefinite \/ ds[k - 1].type = "tag"
    BY <1>2 DEF Proper
  <2>1. /\ k \in 1..n /\ ds[k] = cs[k]
        /\ k - 1 \in 1..Len(ds) => k - 1 \in 1..n /\ ds[k - 1] = cs[k - 1]
    BY <1>1, <1>2
  <2> QED BY <1>3, <2>1 DEF Proper
<1> DEFINE F == LevelsOf(cs, fresh)
           G == LevelsOf(ds, FALSE)
           l == LevelOf(cs[n], b)
<1>6. F \in Seq(OpenSet) /\ Len(F) = n /\ \A k \in 1..n : F[k] = LevelOf(cs[k], Begun(cs, k, fresh))
  BY LevelsType
<1>7. G \in Seq(OpenSet) /\ Len(G) = m /\ \A k \in 1..m : G[k] = LevelOf(ds[k], Begun(ds, k, FALSE))
  BY <1>2, <1>5, LevelsType
<1>8. \A k \in 1..m : F[k] = G[k]
  <2> SUFFICES ASSUME NEW k \in 1..m PROVE F[k] = G[k]
    OBVIOUS
  <2>1. k \in 1..n
    BY <1>1
  <2> QED BY <1>2, <1>3, <1>6, <1>7, <2>1
<1>9. n \in 1..n
  BY <1>1
<1>10. F[n] = l /\ l \in OpenSet
  BY <1>4, <1>6, <1>9, ElementOf
<1> HIDE DEF F, G, l
<1>11. /\ Append(G, l) \in Seq(OpenSet) /\ Len(Append(G, l)) = n /\ Append(G, l)[n] = l
       /\ \A k \in 1..m : Append(G, l)[k] = G[k]
  BY <1>1, <1>7, <1>10, AppendProperties
<1>12. \A k \in 1..n : k \in 1..m \/ k = n
  BY <1>1
<1>13. \A k \in 1..Len(F) : F[k] = Append(G, l)[k]
  BY <1>6, <1>8, <1>10, <1>11, <1>12
<1>14. F = Append(G, l)
  BY <1>6, <1>11, <1>13, SameLevels
<1> QED BY <1>5, <1>7, <1>10, <1>14 DEF F, G, l, ds, b

\* The innermost loop goes on to its next item.
LEMMA LevelsNext ==
  ASSUME NEW cs \in Seq(CallSet), cs # <<>>, Proper(cs, FALSE), cs[Len(cs)].type # "tag"
  PROVE  LET ds == [cs EXCEPT ![Len(cs)].i = @ + 1]
         IN  Proper(ds, TRUE) /\ LevelsOf(ds, TRUE) = LevelsOf(cs, FALSE)
<1> DEFINE n == Len(cs)
           c == cs[n]
           d == [c EXCEPT !.i = @ + 1]
           ds == [cs EXCEPT ![n].i = @ + 1]
<1>1. n \in Nat /\ n # 0 /\ n \in 1..n
  <2>1. n \in Nat /\ n # 0
    BY LenProperties, EmptySeq
  <2> QED BY <2>1
<1>2. c \in CallSet
  BY <1>1, ElementOf
<1>3. /\ d \in CallSet /\ d.type = c.type /\ d.indefinite = c.indefinite /\ d.size = c.size
      /\ d.i = c.i + 1 /\ c.i \in Nat /\ c.size \in Nat
  BY <1>2 DEF CallSet
<1>4. ds = [cs EXCEPT ![n] = d]
  BY <1>1, <1>2 DEF CallSet
<1> HIDE DEF c, d, ds
<1>5. ds \in Seq(CallSet) /\ Len(ds) = n /\ \A k \in 1..n : ds[k] = IF k = n THEN d ELSE cs[k]
  BY <1>1, <1>3, <1>4, ExceptSeq
<1>6. c = cs[n]
  BY DEF c
<1>7. ASSUME NEW k \in 1..n
      PROVE  /\ ds[k].type = cs[k].type /\ ds[k].indefinite = cs[k].indefinite
             /\ ds[k].size = cs[k].size
             /\ ds[k].i + Begun(ds, k, TRUE) = cs[k].i + Begun(cs, k, FALSE)
             /\ k # n => ds[k].i = cs[k].i
  <2>1. CASE k = n
    BY <1>3, <1>5, <1>6, <2>1 DEF Begun
  <2>2. CASE k # n
    BY <1>5, <2>2 DEF Begun
  <2> QED BY <2>1, <2>2
<1>8. Proper(ds, TRUE)
  <2> SUFFICES ASSUME NEW k \in 1..n
               PROVE  /\ ds[k].type # "text"
                      /\ ~ds[k].indefinite => ds[k].i + Begun(ds, k, TRUE) <= ds[k].size
                      /\ ds[k].type = "map" /\ ~ds[k].indefinite => ds[k].size % 2 = 0
                      /\ ds[k].type = "tag" =>
                           /\ ~ds[k].indefinite /\ ds[k].size = 1 /\ ds[k].i = 0
                           /\ k - 1 \in 1..Len(ds) => ds[k - 1].indefinite \/ ds[k - 1].type = "tag"
    BY <1>5 DEF Proper
  <2>1. k - 1 \in 1..Len(ds) => k - 1 \in 1..n
    BY <1>5
  <2>2. ds[k].type = "tag" => k # n
    BY <1>3, <1>5, <1>6
  <2> QED BY <1>5, <1>7, <2>1, <2>2 DEF Proper
<1> DEFINE F == LevelsOf(ds, TRUE)
           G == LevelsOf(cs, FALSE)
<1>9. F \in Seq(OpenSet) /\ Len(F) = n /\ \A k \in 1..n : F[k] = LevelOf(ds[k], Begun(ds, k, TRUE))
  BY <1>5, <1>8, LevelsType
<1>10. G \in Seq(OpenSet) /\ Len(G) = n /\ \A k \in 1..n : G[k] = LevelOf(cs[k], Begun(cs, k, FALSE))
  BY LevelsType
<1>11. ASSUME NEW k \in 1..n
       PROVE  LevelOf(ds[k], Begun(ds, k, TRUE)) = LevelOf(cs[k], Begun(cs, k, FALSE))
  <2>1. ds[k] \in CallSet /\ cs[k] \in CallSet
    BY <1>5, ElementOf
  <2>2. /\ ds[k].i \in Nat /\ cs[k].i \in Nat /\ cs[k].size \in Nat
        /\ Begun(ds, k, TRUE) \in Nat /\ Begun(cs, k, FALSE) \in Nat
    BY <2>1 DEF CallSet, Begun
  <2>3. cs[k].size - ds[k].i - Begun(ds, k, TRUE) = cs[k].size - cs[k].i - Begun(cs, k, FALSE)
    <3>1. PICK a, p : a = ds[k].i /\ p = Begun(ds, k, TRUE)
      OBVIOUS
    <3>2. PICK b, q, s : b = cs[k].i /\ q = Begun(cs, k, FALSE) /\ s = cs[k].size
      OBVIOUS
    <3>3. a \in Nat /\ p \in Nat /\ b \in Nat /\ q \in Nat /\ s \in Nat /\ a + p = b + q
      BY <1>7, <2>2, <3>1, <3>2
    <3>4. s - a - p = s - b - q
      BY ONLY <3>3
    <3> QED BY <3>1, <3>2, <3>4
  <2> QED BY <1>7, <2>3 DEF LevelOf
<1> HIDE DEF F, G
<1>12. F = G
  BY <1>9, <1>10, <1>11, SameLevels
<1> QED BY <1>8, <1>12 DEF F, G, ds

-----------------------------------------------------------------------------
(* The blocks of the loops.                                                *)

\* The block b is that of the loop c; it has counted what the loop has been through,
\* with the item it is at unless that is still to begin.
Match(b, c, current, counted) ==
  /\ c.type \in ItemTypes
  /\ b.type = c.type /\ b.indefinite = c.indefinite /\ b.len = c.size
  /\ counted /\ ~b.indefinite => b.num_items = IF current THEN c.i ELSE c.i + 1

\* LoopsAndBlocksAgree with the places of the loops, for any blocks and loops.
Loops(p, bs, cs, fresh, counted) ==
  /\ p \in [1..Len(bs) - 1 -> 1..Len(cs)]
  /\ \A j, k \in 1..Len(bs) - 1 : j < k => p[j] < p[k]
  /\ \A i \in 1..Len(cs) : cs[i].type \in ItemTypes => \E k \in 1..Len(bs) - 1 : p[k] = i
  /\ \A k \in 1..Len(bs) - 1 : Match(bs[k + 1], cs[p[k]], k = Len(bs) - 1 /\ fresh, counted)

LEMMA LoopsChanged ==
  ASSUME NEW bs, NEW cs, NEW ds, NEW es, NEW p, NEW fresh, NEW counted, NEW fresh2, NEW counted2,
         Loops(p, bs, cs, fresh, counted), Len(ds) = Len(bs), Len(es) = Len(cs),
         \A i \in 1..Len(cs) : es[i].type = cs[i].type,
         \A k \in 1..Len(bs) - 1 :
           Match(bs[k + 1], cs[p[k]], k = Len(bs) - 1 /\ fresh, counted)
             => Match(ds[k + 1], es[p[k]], k = Len(bs) - 1 /\ fresh2, counted2)
  PROVE  Loops(p, ds, es, fresh2, counted2)
  BY DEF Loops

\* A tag or a string: its call has no block.
LEMMA LoopsCalled ==
  ASSUME NEW bs, NEW cs \in Seq(CallSet), NEW ds, NEW c \in CallSet, NEW p, NEW fresh, NEW counted,
         NEW fresh2, NEW counted2,
         Loops(p, bs, cs, fresh, counted), Len(ds) = Len(bs), c.type \notin ItemTypes,
         \A k \in 1..Len(bs) - 1 :
           Match(bs[k + 1], cs[p[k]], k = Len(bs) - 1 /\ fresh, counted)
             => Match(ds[k + 1], cs[p[k]], k = Len(bs) - 1 /\ fresh2, counted2)
  PROVE  Loops(p, ds, Append(cs, c), fresh2, counted2)
<1> DEFINE n == Len(cs)
           es == Append(cs, c)
<1>1. n \in Nat /\ Len(es) = n + 1 /\ es[n + 1] = c /\ \A i \in 1..n : es[i] = cs[i]
  BY LenProperties, AppendProperties
<1> HIDE DEF es
<1>2. \A i \in 1..n : i \in 1..n + 1
  BY <1>1
<1>3. p \in [1..Len(bs) - 1 -> 1..n]
  BY DEF Loops
<1>4. p \in [1..Len(ds) - 1 -> 1..Len(es)]
  BY <1>1, <1>2, <1>3
<1>5. \A i \in 1..Len(es) : es[i].type \in ItemTypes => i \in 1..n /\ es[i] = cs[i]
  BY <1>1
<1>6. \A k \in 1..Len(bs) - 1 : es[p[k]] = cs[p[k]]
  BY <1>1, <1>3
<1>7. \A i \in 1..Len(es) : es[i].type \in ItemTypes => \E k \in 1..Len(ds) - 1 : p[k] = i
  BY <1>5 DEF Loops
<1>8. \A k \in 1..Len(ds) - 1 : Match(ds[k + 1], es[p[k]], k = Len(ds) - 1 /\ fresh2, counted2)
  BY <1>6 DEF Loops
<1> QED BY <1>4, <1>7, <1>8 DEF Loops, es

\* It returns.
LEMMA LoopsReturned ==
  ASSUME NEW bs, NEW cs \in Seq(CallSet), NEW p, NEW fresh, NEW counted, NEW counted2,
         Loops(p, bs, cs, fresh, counted), counted2 => counted,
         cs # <<>>, cs[Len(cs)].type \notin ItemTypes
  PROVE  Loops(p, bs, SubSeq(cs, 1, Len(cs) - 1), fresh, counted2)
<1> DEFINE n == Len(cs)
           es == SubSeq(cs, 1, n - 1)
<1>1. n \in Nat /\ n # 0 /\ Len(es) = n - 1 /\ \A i \in 1..n - 1 : es[i] = cs[i]
  BY LenProperties, EmptySeq, AllButLast
<1> HIDE DEF es
<1>2. p \in [1..Len(bs) - 1 -> 1..n]
  BY DEF Loops
<1>3. \A k \in 1..Len(bs) - 1 : p[k] \in 1..n - 1 /\ es[p[k]] = cs[p[k]]
  <2> SUFFICES ASSUME NEW k \in 1..Len(bs) - 1 PROVE p[k] \in 1..n - 1 /\ es[p[k]] = cs[p[k]]
    OBVIOUS
  <2>1. p[k] \in 1..n /\ p[k] # n
    BY <1>2 DEF Loops, Match
  <2>2. p[k] \in 1..n - 1
    BY <1>1, <2>1
  <2> QED BY <1>1, <2>2
<1>4. p \in [1..Len(bs) - 1 -> 1..Len(es)]
  BY <1>1, <1>2, <1>3
<1>5. \A i \in 1..Len(es) : i \in 1..n /\ es[i] = cs[i]
  BY <1>1
<1>6. \A i \in 1..Len(es) : es[i].type \in ItemTypes => \E k \in 1..Len(bs) - 1 : p[k] = i
  BY <1>5 DEF Loops
<1>7. \A k \in 1..Len(bs) - 1 : Match(bs[k + 1], es[p[k]], k = Len(bs) - 1 /\ fresh, counted2)
  <2> SUFFICES ASSUME NEW k \in 1..Len(bs) - 1
               PROVE  Match(bs[k + 1], es[p[k]], k = Len(bs) - 1 /\ fresh, counted2)
    OBVIOUS
  <2>1. Match(bs[k + 1], cs[p[k]], k = Len(bs) - 1 /\ fresh, counted)
    BY DEF Loops
  <2> QED BY <1>3, <2>1 DEF Match
<1> QED BY <1>4, <1>6, <1>7 DEF Loops, es

\* A block and its loop begin.
LEMMA LoopsEntered ==
  ASSUME NEW bs, NEW cs \in Seq(CallSet), NEW ds \in Seq(BlockSet), NEW b \in BlockSet,
         NEW c \in CallSet, NEW p, NEW fresh, NEW counted, NEW counted2,
         Loops(p, bs, cs, fresh, counted), Len(ds) = Len(bs), Len(bs) # 0, Match(b, c, TRUE, counted2),
         \A k \in 1..Len(bs) - 1 :
           Match(bs[k + 1], cs[p[k]], k = Len(bs) - 1 /\ fresh, counted)
             => Match(ds[k + 1], cs[p[k]], FALSE, counted2)
  PROVE  \E q : Loops(q, Append(ds, b), Append(cs, c), TRUE, counted2)
<1> DEFINE n == Len(cs)
           m == Len(bs)
           es == Append(cs, c)
           fs == Append(ds, b)
           q == [k \in 1..m |-> IF k = m THEN n + 1 ELSE p[k]]
<1>1. n \in Nat /\ Len(es) = n + 1 /\ es[n + 1] = c /\ \A i \in 1..n : es[i] = cs[i]
  BY LenProperties, AppendProperties
<1>2. m \in Nat /\ m # 0 /\ Len(fs) = m + 1 /\ fs[m + 1] = b /\ \A i \in 1..m : fs[i] = ds[i]
  BY LenProperties, AppendProperties
<1> HIDE DEF es, fs, m, n
<1>3. p \in [1..m - 1 -> 1..n] /\ \A j, k \in 1..m - 1 : j < k => p[j] < p[k]
  BY DEF Loops, m, n
<1>4. Len(fs) - 1 = m /\ \A k \in 1..m : k = m \/ k \in 1..m - 1
  BY <1>2
<1>5. q \in [1..Len(fs) - 1 -> 1..Len(es)]
  <2>1. \A k \in 1..m - 1 : p[k] \in 1..n + 1
    BY <1>1, <1>3
  <2>2. n + 1 \in 1..n + 1
    BY <1>1
  <2> QED BY <1>1, <1>4, <2>1, <2>2
<1>6. /\ q[m] = n + 1
      /\ \A k \in 1..m - 1 : q[k] = p[k]
  BY <1>2
<1> HIDE DEF q
<1>7. \A j, k \in 1..m : j < k => q[j] < q[k]
  <2> SUFFICES ASSUME NEW j \in 1..m, NEW k \in 1..m, j < k PROVE q[j] < q[k]
    OBVIOUS
  <2>1. j \in 1..m - 1 /\ q[j] = p[j] /\ p[j] \in 1..n
    BY <1>2, <1>3, <1>6
  <2>2. CASE k = m
    BY <1>1, <1>6, <2>1, <2>2
  <2>3. CASE k \in 1..m - 1
    BY <1>3, <1>6, <2>1, <2>3
  <2> QED BY <1>4, <2>2, <2>3
<1>8. ASSUME NEW i \in 1..n + 1, es[i].type \in ItemTypes PROVE \E k \in 1..m : q[k] = i
  <2>1. CASE i = n + 1
    <3>1. m \in 1..m
      BY <1>2
    <3> QED BY <1>6, <2>1, <3>1
  <2>2. CASE i # n + 1
    <3>1. i \in 1..n /\ es[i] = cs[i]
      BY <1>1, <2>2
    <3>2. PICK k \in 1..m - 1 : p[k] = i
      BY <1>8, <3>1 DEF Loops, m, n
    <3>3. k \in 1..m
      BY <1>2
    <3> QED BY <1>6, <3>2, <3>3
  <2> QED BY <2>1, <2>2
<1>9. ASSUME NEW k \in 1..m PROVE Match(fs[k + 1], es[q[k]], k = m /\ TRUE, counted2)
  <2>1. CASE k = m
    BY <1>1, <1>2, <1>6, <2>1
  <2>2. CASE k \in 1..m - 1
    <3>1. fs[k + 1] = ds[k + 1] /\ q[k] = p[k] /\ es[q[k]] = cs[p[k]] /\ k # m
      BY <1>1, <1>2, <1>3, <1>6, <2>2
    <3>2. Match(ds[k + 1], cs[p[k]], FALSE, counted2)
      BY <2>2 DEF Loops, m
    <3> QED BY <3>1, <3>2 DEF Match
  <2> QED BY <1>4, <2>1, <2>2
<1>10. Loops(q, fs, es, TRUE, counted2)
  BY <1>1, <1>4, <1>5, <1>7, <1>8, <1>9 DEF Loops
<1> QED BY <1>10 DEF es, fs

\* They end together.
LeftPlaces(p, bs) == [k \in 1..Len(bs) - 1 - 1 |-> p[k]]

LEMMA LoopsLeft ==
  ASSUME NEW bs \in Seq(BlockSet), NEW cs \in Seq(CallSet), NEW p, NEW fresh, NEW counted, NEW counted2,
         Loops(p, bs, cs, fresh, counted), counted2 => counted, Len(bs) # 0,
         cs # <<>>, cs[Len(cs)].type \in ItemTypes
  PROVE  /\ Len(bs) > 1 /\ p[Len(bs) - 1] = Len(cs)
         /\ Loops(LeftPlaces(p, bs), SubSeq(bs, 1, Len(bs) - 1), SubSeq(cs, 1, Len(cs) - 1), FALSE,
                  counted2)
<1> DEFINE n == Len(cs)
           m == Len(bs) - 1
           es == SubSeq(cs, 1, n - 1)
           fs == SubSeq(bs, 1, Len(bs) - 1)
           q == [k \in 1..m - 1 |-> p[k]]
<1>1. n \in Nat /\ n # 0 /\ Len(es) = n - 1 /\ \A i \in 1..n - 1 : es[i] = cs[i]
  BY LenProperties, EmptySeq, AllButLast
<1>2. m \in Nat /\ Len(bs) = m + 1 /\ bs # <<>>
  BY LenProperties, EmptySeq
<1>3. Len(fs) = m /\ \A i \in 1..m : fs[i] = bs[i]
  BY <1>2, AllButLast
<1> HIDE DEF es, fs, m, n
<1>4. /\ p \in [1..m -> 1..n]
      /\ \A j, k \in 1..m : j < k => p[j] < p[k]
      /\ \A i \in 1..n : cs[i].type \in ItemTypes => \E k \in 1..m : p[k] = i
      /\ \A k \in 1..m : Match(bs[k + 1], cs[p[k]], k = m /\ fresh, counted)
  BY DEF Loops, m, n
<1>5. m # 0 /\ m \in 1..m /\ p[m] = n
  <2>1. n \in 1..n /\ cs[n].type \in ItemTypes
    BY <1>1 DEF n
  <2>2. PICK k \in 1..m : p[k] = n
    BY <1>4, <2>1
  <2>3. m # 0 /\ m \in 1..m
    BY <1>2
  <2>4. ~(k < m)
    BY <1>1, <1>4, <2>2, <2>3
  <2>5. k = m
    BY <1>2, <2>4
  <2> QED BY <2>2, <2>3, <2>5
<1>6. \A k \in 1..m - 1 : /\ k \in 1..m /\ k < m /\ k + 1 \in 1..m /\ p[k] \in 1..n - 1
                          /\ q[k] = p[k] /\ es[q[k]] = cs[p[k]] /\ fs[k + 1] = bs[k + 1]
  <2> SUFFICES ASSUME NEW k \in 1..m - 1
               PROVE  /\ k \in 1..m /\ k < m /\ k + 1 \in 1..m /\ p[k] \in 1..n - 1
                      /\ q[k] = p[k] /\ es[q[k]] = cs[p[k]] /\ fs[k + 1] = bs[k + 1]
    OBVIOUS
  <2>1. k \in 1..m /\ k < m /\ k + 1 \in 1..m /\ q[k] = p[k]
    BY <1>2
  <2>2. p[k] \in 1..n /\ p[k] < n
    BY <1>4, <1>5, <2>1
  <2>3. p[k] \in 1..n - 1
    BY <1>1, <2>2
  <2> HIDE DEF q
  <2> QED BY <1>1, <1>3, <2>1, <2>3
<1>7. q \in [1..m - 1 -> 1..n - 1]
  BY <1>6
<1> HIDE DEF q
<1>8. \A j, k \in 1..m - 1 : j < k => q[j] < q[k]
  BY <1>4, <1>6
<1>9. ASSUME NEW i \in 1..n - 1, es[i].type \in ItemTypes PROVE \E k \in 1..m - 1 : q[k] = i
  <2>1. i \in 1..n /\ i # n /\ es[i] = cs[i]
    BY <1>1
  <2>2. PICK k \in 1..m : p[k] = i
    BY <1>4, <1>9, <2>1
  <2>3. k \in 1..m - 1
    BY <1>2, <1>5, <2>1, <2>2
  <2> QED BY <1>6, <2>2, <2>3
<1>10. \A k \in 1..m - 1 : Match(fs[k + 1], es[q[k]], k = m - 1 /\ FALSE, counted2)
  <2> SUFFICES ASSUME NEW k \in 1..m - 1
               PROVE  Match(fs[k + 1], es[q[k]], k = m - 1 /\ FALSE, counted2)
    OBVIOUS
  <2>1. k # m /\ Match(bs[k + 1], cs[p[k]], k = m /\ fresh, counted)
    BY <1>4, <1>6
  <2> QED BY <1>6, <2>1 DEF Match
<1>11. Loops(q, fs, es, FALSE, counted2)
  BY <1>1, <1>3, <1>7, <1>8, <1>9, <1>10 DEF Loops
<1>12. q = LeftPlaces(p, bs)
  BY DEF LeftPlaces, q, m
<1>13. Len(bs) > 1
  BY <1>2, <1>5
<1> QED BY <1>5, <1>11, <1>12, <1>13 DEF m, n, es, fs

-----------------------------------------------------------------------------
(* The invariant.                                                          *)

Places == {"item", "items", "end", "return", "chunks", "finished", "crashed"} \cup Errors

DecodeTypes ==
  /\ next \in {Eof} \cup Tokens(MaxCount)
  /\ blocks \in Seq(BlockSet) /\ Len(blocks) # 0
  /\ calls \in Seq(CallSet)
  /\ at \in Places

\* The innermost loop is the one for the place the decoder is at; that over the
\* chunks of a string calls nothing.
WhereItIs ==
  /\ at \in {"items", "end"} => calls # <<>> /\ TopCall.type \in ItemTypes
  /\ at = "chunks" => calls # <<>> /\ TopCall.type = "text"
  /\ \A k \in 1..Len(calls) :
       calls[k].type = "text" => k = Len(calls) /\ at \in {"chunks"} \cup Errors

Fresh == at \in {"item", "items", "end"}

\* What is open is what the loops still have to do, and a loop goes on or ends
\* as the grammar has it.
Followed ==
  met = {} /\ at \notin Errors =>
    /\ legal /\ Proper(calls, Fresh) /\ open = Trimmed(LevelsOf(calls, Fresh))
    /\ at = "item" /\ calls # <<>> =>
         /\ ~TopCall.indefinite => TopCall.i < TopCall.size
         /\ TopCall.type # "tag" => ~IsBreak
    /\ at = "end" => (~TopCall.indefinite /\ TopCall.i >= TopCall.size) \/ IsBreak
    /\ at = "finished" => calls = <<>>

DecodeInv ==
  DecodeTypes /\ WhereItIs /\ LoopsAndBlocksAgree /\ Followed /\ RejectsOnlyIllFormed

-----------------------------------------------------------------------------
(* Types.                                                                  *)

LEMMA NextToken ==
  ASSUME NEW t \in {Eof} \cup Tokens(MaxCount)
  PROVE  /\ t.n \in Nat
         /\ t.kind \in {"eof", "uint", "text", "tag", "other", "break", "array_", "map_", "text_",
                        "array", "map"}
         /\ t.kind = "eof" <=> t = Eof
<1>1. MaxCount \in Nat /\ 0 \in Nat /\ \A n \in 0..MaxCount : n \in Nat
  BY BoundsAssumption
<1>2. \/ t = Eof
      \/ \E k \in {"uint", "text", "tag", "other", "break", "array_", "map_", "text_"} : t = Token(k, 0)
      \/ \E k \in {"array", "map"}, n \in 0..MaxCount : t = Token(k, n)
  BY DEF Tokens
<1>3. CASE t = Eof
  BY <1>3 DEF Eof, Token
<1>4. ASSUME NEW k \in {"uint", "text", "tag", "other", "break", "array_", "map_", "text_"},
             t = Token(k, 0)
      PROVE  t.n \in Nat /\ t.kind = k /\ t # Eof
  BY <1>4 DEF Eof, Token
<1>5. ASSUME NEW k \in {"array", "map"}, NEW n \in 0..MaxCount, t = Token(k, n)
      PROVE  t.n \in Nat /\ t.kind = k /\ t # Eof
  BY <1>1, <1>5 DEF Eof, Token
<1> QED BY <1>2, <1>3, <1>4, <1>5

LEMMA ReadNext == Read => next' \in {Eof} \cup Tokens(MaxCount)
  BY DEF Read, Coming

\* The block on top of the stack counts an item.
LEMMA CountedBlocks ==
  ASSUME DecodeTypes
  PROVE  /\ TopBlock \in BlockSet /\ Counted \in Seq(BlockSet) /\ Len(Counted) = Len(blocks)
         /\ \A k \in 1..Len(blocks) :
              Counted[k] = IF k = Len(blocks) THEN [TopBlock EXCEPT !.num_items = @ + 1] ELSE blocks[k]
<1> DEFINE n == Len(blocks)
           b == [TopBlock EXCEPT !.num_items = @ + 1]
<1>1. n \in Nat /\ n # 0 /\ n \in 1..n
  <2>1. n \in Nat /\ n # 0
    BY LenProperties DEF DecodeTypes
  <2> QED BY <2>1
<1>2. blocks \in Seq(BlockSet) /\ TopBlock \in BlockSet
  BY <1>1, ElementOf DEF DecodeTypes, TopBlock
<1>3. b \in BlockSet
  BY <1>2 DEF BlockSet
<1>4. Counted = [blocks EXCEPT ![n] = b]
  BY <1>1, <1>2 DEF Counted, TopBlock
<1> HIDE DEF b
<1>5. /\ [blocks EXCEPT ![n] = b] \in Seq(BlockSet) /\ Len([blocks EXCEPT ![n] = b]) = n
      /\ \A k \in 1..n : [blocks EXCEPT ![n] = b][k] = IF k = n THEN b ELSE blocks[k]
  BY <1>1, <1>2, <1>3, ExceptSeq
<1> QED BY <1>2, <1>4, <1>5 DEF b

\* The innermost call goes on to its next item.
Advanced == [calls EXCEPT ![Len(calls)].i = @ + 1]

LEMMA AdvancedCalls ==
  ASSUME DecodeTypes, calls # <<>>
  PROVE  /\ Len(calls) \in 1..Len(calls) /\ TopCall \in CallSet
         /\ Advanced \in Seq(CallSet) /\ Len(Advanced) = Len(calls) /\ Advanced # <<>>
         /\ \A k \in 1..Len(calls) :
              Advanced[k] = IF k = Len(calls) THEN [TopCall EXCEPT !.i = @ + 1] ELSE calls[k]
         /\ \A k \in 1..Len(calls) :
              /\ Advanced[k].type = calls[k].type /\ Advanced[k].indefinite = calls[k].indefinite
              /\ Advanced[k].size = calls[k].size
<1> DEFINE n == Len(calls)
           c == [TopCall EXCEPT !.i = @ + 1]
<1>1. n \in Nat /\ n # 0 /\ n \in 1..n
  <2>1. n \in Nat /\ n # 0
    BY LenProperties, EmptySeq DEF DecodeTypes
  <2> QED BY <2>1
<1>2. calls \in Seq(CallSet) /\ TopCall \in CallSet
  BY <1>1, ElementOf DEF DecodeTypes, TopCall
<1>3. c \in CallSet /\ c.type = TopCall.type /\ c.indefinite = TopCall.indefinite
      /\ c.size = TopCall.size
  BY <1>2 DEF CallSet
<1>4. Advanced = [calls EXCEPT ![n] = c]
  BY <1>1, <1>2 DEF Advanced, TopCall
<1> HIDE DEF c
<1>5. /\ [calls EXCEPT ![n] = c] \in Seq(CallSet) /\ Len([calls EXCEPT ![n] = c]) = n
      /\ \A k \in 1..n : [calls EXCEPT ![n] = c][k] = IF k = n THEN c ELSE calls[k]
  BY <1>1, <1>2, <1>3, ExceptSeq
<1>6. Advanced # <<>>
  BY <1>1, <1>4, <1>5, EmptySeq
<1>7. ASSUME NEW k \in 1..n
      PROVE  /\ Advanced[k].type = calls[k].type /\ Advanced[k].indefinite = calls[k].indefinite
             /\ Advanced[k].size = calls[k].size
  BY <1>3, <1>4, <1>5 DEF TopCall
<1> QED BY <1>1, <1>2, <1>4, <1>5, <1>6, <1>7 DEF c

\* The calls that begin.
LEMMA CallTypes ==
  ASSUME NEW type \in {"array", "map", "text", "tag"}, NEW indefinite \in BOOLEAN, NEW size \in Nat
  PROVE  Call(type, indefinite, size) \in CallSet
  BY DEF Call, CallSet

LEMMA BlockTypes ==
  ASSUME NEW type \in ItemTypes, NEW indefinite \in BOOLEAN, NEW size \in Nat
  PROVE  Block(type, indefinite, size) \in BlockSet
  BY DEF Block, BlockSet

\* The number of items decode_block_start expects.
Size(t) == IF t.kind = "map" THEN 2 * t.n ELSE t.n

LEMMA BeginTypes ==
  ASSUME NEW t \in {Eof} \cup Tokens(MaxCount), TypeOf(t) \in ItemTypes
  PROVE  /\ Indefinite(t) \in BOOLEAN /\ Size(t) \in Nat
         /\ \/ TypeOf(t) = "array" /\ t.kind \in {"array", "array_"}
            \/ TypeOf(t) = "map" /\ t.kind \in {"map", "map_"}
         /\ Call(TypeOf(t), Indefinite(t), Size(t)) \in CallSet
         /\ Block(TypeOf(t), Indefinite(t), Size(t)) \in BlockSet
<1>1. t.n \in Nat
  BY NextToken
<1>2. Size(t) \in Nat
  BY <1>1 DEF Size
<1>3. Indefinite(t) \in BOOLEAN
  BY DEF Indefinite
<1>4. \/ TypeOf(t) = "array" /\ t.kind \in {"array", "array_"}
      \/ TypeOf(t) = "map" /\ t.kind \in {"map", "map_"}
  BY DEF TypeOf, ItemTypes
<1>5. TypeOf(t) \in {"array", "map", "text", "tag"}
  BY <1>4
<1> QED BY <1>2, <1>3, <1>4, <1>5, CallTypes, BlockTypes

\* An iteration of the loop over chunks ends the loop, reads a chunk or meets the end
\* of the stream.
LEMMA ChunkCases ==
  ASSUME Chunk
  PROVE  \/ /\ IsBreak
            /\ at' \in {"return"} \cup (IF TopCall.i = 0 THEN {"crashed"} ELSE {})
            /\ calls' = CallerOf(calls) /\ Unread /\ UNCHANGED blocks
         \/ ~IsBreak /\ Read /\ blocks' = Counted /\ calls' = Advanced /\ at' \in {at} \cup Errors
         \/ /\ next = Eof /\ at' = "NB_ERR_EOF" /\ at' \in Errors
            /\ Unread /\ UNCHANGED <<blocks, calls>>
  BY DEF Chunk, Advanced, Errors

LEMMA TypesStep ==
  ASSUME DecodeTypes, WhereItIs, LoopsAndBlocksAgree, [Next]_vars
  PROVE  DecodeTypes'
<1>1. /\ next \in {Eof} \cup Tokens(MaxCount) /\ blocks \in Seq(BlockSet) /\ Len(blocks) # 0
      /\ calls \in Seq(CallSet) /\ at \in Places
  BY DEF DecodeTypes
<1>2. Counted \in Seq(BlockSet) /\ Len(Counted) # 0
  BY <1>1, CountedBlocks
<1>3. CASE Finish
  BY <1>1, <1>3 DEF Finish, Unread, DecodeTypes, Places
<1>4. CASE DecodeScalar
  <2>1. at' \in Places
    BY <1>4 DEF DecodeScalar, Places, Errors
  <2> QED BY <1>1, <1>2, <1>4, <2>1, ReadNext DEF DecodeScalar, DecodeTypes
<1>5. CASE DecodeTag
  <2>1. Call("tag", FALSE, 1) \in CallSet
    BY CallTypes
  <2>2. Append(calls, Call("tag", FALSE, 1)) \in Seq(CallSet)
    BY <1>1, <2>1, AppendProperties
  <2>3. calls' \in Seq(CallSet) /\ at' \in Places
    BY <1>1, <1>5, <2>2 DEF DecodeTag, Places, Errors
  <2> QED BY <1>1, <1>2, <1>5, <2>3, ReadNext DEF DecodeTag, DecodeTypes
<1>6. CASE DecodeBegin
  <2> DEFINE c == Call(TypeOf(next), Indefinite(next), Size(next))
             b == Block(TypeOf(next), Indefinite(next), Size(next))
  <2>1. c \in CallSet /\ b \in BlockSet
    BY <1>1, <1>6, BeginTypes DEF DecodeBegin
  <2>2. calls' = Append(calls, c) /\ blocks' = Append(Counted, b) /\ at' = "items"
    BY <1>6 DEF DecodeBegin, Size
  <2> HIDE DEF c, b
  <2>3. calls' \in Seq(CallSet) /\ blocks' \in Seq(BlockSet) /\ Len(blocks') # 0
    BY <1>1, <1>2, <2>1, <2>2, AppendProperties, LenProperties
  <2> QED BY <1>6, <2>2, <2>3, ReadNext DEF DecodeBegin, DecodeTypes, Places
<1>7. CASE DecodeString
  <2>1. TypeOf(next) = "text"
    BY <1>7 DEF DecodeString, TypeOf
  <2>2. Call("text", TRUE, 0) \in CallSet
    BY CallTypes
  <2>3. Append(calls, Call("text", TRUE, 0)) \in Seq(CallSet)
    BY <1>1, <2>2, AppendProperties
  <2> QED BY <1>1, <1>2, <1>7, <2>1, <2>3, ReadNext DEF DecodeString, DecodeTypes, Places
<1>8. CASE DecodeUnsupported
  BY <1>1, <1>2, <1>8, ReadNext DEF DecodeUnsupported, Unread, DecodeTypes, Places, Errors
<1>9. CASE Chunk
  <2>1. calls # <<>>
    BY <1>9 DEF Chunk, WhereItIs
  <2>2. CallerOf(calls) \in Seq(CallSet)
    BY <1>1, AllButLast DEF CallerOf
  <2>3. Advanced \in Seq(CallSet)
    BY <2>1, AdvancedCalls
  <2>4. CASE /\ at' \in {"return"} \cup (IF TopCall.i = 0 THEN {"crashed"} ELSE {})
             /\ calls' = CallerOf(calls) /\ Unread /\ UNCHANGED blocks
    <3>1. at' \in Places
      BY <2>4 DEF Places
    <3> QED BY <1>1, <2>2, <2>4, <3>1 DEF Unread, DecodeTypes
  <2>5. CASE Read /\ blocks' = Counted /\ calls' = Advanced /\ at' \in {at} \cup Errors
    <3>1. at' \in Places
      BY <1>1, <2>5 DEF Places
    <3> QED BY <1>2, <2>3, <2>5, <3>1, ReadNext DEF DecodeTypes
  <2>6. CASE at' \in Errors /\ Unread /\ UNCHANGED <<blocks, calls>>
    BY <1>1, <2>6 DEF Unread, DecodeTypes, Places
  <2> QED BY <1>9, <2>4, <2>5, <2>6, ChunkCases
<1>10. CASE NextItem
  BY <1>1, <1>10 DEF NextItem, Unread, DecodeTypes, Places
<1>11. CASE Return
  <2>1. CallerOf(calls) \in Seq(CallSet)
    BY <1>1, AllButLast DEF CallerOf
  <2>2. calls # <<>> => Advanced \in Seq(CallSet)
    BY AdvancedCalls
  <2>3. calls' \in Seq(CallSet)
    BY <1>1, <1>11, <2>1, <2>2 DEF Return, Advanced
  <2>4. at' \in Places
    BY <1>1, <1>11 DEF Return, Places
  <2> QED BY <1>1, <1>11, <2>3, <2>4 DEF Return, Unread, DecodeTypes
<1>12. CASE BlockEnd
  <2>1. CASE Unread /\ UNCHANGED <<blocks, calls>> /\ at' \in Errors
    BY <1>1, <2>1 DEF Unread, DecodeTypes, Places
  <2>2. CASE /\ Read \/ Unread
             /\ blocks' = SubSeq(blocks, 1, Len(blocks) - 1) /\ calls' = CallerOf(calls)
             /\ at' = "return"
    <3>1. calls' \in Seq(CallSet) /\ blocks' \in Seq(BlockSet)
      BY <1>1, <2>2, AllButLast DEF CallerOf
    <3>2. at = "end" /\ calls # <<>> /\ calls[Len(calls)].type \in ItemTypes
      BY <1>12 DEF BlockEnd, WhereItIs, TopCall
    <3>3. PICK place : place \in [1..Len(blocks) - 1 -> 1..Len(calls)]
                       /\ Loops(place, blocks, calls, TRUE, FALSE)
      BY <3>2, Zenon DEF LoopsAndBlocksAgree, Loops, Match
    <3>4. Len(blocks) > 1
      BY <1>1, <3>2, <3>3, LoopsLeft
    <3>5. Len(blocks') # 0
      <4>1. blocks # <<>> /\ Len(blocks) \in Nat
        BY <1>1, EmptySeq, LenProperties
      <4> QED BY <1>1, <2>2, <3>4, <4>1, AllButLast
    <3>6. next' \in {Eof} \cup Tokens(MaxCount)
      BY <1>1, <2>2, ReadNext DEF Unread
    <3> QED BY <2>2, <3>1, <3>5, <3>6 DEF DecodeTypes, Places
  <2> QED BY <1>12, <2>1, <2>2 DEF BlockEnd, Errors
<1>13. CASE UNCHANGED vars
  BY <1>1, <1>13 DEF vars, DecodeTypes
<1> QED BY <1>3, <1>4, <1>5, <1>6, <1>7, <1>8, <1>9, <1>10, <1>11, <1>12, <1>13 DEF Next

-----------------------------------------------------------------------------
(* Where the decoder is.                                                   *)

\* The last of the loops, and the others, after one is entered.
LEMMA Entered ==
  ASSUME NEW cs \in Seq(CallSet), NEW c \in CallSet
  PROVE  /\ Append(cs, c) # <<>> /\ Len(Append(cs, c)) = Len(cs) + 1
         /\ Append(cs, c)[Len(Append(cs, c))] = c
         /\ \A k \in 1..Len(Append(cs, c)) :
              k = Len(Append(cs, c)) \/ (k \in 1..Len(cs) /\ Append(cs, c)[k] = cs[k])
<1> DEFINE n == Len(cs)
           d == Append(cs, c)
<1>1. n \in Nat /\ d \in Seq(CallSet) /\ Len(d) = n + 1 /\ d[n + 1] = c
      /\ \A k \in 1..n : d[k] = cs[k]
  BY LenProperties, AppendProperties
<1> HIDE DEF d
<1>2. d # <<>>
  BY <1>1, EmptySeq
<1>3. \A k \in 1..Len(d) : k = Len(d) \/ k \in 1..n
  BY <1>1
<1> QED BY <1>1, <1>2, <1>3 DEF d

LEMMA WhereStep ==
  ASSUME DecodeTypes, WhereItIs, [Next]_vars
  PROVE  WhereItIs'
<1>1. calls \in Seq(CallSet) /\ Len(calls) \in Nat
  BY LenProperties DEF DecodeTypes
<1>2. ASSUME at \notin {"chunks"} \cup Errors, NEW k \in 1..Len(calls) PROVE calls[k].type # "text"
  BY <1>2 DEF WhereItIs
<1>3. CASE Finish \/ DecodeScalar \/ DecodeUnsupported
  <2>1. calls' = calls /\ at = "item" /\ at' \notin {"items", "end", "chunks"}
    BY <1>3 DEF Finish, DecodeScalar, DecodeUnsupported
  <2>2. \A k \in 1..Len(calls) : calls[k].type # "text"
    BY <1>2, <2>1 DEF Errors
  <2> QED BY <2>1, <2>2 DEF WhereItIs
<1>4. CASE DecodeTag
  <2> DEFINE c == Call("tag", FALSE, 1)
  <2>1. c \in CallSet /\ c.type = "tag"
    BY CallTypes DEF Call
  <2>2. \/ calls' = Append(calls, c) /\ at = "item" /\ at' = "item"
        \/ calls' = calls /\ at = "item" /\ at' = "NB_ERR_RANGE"
    BY <1>4 DEF DecodeTag
  <2> HIDE DEF c
  <2>3. \A k \in 1..Len(calls') : calls'[k].type # "text"
    <3>1. \A k \in 1..Len(calls) : calls[k].type # "text"
      BY <1>2, <2>2 DEF Errors
    <3> QED BY <1>1, <2>1, <2>2, <3>1, Entered
  <2> QED BY <2>2, <2>3 DEF WhereItIs
<1>5. CASE DecodeBegin
  <2> DEFINE c == Call(TypeOf(next), Indefinite(next), Size(next))
  <2>1. c \in CallSet /\ c.type = TypeOf(next) /\ c.type \in ItemTypes
    BY <1>5, BeginTypes DEF DecodeBegin, DecodeTypes, Call
  <2>2. calls' = Append(calls, c) /\ at = "item" /\ at' = "items"
    BY <1>5 DEF DecodeBegin, Size
  <2> HIDE DEF c
  <2>3. calls' # <<>> /\ TopCall' = c
    BY <1>1, <2>1, <2>2, Entered DEF TopCall
  <2>4. \A k \in 1..Len(calls') : calls'[k].type # "text"
    <3>1. \A k \in 1..Len(calls) : calls[k].type # "text"
      BY <1>2, <2>2 DEF Errors
    <3> QED BY <1>1, <2>1, <2>2, <3>1, Entered DEF ItemTypes
  <2> QED BY <2>1, <2>2, <2>3, <2>4 DEF WhereItIs
<1>6. CASE DecodeString
  <2> DEFINE c == Call("text", TRUE, 0)
  <2>1. c \in CallSet /\ c.type = "text"
    BY CallTypes DEF Call
  <2>2. calls' = Append(calls, c) /\ at = "item" /\ at' = "chunks"
    BY <1>6 DEF DecodeString, TypeOf
  <2> HIDE DEF c
  <2>3. calls' # <<>> /\ TopCall' = c
    BY <1>1, <2>1, <2>2, Entered DEF TopCall
  <2>4. \A k \in 1..Len(calls') : calls'[k].type = "text" => k = Len(calls')
    <3>1. \A k \in 1..Len(calls) : calls[k].type # "text"
      BY <1>2, <2>2 DEF Errors
    <3> QED BY <1>1, <2>1, <2>2, <3>1, Entered
  <2> QED BY <2>1, <2>2, <2>3, <2>4 DEF WhereItIs
<1>7. CASE Chunk
  <2>1. at = "chunks" /\ calls # <<>> /\ TopCall.type = "text"
    BY <1>7 DEF Chunk, WhereItIs
  <2>2. CASE calls' = CallerOf(calls) /\ at' \in {"return", "crashed"}
    <3>1. Len(calls') = Len(calls) - 1 /\ \A k \in 1..Len(calls) - 1 : calls'[k] = calls[k]
      BY <1>1, <2>1, <2>2, AllButLast DEF CallerOf
    <3>2. \A k \in 1..Len(calls') : calls'[k].type # "text"
      <4>1. \A k \in 1..Len(calls) - 1 : k \in 1..Len(calls) /\ k # Len(calls)
        BY <1>1
      <4> QED BY <3>1, <4>1 DEF WhereItIs
    <3> QED BY <2>2, <3>2 DEF WhereItIs
  <2>3. CASE calls' = Advanced /\ at' \in {"chunks"} \cup Errors
    <3>1. /\ calls' # <<>> /\ Len(calls') = Len(calls) /\ Len(calls) \in 1..Len(calls)
          /\ \A k \in 1..Len(calls) : calls'[k].type = calls[k].type
      BY <2>1, <2>3, AdvancedCalls
    <3>2. TopCall'.type = "text"
      BY <2>1, <3>1 DEF TopCall
    <3> QED BY <2>3, <3>1, <3>2 DEF WhereItIs, Errors
  <2>4. CASE calls' = calls /\ at' \in Errors
    BY <2>1, <2>4 DEF WhereItIs, Errors
  <2> QED BY <1>7, <2>1, <2>2, <2>3, <2>4, ChunkCases
<1>8. CASE NextItem
  BY <1>8 DEF NextItem, WhereItIs, TopCall, Errors
<1>9. CASE Return
  <2>1. \A k \in 1..Len(calls) : calls[k].type # "text"
    BY <1>2, <1>9 DEF Return, Errors
  <2>2. CASE calls = <<>> /\ calls' = calls /\ at' = "item"
    BY <2>1, <2>2 DEF WhereItIs
  <2>3. CASE calls # <<>> /\ calls' = CallerOf(calls) /\ at' = "return"
    <3>1. Len(calls') = Len(calls) - 1 /\ \A k \in 1..Len(calls) - 1 : calls'[k] = calls[k]
      BY <1>1, <2>3, AllButLast DEF CallerOf
    <3>2. \A k \in 1..Len(calls') : k \in 1..Len(calls)
      BY <1>1, <3>1
    <3> QED BY <2>1, <2>3, <3>1, <3>2 DEF WhereItIs
  <2>4. CASE calls # <<>> /\ TopCall.type # "tag" /\ calls' = Advanced /\ at' = "items"
    <3>1. /\ calls' # <<>> /\ Len(calls') = Len(calls) /\ Len(calls) \in 1..Len(calls)
          /\ \A k \in 1..Len(calls) : calls'[k].type = calls[k].type
      BY <2>4, AdvancedCalls
    <3>2. TopCall \in CallSet /\ TopCall.type # "text"
      BY <2>1, <2>4, <3>1, AdvancedCalls DEF TopCall
    <3>3. TopCall'.type \in ItemTypes
      BY <2>4, <3>1, <3>2 DEF TopCall, CallSet, ItemTypes
    <3> QED BY <2>1, <2>4, <3>1, <3>3 DEF WhereItIs
  <2> QED BY <1>9, <2>2, <2>3, <2>4 DEF Return, Advanced
<1>10. CASE BlockEnd
  <2>1. at = "end" /\ calls # <<>> /\ \A k \in 1..Len(calls) : calls[k].type # "text"
    BY <1>2, <1>10 DEF BlockEnd, WhereItIs, Errors
  <2>2. CASE calls' = calls /\ at' \in Errors
    BY <2>1, <2>2 DEF WhereItIs, Errors
  <2>3. CASE calls' = CallerOf(calls) /\ at' = "return"
    <3>1. Len(calls') = Len(calls) - 1 /\ \A k \in 1..Len(calls) - 1 : calls'[k] = calls[k]
      BY <1>1, <2>1, <2>3, AllButLast DEF CallerOf
    <3>2. \A k \in 1..Len(calls') : k \in 1..Len(calls)
      BY <1>1, <3>1
    <3> QED BY <2>1, <2>3, <3>1, <3>2 DEF WhereItIs
  <2> QED BY <1>10, <2>2, <2>3 DEF BlockEnd, Errors
<1>11. CASE UNCHANGED vars
  BY <1>11 DEF vars, WhereItIs, TopCall
<1> QED BY <1>3, <1>4, <1>5, <1>6, <1>7, <1>8, <1>9, <1>10, <1>11 DEF Next

-----------------------------------------------------------------------------
(* LoopsAndBlocksAgree.                                                    *)

Innocent == met = {} /\ at \notin Errors

LEMMA AgreeIs ==
  LoopsAndBlocksAgree <=> \E p : Loops(p, blocks, calls, Fresh, Innocent)
<1>1. ASSUME LoopsAndBlocksAgree PROVE \E p : Loops(p, blocks, calls, Fresh, Innocent)
  <2>1. PICK p \in [1..Len(blocks) - 1 -> 1..Len(calls)] :
               /\ \A j, k \in 1..Len(blocks) - 1 : j < k => p[j] < p[k]
               /\ \A i \in 1..Len(calls) :
                    calls[i].type \in ItemTypes => \E k \in 1..Len(blocks) - 1 : p[k] = i
               /\ \A k \in 1..Len(blocks) - 1 :
                    LET b == blocks[k + 1]
                        c == calls[p[k]]
                        current == k = Len(blocks) - 1 /\ at \in {"item", "items", "end"}
                    IN  /\ c.type \in ItemTypes
                        /\ b.type = c.type /\ b.indefinite = c.indefinite /\ b.len = c.size
                        /\ met = {} /\ ~b.indefinite /\ at \notin Errors =>
                             b.num_items = IF current THEN c.i ELSE c.i + 1
    BY <1>1, Zenon DEF LoopsAndBlocksAgree
  <2>2. \A k \in 1..Len(blocks) - 1 :
          Match(blocks[k + 1], calls[p[k]], k = Len(blocks) - 1 /\ Fresh, Innocent)
    BY <2>1, Zenon DEF Match, Fresh, Innocent
  <2>3. Loops(p, blocks, calls, Fresh, Innocent)
    BY <2>1, <2>2, Zenon DEF Loops
  <2> QED BY <2>3
<1>2. ASSUME NEW p, Loops(p, blocks, calls, Fresh, Innocent) PROVE LoopsAndBlocksAgree
  <2>1. p \in [1..Len(blocks) - 1 -> 1..Len(calls)]
    BY <1>2, Zenon DEF Loops
  <2>2. \A k \in 1..Len(blocks) - 1 :
          Match(blocks[k + 1], calls[p[k]], k = Len(blocks) - 1 /\ Fresh, Innocent)
    BY <1>2, Zenon DEF Loops
  <2>3. \A k \in 1..Len(blocks) - 1 :
           LET b == blocks[k + 1]
               c == calls[p[k]]
               current == k = Len(blocks) - 1 /\ at \in {"item", "items", "end"}
           IN  /\ c.type \in ItemTypes
               /\ b.type = c.type /\ b.indefinite = c.indefinite /\ b.len = c.size
               /\ met = {} /\ ~b.indefinite /\ at \notin Errors =>
                    b.num_items = IF current THEN c.i ELSE c.i + 1
    BY <2>2, Zenon DEF Match, Fresh, Innocent
  <2> QED BY <1>2, <2>1, <2>3, Zenon DEF Loops, LoopsAndBlocksAgree
<1> QED BY <1>1, <1>2

LEMMA AgreeWas ==
  ASSUME LoopsAndBlocksAgree PROVE \E p : Loops(p, blocks, calls, Fresh, Innocent)
  BY AgreeIs

LEMMA AgreeWillBe == (\E p : Loops(p, blocks, calls, Fresh, Innocent))' => LoopsAndBlocksAgree'
  BY AgreeIs, PTL

\* The block on top counts an item of the loop it is the block of.
LEMMA MatchCounted ==
  ASSUME DecodeTypes, NEW c, NEW k \in 1..Len(blocks) - 1, NEW counted, NEW counted2,
         counted2 => counted, Match(blocks[k + 1], c, k = Len(blocks) - 1 /\ TRUE, counted)
  PROVE  Match(Counted[k + 1], c, FALSE, counted2)
<1>1. Len(blocks) \in Nat
  BY LenProperties DEF DecodeTypes
<1>2. k + 1 \in 1..Len(blocks) /\ (k + 1 = Len(blocks) <=> k = Len(blocks) - 1)
  BY <1>1
<1>3. CASE k = Len(blocks) - 1
  <2>1. blocks[k + 1] = TopBlock /\ Counted[k + 1] = [TopBlock EXCEPT !.num_items = @ + 1]
        /\ TopBlock \in BlockSet
    BY <1>2, <1>3, CountedBlocks DEF TopBlock
  <2>2. PICK d : d = [TopBlock EXCEPT !.num_items = @ + 1]
    OBVIOUS
  <2>3. d.type = TopBlock.type /\ d.indefinite = TopBlock.indefinite /\ d.len = TopBlock.len
        /\ d.num_items = TopBlock.num_items + 1
    BY <2>1, <2>2 DEF BlockSet
  <2> QED BY <1>3, <2>1, <2>2, <2>3 DEF Match
<1>4. CASE k # Len(blocks) - 1
  <2>1. Counted[k + 1] = blocks[k + 1]
    BY <1>2, <1>4, CountedBlocks
  <2> QED BY <1>4, <2>1 DEF Match
<1> QED BY <1>3, <1>4

\* Where counts do not matter any more they are no matter.
LEMMA MatchUncounted ==
  ASSUME DecodeTypes, NEW c, NEW k \in 1..Len(blocks) - 1, NEW counted, NEW current, NEW current2,
         NEW counted2, ~counted2, Match(blocks[k + 1], c, current, counted)
  PROVE  /\ Match(Counted[k + 1], c, current2, counted2)
         /\ Match(blocks[k + 1], c, current2, counted2)
<1>1. Len(blocks) \in Nat
  BY LenProperties DEF DecodeTypes
<1>2. k + 1 \in 1..Len(blocks)
  BY <1>1
<1>3. /\ Counted[k + 1].type = blocks[k + 1].type
      /\ Counted[k + 1].indefinite = blocks[k + 1].indefinite
      /\ Counted[k + 1].len = blocks[k + 1].len
  <2>1. TopBlock \in BlockSet
        /\ Counted[k + 1] = IF k + 1 = Len(blocks) THEN [TopBlock EXCEPT !.num_items = @ + 1]
                            ELSE blocks[k + 1]
    BY <1>2, CountedBlocks
  <2> QED BY <2>1 DEF TopBlock, BlockSet
<1> QED BY <1>3 DEF Match

\* Reading tokens makes nothing innocent.
LEMMA MetGrows == Read \/ Unread => (met' = {} => met = {})
  BY DEF Read, Unread

LEMMA AgreeStep ==
  ASSUME DecodeTypes, WhereItIs, LoopsAndBlocksAgree, Followed, [Next]_vars
  PROVE  LoopsAndBlocksAgree'
<1>1. PICK p : Loops(p, blocks, calls, Fresh, Innocent)
  BY AgreeWas
<1>2. /\ calls \in Seq(CallSet) /\ blocks \in Seq(BlockSet) /\ Len(blocks) \in Nat /\ Len(blocks) # 0
      /\ Counted \in Seq(BlockSet) /\ Len(Counted) = Len(blocks)
  BY LenProperties, CountedBlocks DEF DecodeTypes
<1> SUFFICES \E q : Loops(q, blocks', calls', Fresh', Innocent')
  BY AgreeWillBe
<1>3. CASE Finish
  <2>1. blocks' = blocks /\ calls' = calls /\ ~Fresh' /\ Fresh /\ calls = <<>> /\ (Innocent' => Innocent)
    BY <1>3 DEF Finish, Unread, Fresh, Innocent, Errors
  <2>2. p \in [1..Len(blocks) - 1 -> 1..Len(calls)]
    BY <1>1 DEF Loops
  <2>3. \A k \in 1..Len(blocks) - 1 : FALSE
    <3>1. 1..Len(calls) = {}
      BY <2>1
    <3> QED BY ONLY <2>2, <3>1
  <2>4. Loops(p, blocks, calls, Fresh', Innocent')
    BY <1>1, <2>3, LoopsChanged
  <2> QED BY <2>1, <2>4
<1>4. CASE DecodeScalar
  <2>1. blocks' = Counted /\ calls' = calls /\ Fresh' = FALSE /\ Fresh = TRUE /\ (Innocent' => Innocent)
    <3>1. /\ at = "item" /\ at' \in {"return", "NB_ERR_RANGE"} /\ Read
          /\ blocks' = Counted /\ calls' = calls
      BY <1>4 DEF DecodeScalar
    <3> QED BY <3>1, MetGrows DEF Fresh, Innocent, Errors
  <2>2. ASSUME NEW k \in 1..Len(blocks) - 1,
               Match(blocks[k + 1], calls[p[k]], k = Len(blocks) - 1 /\ Fresh, Innocent)
        PROVE  Match(Counted[k + 1], calls[p[k]], k = Len(blocks) - 1 /\ Fresh', Innocent')
    <3>1. Match(Counted[k + 1], calls[p[k]], FALSE, Innocent')
      BY <2>1, <2>2, MatchCounted
    <3> QED BY <2>1, <3>1 DEF Match
  <2>3. Loops(p, Counted, calls, Fresh', Innocent')
    BY <1>1, <1>2, <2>2, LoopsChanged
  <2> QED BY <2>1, <2>3
<1>5. CASE DecodeTag /\ at' = "NB_ERR_RANGE"
  <2>1. blocks' = Counted /\ calls' = calls /\ ~Innocent'
    BY <1>5 DEF DecodeTag, Innocent, Errors
  <2>2. ASSUME NEW k \in 1..Len(blocks) - 1,
               Match(blocks[k + 1], calls[p[k]], k = Len(blocks) - 1 /\ Fresh, Innocent)
        PROVE  Match(Counted[k + 1], calls[p[k]], k = Len(blocks) - 1 /\ Fresh', Innocent')
    BY <2>1, <2>2, MatchUncounted
  <2>3. Loops(p, Counted, calls, Fresh', Innocent')
    BY <1>1, <1>2, <2>2, LoopsChanged
  <2> QED BY <2>1, <2>3
<1>14. CASE DecodeTag /\ at' # "NB_ERR_RANGE"
  <2> DEFINE c == Call("tag", FALSE, 1)
  <2>1. /\ blocks' = Counted /\ calls' = Append(calls, c) /\ Fresh' = TRUE /\ Fresh = TRUE
        /\ Innocent' => Innocent /\ TopBlock.indefinite
    <3>1. Trouble(next) = {} => TopBlock.indefinite
      BY <1>14 DEF DecodeTag, Trouble
    <3>2. met' = {} => Trouble(next) = {}
      BY <1>14 DEF DecodeTag, Read
    <3> QED BY <1>14, <3>1, <3>2, MetGrows DEF DecodeTag, Fresh, Innocent, Errors
  <2>2. c \in CallSet /\ c.type \notin ItemTypes
    BY CallTypes DEF Call, ItemTypes
  <2> HIDE DEF c
  <2>3. ASSUME NEW k \in 1..Len(blocks) - 1,
               Match(blocks[k + 1], calls[p[k]], k = Len(blocks) - 1 /\ Fresh, Innocent)
        PROVE  Match(Counted[k + 1], calls[p[k]], k = Len(blocks) - 1 /\ Fresh', Innocent')
    <3>1. Match(Counted[k + 1], calls[p[k]], FALSE, Innocent')
      BY <2>1, <2>3, MatchCounted
    <3>2. CASE k = Len(blocks) - 1
      <4>1. Counted[k + 1] = [TopBlock EXCEPT !.num_items = @ + 1] /\ TopBlock \in BlockSet
        <5>1. k + 1 = Len(blocks) /\ k + 1 \in 1..Len(blocks)
          BY <1>2, <3>2
        <5> QED BY <5>1, CountedBlocks
      <4>2. Counted[k + 1].indefinite = TopBlock.indefinite
        BY <4>1 DEF BlockSet
      <4> QED BY <2>1, <3>1, <4>2 DEF Match
    <3>3. CASE k # Len(blocks) - 1
      BY <3>1, <3>3 DEF Match
    <3> QED BY <3>2, <3>3
  <2>4. Loops(p, Counted, Append(calls, c), Fresh', Innocent')
    BY <1>1, <1>2, <2>2, <2>3, LoopsCalled
  <2> QED BY <2>1, <2>4
<1>6. CASE DecodeBegin
  <2> DEFINE c == Call(TypeOf(next), Indefinite(next), Size(next))
             b == Block(TypeOf(next), Indefinite(next), Size(next))
  <2>1. /\ calls' = Append(calls, c) /\ blocks' = Append(Counted, b)
        /\ Fresh' = TRUE /\ Fresh = TRUE /\ (Innocent' => Innocent)
    BY <1>6, MetGrows DEF DecodeBegin, Size, Fresh, Innocent, Errors
  <2>2. c \in CallSet /\ b \in BlockSet
    BY <1>6, BeginTypes DEF DecodeBegin, DecodeTypes
  <2>3. Match(b, c, TRUE, Innocent')
    BY <1>6 DEF DecodeBegin, Match, Call, Block
  <2> HIDE DEF c, b
  <2>4. \A k \in 1..Len(blocks) - 1 :
          Match(blocks[k + 1], calls[p[k]], k = Len(blocks) - 1 /\ Fresh, Innocent)
            => Match(Counted[k + 1], calls[p[k]], FALSE, Innocent')
    BY <2>1, MatchCounted
  <2>5. \E q : Loops(q, Append(Counted, b), Append(calls, c), TRUE, Innocent')
    BY <1>1, <1>2, <2>2, <2>3, <2>4, LoopsEntered
  <2> QED BY <2>1, <2>5
<1>7. CASE DecodeString
  <2> DEFINE c == Call("text", TRUE, 0)
  <2>1. blocks' = Counted /\ calls' = Append(calls, c) /\ ~Innocent'
    BY <1>7 DEF DecodeString, Read, Trouble, TypeOf, Innocent
  <2>2. c \in CallSet /\ c.type \notin ItemTypes
    BY CallTypes DEF Call, ItemTypes
  <2> HIDE DEF c
  <2>3. \A k \in 1..Len(blocks) - 1 :
          Match(blocks[k + 1], calls[p[k]], k = Len(blocks) - 1 /\ Fresh, Innocent)
            => Match(Counted[k + 1], calls[p[k]], k = Len(blocks) - 1 /\ Fresh', Innocent')
    BY <2>1, MatchUncounted
  <2>4. Loops(p, Counted, Append(calls, c), Fresh', Innocent')
    BY <1>1, <1>2, <2>2, <2>3, LoopsCalled
  <2> QED BY <2>1, <2>4
<1>8. CASE DecodeUnsupported
  <2>1. blocks' \in {Counted, blocks} /\ calls' = calls /\ ~Innocent'
    BY <1>8 DEF DecodeUnsupported, Innocent, Errors
  <2>2. ASSUME NEW k \in 1..Len(blocks) - 1,
               Match(blocks[k + 1], calls[p[k]], k = Len(blocks) - 1 /\ Fresh, Innocent)
        PROVE  Match(blocks'[k + 1], calls[p[k]], k = Len(blocks) - 1 /\ Fresh', Innocent')
    <3>1. /\ Match(Counted[k + 1], calls[p[k]], k = Len(blocks) - 1 /\ Fresh', Innocent')
          /\ Match(blocks[k + 1], calls[p[k]], k = Len(blocks) - 1 /\ Fresh', Innocent')
      BY <2>1, <2>2, MatchUncounted
    <3> QED BY <2>1, <3>1
  <2>3. Loops(p, blocks', calls, Fresh', Innocent')
    BY <1>1, <1>2, <2>1, <2>2, LoopsChanged
  <2> QED BY <2>1, <2>3
<1>9. CASE Chunk
  <2>1. at = "chunks" /\ calls # <<>> /\ TopCall.type = "text" /\ ~Fresh
    BY <1>9 DEF Chunk, WhereItIs, Fresh
  <2>2. CASE calls' = CallerOf(calls) /\ blocks' = blocks /\ Unread /\ at' \in {"return", "crashed"}
    <3>1. ~Fresh' /\ (Innocent' => Innocent)
      BY <2>1, <2>2, MetGrows DEF Fresh, Innocent, Errors
    <3>2. Loops(p, blocks, SubSeq(calls, 1, Len(calls) - 1), Fresh, Innocent')
      BY <1>1, <1>2, <2>1, <3>1, LoopsReturned DEF TopCall, ItemTypes
    <3>3. Fresh' = Fresh
      BY <2>1, <3>1 DEF Fresh
    <3> QED BY <2>2, <3>2, <3>3 DEF CallerOf
  <2>4. CASE calls' = calls /\ blocks' = blocks /\ at' \in Errors
    <3>1. ~Innocent'
      BY <2>4 DEF Innocent
    <3>2. ASSUME NEW k \in 1..Len(blocks) - 1,
                 Match(blocks[k + 1], calls[p[k]], k = Len(blocks) - 1 /\ Fresh, Innocent)
          PROVE  Match(blocks[k + 1], calls[p[k]], k = Len(blocks) - 1 /\ Fresh', Innocent')
      BY <3>1, <3>2, MatchUncounted
    <3>3. Loops(p, blocks, calls, Fresh', Innocent')
      BY <1>1, <1>2, <3>2, LoopsChanged
    <3> QED BY <2>4, <3>3
  <2>3. CASE calls' = Advanced /\ blocks' = Counted /\ Read
    <3>1. met # {}
      <4>1. Len(calls) \in 1..Len(calls)
        BY <2>1, AdvancedCalls
      <4> QED BY <2>1, <4>1 DEF Followed, Proper, TopCall, Errors
    <3>2. ~Innocent'
      BY <2>3, <3>1, MetGrows DEF Innocent
    <3>3. /\ Len(Advanced) = Len(calls)
          /\ \A k \in 1..Len(calls) : /\ Advanced[k].type = calls[k].type
                                      /\ Advanced[k].indefinite = calls[k].indefinite
                                      /\ Advanced[k].size = calls[k].size
      BY <2>1, AdvancedCalls
    <3>4. ASSUME NEW k \in 1..Len(blocks) - 1,
                 Match(blocks[k + 1], calls[p[k]], k = Len(blocks) - 1 /\ Fresh, Innocent)
          PROVE  Match(Counted[k + 1], Advanced[p[k]], k = Len(blocks) - 1 /\ Fresh', Innocent')
      <4>1. Match(Counted[k + 1], calls[p[k]], k = Len(blocks) - 1 /\ Fresh', Innocent')
        BY <3>2, <3>4, MatchUncounted
      <4>2. p[k] \in 1..Len(calls)
        BY <1>1 DEF Loops
      <4> QED BY <3>2, <3>3, <4>1, <4>2 DEF Match
    <3>5. Loops(p, Counted, Advanced, Fresh', Innocent')
      BY <1>1, <1>2, <3>3, <3>4, LoopsChanged
    <3> QED BY <2>3, <3>5
  <2> QED BY <1>9, <2>2, <2>3, <2>4, ChunkCases
<1>10. CASE NextItem
  <2>1. /\ blocks' = blocks /\ calls' = calls /\ Fresh' = TRUE /\ Fresh = TRUE
        /\ Innocent' = Innocent
    BY <1>10 DEF NextItem, Unread, Fresh, Innocent, Errors
  <2> QED BY <1>1, <2>1
<1>11. CASE Return
  <2>1. ~Fresh /\ blocks' = blocks /\ (Innocent' => Innocent)
    BY <1>11, MetGrows DEF Return, Fresh, Innocent, Errors
  <2>2. CASE calls = <<>> /\ calls' = calls
    <3>1. p \in [1..Len(blocks) - 1 -> 1..Len(calls)]
      BY <1>1 DEF Loops
    <3>2. \A k \in 1..Len(blocks) - 1 : FALSE
      <4>1. 1..Len(calls) = {}
        BY <2>2
      <4> QED BY ONLY <3>1, <4>1
    <3>3. Loops(p, blocks, calls, Fresh', Innocent')
      BY <1>1, <3>2, LoopsChanged
    <3> QED BY <2>1, <2>2, <3>3
  <2>3. CASE calls # <<>> /\ TopCall.type = "tag" /\ calls' = CallerOf(calls) /\ UNCHANGED at
    <3>1. Loops(p, blocks, SubSeq(calls, 1, Len(calls) - 1), Fresh, Innocent')
      BY <1>1, <1>2, <2>1, <2>3, LoopsReturned DEF TopCall, ItemTypes
    <3>2. Fresh' = Fresh
      BY <2>3 DEF Fresh
    <3> QED BY <2>1, <2>3, <3>1, <3>2 DEF CallerOf
  <2>4. CASE calls # <<>> /\ TopCall.type # "tag" /\ calls' = Advanced /\ at' = "items"
    <3>1. /\ Len(Advanced) = Len(calls) /\ Len(calls) \in 1..Len(calls) /\ TopCall \in CallSet
          /\ \A k \in 1..Len(calls) :
               Advanced[k] = IF k = Len(calls) THEN [TopCall EXCEPT !.i = @ + 1] ELSE calls[k]
          /\ \A k \in 1..Len(calls) : Advanced[k].type = calls[k].type
      BY <2>4, AdvancedCalls
    <3>2. TopCall.type \in ItemTypes
      <4>1. TopCall.type # "text"
        BY <1>11, <3>1 DEF Return, WhereItIs, TopCall, Errors
      <4> QED BY <2>4, <3>1, <4>1 DEF CallSet, ItemTypes
    <3>3. p[Len(blocks) - 1] = Len(calls) /\ Len(blocks) > 1
      BY <1>1, <1>2, <2>4, <3>2, LoopsLeft DEF TopCall
    <3>4. ASSUME NEW k \in 1..Len(blocks) - 1,
                 Match(blocks[k + 1], calls[p[k]], k = Len(blocks) - 1 /\ Fresh, Innocent)
          PROVE  Match(blocks[k + 1], Advanced[p[k]], k = Len(blocks) - 1 /\ Fresh', Innocent')
      <4>1. CASE k = Len(blocks) - 1
        <5>1. calls[p[k]] = TopCall /\ Advanced[p[k]] = [TopCall EXCEPT !.i = @ + 1] /\ Fresh'
          BY <2>4, <3>1, <3>3, <4>1 DEF TopCall, Fresh
        <5>2. PICK d : d = [TopCall EXCEPT !.i = @ + 1]
          OBVIOUS
        <5>3. d.type = TopCall.type /\ d.indefinite = TopCall.indefinite /\ d.size = TopCall.size
              /\ d.i = TopCall.i + 1
          BY <3>1, <5>2 DEF CallSet
        <5> QED BY <2>1, <3>4, <4>1, <5>1, <5>2, <5>3 DEF Match
      <4>2. CASE k # Len(blocks) - 1
        <5>1. Len(blocks) - 1 \in 1..Len(blocks) - 1 /\ k < Len(blocks) - 1
          BY <1>2, <4>2
        <5>2. p[k] < Len(calls) /\ p[k] \in 1..Len(calls)
          BY <1>1, <3>3, <5>1 DEF Loops
        <5>3. Advanced[p[k]] = calls[p[k]]
          BY <3>1, <5>2
        <5> QED BY <2>1, <3>4, <4>2, <5>3 DEF Match
      <4> QED BY <4>1, <4>2
    <3>5. Loops(p, blocks, Advanced, Fresh', Innocent')
      BY <1>1, <3>1, <3>4, LoopsChanged
    <3> QED BY <2>1, <2>4, <3>5
  <2> QED BY <1>11, <2>2, <2>3, <2>4 DEF Return, Advanced
<1>12. CASE BlockEnd
  <2>1. at = "end" /\ calls # <<>> /\ TopCall.type \in ItemTypes
    BY <1>12 DEF BlockEnd, WhereItIs
  <2>2. CASE UNCHANGED <<blocks, calls>> /\ at' \in Errors
    <3>1. ~Innocent'
      BY <2>2 DEF Innocent
    <3>2. \A k \in 1..Len(blocks) - 1 :
            Match(blocks[k + 1], calls[p[k]], k = Len(blocks) - 1 /\ Fresh, Innocent)
              => Match(blocks[k + 1], calls[p[k]], k = Len(blocks) - 1 /\ Fresh', Innocent')
      BY <3>1, MatchUncounted
    <3>3. Loops(p, blocks, calls, Fresh', Innocent')
      BY <1>1, <3>2, LoopsChanged
    <3> QED BY <2>2, <3>3
  <2>3. CASE /\ Read \/ Unread
             /\ blocks' = SubSeq(blocks, 1, Len(blocks) - 1) /\ calls' = CallerOf(calls)
             /\ at' = "return"
    <3>1. Fresh' = FALSE /\ (Innocent' => Innocent)
      BY <2>1, <2>3, MetGrows DEF Fresh, Innocent, Errors
    <3>2. \E q : Loops(q, SubSeq(blocks, 1, Len(blocks) - 1), SubSeq(calls, 1, Len(calls) - 1),
                       FALSE, Innocent')
      <4>1. calls[Len(calls)].type \in ItemTypes
        BY <2>1 DEF TopCall
      <4>2. Innocent' => Innocent
        BY <3>1
      <4>3. Loops(LeftPlaces(p, blocks), SubSeq(blocks, 1, Len(blocks) - 1),
                  SubSeq(calls, 1, Len(calls) - 1), FALSE, Innocent')
        BY <1>1, <1>2, <2>1, <4>1, <4>2, LoopsLeft
      <4> QED BY <4>3
    <3> QED BY <2>3, <3>1, <3>2 DEF CallerOf
  <2> QED BY <1>12, <2>2, <2>3 DEF BlockEnd, Errors
<1>13. CASE UNCHANGED vars
  BY <1>1, <1>13 DEF vars, Fresh, Innocent
<1> QED BY <1>3, <1>4, <1>5, <1>6, <1>7, <1>8, <1>9, <1>10, <1>11, <1>12, <1>13, <1>14 DEF Next

-----------------------------------------------------------------------------
(* Followed.                                                               *)

\* The block on top is that of the innermost loop.
LEMMA TopAgrees ==
  ASSUME DecodeTypes, LoopsAndBlocksAgree, calls # <<>>, TopCall.type \in ItemTypes
  PROVE  /\ TopBlock.indefinite = TopCall.indefinite /\ TopBlock.len = TopCall.size
         /\ Innocent /\ ~TopBlock.indefinite =>
              TopBlock.num_items = IF Fresh THEN TopCall.i ELSE TopCall.i + 1
<1>1. PICK p : Loops(p, blocks, calls, Fresh, Innocent)
  BY AgreeWas
<1>2. calls \in Seq(CallSet) /\ blocks \in Seq(BlockSet) /\ Len(blocks) \in Nat /\ Len(blocks) # 0
  BY LenProperties DEF DecodeTypes
<1>3. Len(blocks) > 1 /\ p[Len(blocks) - 1] = Len(calls)
  BY <1>1, <1>2, LoopsLeft DEF TopCall
<1>4. Len(blocks) - 1 \in 1..Len(blocks) - 1 /\ Len(blocks) - 1 + 1 = Len(blocks)
  BY <1>2, <1>3
<1>5. Match(TopBlock, TopCall, TRUE /\ Fresh, Innocent)
  BY <1>1, <1>3, <1>4 DEF Loops, TopBlock, TopCall
<1> QED BY <1>5 DEF Match

\* At an item, every level still takes some, the innermost one this item.
LEMMA ItemBegins ==
  ASSUME DecodeTypes, Followed, at = "item", met = {}
  PROVE  /\ legal /\ Proper(calls, TRUE) /\ Proper(calls, FALSE)
         /\ open = LevelsOf(calls, TRUE) /\ Taken(open) = LevelsOf(calls, FALSE)
         /\ calls = <<>> => open = <<>>
         /\ calls # <<>> =>
              /\ TopCall \in CallSet /\ TopCall.type # "text"
              /\ ~TopCall.indefinite => TopCall.i < TopCall.size
              /\ open # <<>> /\ Innermost(open) = LevelOf(TopCall, 0)
<1>1. /\ legal /\ Proper(calls, Fresh) /\ open = Trimmed(LevelsOf(calls, Fresh))
      /\ calls # <<>> => (~TopCall.indefinite => TopCall.i < TopCall.size)
  BY DEF Followed, Errors
<1>2. Fresh = TRUE
  BY DEF Fresh
<1>3. calls \in Seq(CallSet)
  BY DEF DecodeTypes
<1>4. Proper(calls, TRUE) /\ open = Trimmed(LevelsOf(calls, TRUE))
  BY <1>1, <1>2
<1>5. calls # <<>> => (~calls[Len(calls)].indefinite => calls[Len(calls)].i < calls[Len(calls)].size)
  BY <1>1 DEF TopCall
<1>6. /\ Trimmed(LevelsOf(calls, TRUE)) = LevelsOf(calls, TRUE)
      /\ Taken(LevelsOf(calls, TRUE)) = LevelsOf(calls, FALSE) /\ Proper(calls, FALSE)
      /\ calls = <<>> => LevelsOf(calls, TRUE) = <<>>
      /\ calls # <<>> => /\ LevelsOf(calls, TRUE) # <<>>
                         /\ Innermost(LevelsOf(calls, TRUE)) = LevelOf(calls[Len(calls)], 0)
  BY <1>3, <1>4, <1>5, LevelsBegin
<1>7. ASSUME calls # <<>> PROVE TopCall \in CallSet /\ TopCall.type # "text"
  <2>1. Len(calls) \in 1..Len(calls) /\ TopCall \in CallSet
    BY <1>7, AdvancedCalls
  <2> QED BY <1>4, <2>1 DEF Proper, TopCall
<1> QED BY <1>1, <1>4, <1>6, <1>7 DEF TopCall

\* So any item may come.
LEMMA ItemIsLegal ==
  ASSUME DecodeTypes, Followed, at = "item", met = {}, next.kind # "break"
  PROVE  Legal(open, next) /\ After(open, next) = Trimmed(LevelsOf(calls, FALSE) \o Opened(next))
<1>1. calls # <<>> => Innermost(open).type # "text"
  <2> SUFFICES ASSUME calls # <<>> PROVE Innermost(open).type # "text"
    OBVIOUS
  <2>1. Innermost(open) = LevelOf(TopCall, 0) /\ TopCall.type # "text"
    BY ItemBegins
  <2>2. LevelOf(TopCall, 0).type = TopCall.type
    BY DEF LevelOf
  <2> QED BY <2>1, <2>2
<1>2. open # <<>> => Innermost(open).type # "text"
  BY <1>1, ItemBegins
<1>3. Taken(open) = LevelsOf(calls, FALSE)
  BY ItemBegins
<1> QED BY <1>2, <1>3 DEF Legal, After

\* decode_block_start enters a loop with the level that the header opens.
LEMMA BeginLevel ==
  ASSUME NEW t \in {Eof} \cup Tokens(MaxCount), TypeOf(t) \in ItemTypes
  PROVE  Opened(t) = <<LevelOf(Call(TypeOf(t), Indefinite(t), Size(t)), 0)>>
<1>1. t.n \in Nat
  BY NextToken
<1> DEFINE c == Call(TypeOf(t), Indefinite(t), Size(t))
<1>2. /\ c.type = TypeOf(t) /\ c.indefinite = Indefinite(t) /\ c.size = Size(t) /\ c.i = 0
  BY DEF Call
<1> HIDE DEF c
<1>3. (c.indefinite /\ (c.i + 0) % 2 = 1) = FALSE
  BY <1>2
<1>4. LevelOf(c, 0) = [type |-> TypeOf(t),
                       left |-> IF Indefinite(t) THEN Unbounded ELSE Size(t) - 0 - 0, odd |-> FALSE]
  BY <1>2, <1>3 DEF LevelOf
<1>5. LevelOf(c, 0) = [type |-> TypeOf(t), left |-> IF Indefinite(t) THEN Unbounded ELSE Size(t),
                       odd |-> FALSE]
  <2>1. Size(t) - 0 - 0 = Size(t)
    BY <1>1 DEF Size
  <2> QED BY <1>4, <2>1
<1>6. CASE t.kind = "array"
  BY <1>5, <1>6 DEF Opened, Level, TypeOf, Indefinite, Size, c
<1>7. CASE t.kind = "map"
  BY <1>5, <1>7 DEF Opened, Level, TypeOf, Indefinite, Size, c
<1>8. CASE t.kind = "array_"
  BY <1>5, <1>8 DEF Opened, Level, TypeOf, Indefinite, Size, c
<1>9. CASE t.kind = "map_"
  BY <1>5, <1>9 DEF Opened, Level, TypeOf, Indefinite, Size, c
<1> QED BY <1>6, <1>7, <1>8, <1>9, BeginTypes

LEMMA BeginCall ==
  ASSUME NEW t \in {Eof} \cup Tokens(MaxCount), TypeOf(t) \in ItemTypes,
         NEW c, c = Call(TypeOf(t), Indefinite(t), Size(t))
  PROVE  /\ c.type \in ItemTypes /\ c.type # "text" /\ c.type # "tag" /\ c.i = 0
         /\ c.type = "map" /\ ~c.indefinite => c.size % 2 = 0
<1>1. t.n \in Nat
  BY NextToken
<1>2. c.type = TypeOf(t) /\ c.indefinite = Indefinite(t) /\ c.size = Size(t) /\ c.i = 0
  BY DEF Call
<1>3. ASSUME c.type = "map", ~c.indefinite PROVE c.size % 2 = 0
  <2>1. t.kind = "map"
    BY <1>2, <1>3, BeginTypes DEF Indefinite
  <2>2. c.size = 2 * t.n
    BY <1>2, <2>1 DEF Size
  <2> QED BY <1>1, <2>2
<1> QED BY <1>2, <1>3 DEF ItemTypes

\* A loop of which nothing is left is closed in the grammar.
LEMMA ClosedByItself ==
  ASSUME DecodeTypes, calls # <<>>, NEW fresh \in BOOLEAN, Proper(calls, fresh), ~TopCall.indefinite,
         TopCall.i + (IF fresh THEN 0 ELSE 1) = TopCall.size
  PROVE  /\ Proper(CallerOf(calls), FALSE)
         /\ Trimmed(LevelsOf(calls, fresh)) = Trimmed(LevelsOf(CallerOf(calls), FALSE))
<1>1. calls \in Seq(CallSet) /\ TopCall \in CallSet
  BY AdvancedCalls DEF DecodeTypes
<1> DEFINE b == IF fresh THEN 0 ELSE 1
           l == LevelOf(TopCall, b)
           G == LevelsOf(CallerOf(calls), FALSE)
<1>2. /\ Proper(CallerOf(calls), FALSE) /\ G \in Seq(OpenSet) /\ l \in OpenSet
      /\ LevelsOf(calls, fresh) = Append(G, l)
  BY <1>1, LevelsPop DEF CallerOf, TopCall
<1>3. l.left = 0
  <2>1. TopCall.size \in Nat /\ TopCall.i \in Nat
    BY <1>1 DEF CallSet
  <2>2. l.left = TopCall.size - TopCall.i - b
    BY DEF LevelOf
  <2> QED BY <2>1, <2>2
<1> HIDE DEF l, G
<1>4. Trimmed(Append(G, l)) = Trimmed(G)
  BY <1>2, <1>3, TrimmedLast
<1> QED BY <1>2, <1>4 DEF G

\* A loop that has something left is open in the grammar, innermost.
LEMMA OpenAtEnd ==
  ASSUME DecodeTypes, WhereItIs, Followed, at = "end", met = {},
         TopCall.indefinite \/ TopCall.i # TopCall.size
  PROVE  LET G == LevelsOf(CallerOf(calls), FALSE)
             l == LevelOf(TopCall, 0)
         IN  /\ Proper(CallerOf(calls), FALSE) /\ G \in Seq(OpenSet) /\ l \in OpenSet
             /\ open = Append(G, l) /\ IsBreak
             /\ l.type = TopCall.type
             /\ l.left = IF TopCall.indefinite THEN Unbounded ELSE TopCall.size - TopCall.i
             /\ ~TopCall.indefinite => l.left \in Nat
             /\ l.odd = (TopCall.indefinite /\ TopCall.i % 2 = 1)
<1>1. calls # <<>> /\ calls \in Seq(CallSet) /\ TopCall \in CallSet /\ Len(calls) \in 1..Len(calls)
  <2>1. calls # <<>>
    BY DEF WhereItIs
  <2> QED BY <2>1, AdvancedCalls DEF DecodeTypes
<1>2. Fresh = TRUE
  BY DEF Fresh
<1>3. /\ Proper(calls, Fresh) /\ open = Trimmed(LevelsOf(calls, Fresh))
      /\ (~TopCall.indefinite /\ TopCall.i >= TopCall.size) \/ IsBreak
  BY DEF Followed, Errors
<1>4. Proper(calls, TRUE) /\ open = Trimmed(LevelsOf(calls, TRUE))
  BY <1>2, <1>3
<1>5. TopCall.size \in Nat /\ TopCall.i \in Nat
  BY <1>1 DEF CallSet
<1>6. ~TopCall.indefinite => TopCall.i <= TopCall.size
  <2>1. Begun(calls, Len(calls), TRUE) = 0
    BY DEF Begun
  <2>2. ~TopCall.indefinite => TopCall.i + Begun(calls, Len(calls), TRUE) <= TopCall.size
    BY <1>1, <1>4, Zenon DEF Proper, TopCall
  <2>3. TopCall.i + 0 = TopCall.i
    BY <1>5
  <2> QED BY <2>1, <2>2, <2>3
<1> DEFINE G == LevelsOf(CallerOf(calls), FALSE)
           l == LevelOf(TopCall, 0)
<1>7. /\ Proper(CallerOf(calls), FALSE) /\ G \in Seq(OpenSet) /\ l \in OpenSet
      /\ LevelsOf(calls, TRUE) = Append(G, l)
  BY <1>1, <1>4, LevelsPop DEF CallerOf, TopCall
<1>8. IsBreak
  BY <1>3, <1>5, <1>6
<1>9. /\ l.type = TopCall.type
      /\ l.left = IF TopCall.indefinite THEN Unbounded ELSE TopCall.size - TopCall.i
      /\ l.odd = (TopCall.indefinite /\ TopCall.i % 2 = 1)
  <2>1. TopCall.size - TopCall.i - 0 = TopCall.size - TopCall.i /\ TopCall.i + 0 = TopCall.i
    BY <1>5
  <2> QED BY <2>1 DEF LevelOf
<1> HIDE DEF l, G
<1>10. l.left # 0 /\ (~TopCall.indefinite => l.left \in Nat)
  <2>1. CASE TopCall.indefinite
    BY <1>9, <2>1 DEF Unbounded
  <2>2. CASE ~TopCall.indefinite
    BY <1>5, <1>6, <1>9, <2>2
  <2> QED BY <2>1, <2>2
<1>11. Trimmed(Append(G, l)) = Append(G, l)
  BY <1>7, <1>10, TrimmedNone
<1>12. open = Append(G, l)
  BY <1>4, <1>7, <1>11
<1> QED BY <1>7, <1>8, <1>9, <1>10, <1>12 DEF G, l

\* What Followed says after a step.
Follows(fresh) ==
  /\ legal /\ Proper(calls, fresh) /\ open = Trimmed(LevelsOf(calls, fresh))
  /\ at = "item" /\ calls # <<>> =>
       /\ ~TopCall.indefinite => TopCall.i < TopCall.size
       /\ TopCall.type # "tag" => ~IsBreak
  /\ at = "end" => (~TopCall.indefinite /\ TopCall.i >= TopCall.size) \/ IsBreak
  /\ at = "finished" => calls = <<>>

LEMMA FollowedStep ==
  ASSUME DecodeTypes, WhereItIs, LoopsAndBlocksAgree, Followed, [Next]_vars
  PROVE  Followed'
<1> SUFFICES ASSUME met' = {}, at' \notin Errors PROVE Follows(Fresh)'
  BY DEF Followed, Follows
<1>1. /\ next \in {Eof} \cup Tokens(MaxCount) /\ calls \in Seq(CallSet) /\ Len(calls) \in Nat
  BY LenProperties DEF DecodeTypes
<1>2. ASSUME at \notin Errors, met = {} PROVE Follows(Fresh)
  BY <1>2 DEF Followed, Follows
<1>3. CASE Finish
  <2>1. /\ at = "item" /\ met = {} /\ calls = <<>> /\ at' = "finished"
        /\ UNCHANGED <<legal, open, calls>>
    BY <1>3 DEF Finish, Unread
  <2>2. Follows(TRUE)
    BY <1>2, <2>1 DEF Errors, Fresh
  <2>3. Proper(<<>>, FALSE) /\ LevelsOf(<<>>, FALSE) = LevelsOf(<<>>, TRUE)
    BY DEF Proper, LevelsOf
  <2>4. Fresh' = FALSE
    BY <2>1 DEF Fresh
  <2> QED BY <2>1, <2>2, <2>3, <2>4 DEF Follows
<1>4. CASE DecodeScalar
  <2>1. /\ at = "item" /\ met = {} /\ next.kind \in {"uint", "text"} /\ at' = "return"
        /\ UNCHANGED calls /\ legal' = (legal /\ Legal(open, next))
        /\ open' = IF Legal(open, next) THEN After(open, next) ELSE open
    <3>1. at' \in {"return", "NB_ERR_RANGE"}
      BY <1>4 DEF DecodeScalar
    <3>2. at' = "return"
      BY <3>1 DEF Errors
    <3> QED BY <1>4, <3>2, MetGrows DEF DecodeScalar, Read
  <2>2. /\ legal /\ Legal(open, next) /\ Proper(calls, FALSE)
        /\ After(open, next) = Trimmed(LevelsOf(calls, FALSE) \o Opened(next))
    BY <2>1, ItemBegins, ItemIsLegal
  <2>3. Opened(next) = <<>>
    BY <2>1 DEF Opened
  <2>4. LevelsOf(calls, FALSE) \in Seq(OpenSet)
    BY <1>1, <2>2, LevelsType
  <2>5. LevelsOf(calls, FALSE) \o <<>> = LevelsOf(calls, FALSE)
    <3> HIDE DEF LevelsOf
    <3> QED BY <2>4, ConcatEmptySeq
  <2>6. Fresh' = FALSE
    BY <2>1 DEF Fresh
  <2> QED BY <2>1, <2>2, <2>3, <2>5, <2>6 DEF Follows
<1>5. CASE DecodeTag
  <2> DEFINE c == Call("tag", FALSE, 1)
             l == LevelOf(c, 0)
             G == LevelsOf(calls, FALSE)
  <2>1. /\ at = "item" /\ met = {} /\ next.kind = "tag" /\ at' = "item"
        /\ calls' = Append(calls, c) /\ legal' = (legal /\ Legal(open, next))
        /\ open' = IF Legal(open, next) THEN After(open, next) ELSE open
        /\ TopBlock.indefinite
    <3>1. Trouble(next) = {} => TopBlock.indefinite
      BY <1>5 DEF DecodeTag, Trouble
    <3>2. Trouble(next) = {}
      BY <1>5 DEF DecodeTag, Read
    <3>3. at' # "NB_ERR_RANGE"
      BY DEF Errors
    <3> QED BY <1>5, <3>1, <3>2, <3>3, MetGrows DEF DecodeTag, Read
  <2>2. /\ legal /\ Legal(open, next) /\ Proper(calls, FALSE)
        /\ After(open, next) = Trimmed(G \o Opened(next))
    BY <2>1, ItemBegins, ItemIsLegal
  <2>3. c \in CallSet /\ c.type = "tag" /\ c.i = 0 /\ ~c.indefinite /\ c.size = 1
    BY CallTypes DEF Call
  <2>4. calls # <<>> => calls[Len(calls)].indefinite \/ calls[Len(calls)].type = "tag"
    <3> SUFFICES ASSUME calls # <<>>, TopCall.type # "tag" PROVE TopCall.indefinite
      BY DEF TopCall
    <3>1. TopCall.type \in ItemTypes
      BY <2>1, ItemBegins DEF CallSet, ItemTypes
    <3> QED BY <2>1, <3>1, TopAgrees
  <2>5. Opened(next) = <<l>>
    <3>1. c.type = "tag" /\ c.indefinite = FALSE /\ c.size - c.i - 0 = 1
      BY <2>3 DEF Call
    <3> HIDE DEF c
    <3>2. (c.indefinite /\ (c.i + 0) % 2 = 1) = FALSE
      BY <3>1
    <3>3. l = [type |-> "tag", left |-> 1, odd |-> FALSE]
      BY <3>1, <3>2 DEF LevelOf
    <3> HIDE DEF l
    <3> QED BY <2>1, <3>3 DEF Opened, Level
  <2> HIDE DEF c, l, G
  <2>6. /\ Proper(Append(calls, c), TRUE)
        /\ G \in Seq(OpenSet) /\ l \in OpenSet /\ LevelsOf(Append(calls, c), TRUE) = Append(G, l)
    BY <1>1, <2>2, <2>3, <2>4, LevelsPush DEF l, G
  <2>7. G \o <<l>> = Append(G, l)
    BY <2>6, ConcatOne
  <2>8. TopCall' = c
    BY <1>1, <2>1, <2>3, Entered DEF TopCall
  <2>9. Fresh' = TRUE
    BY <2>1 DEF Fresh
  <2>10. legal' /\ Proper(calls', TRUE) /\ open' = Trimmed(LevelsOf(calls', TRUE))
    BY <2>1, <2>2, <2>5, <2>6, <2>7
  <2>11. TopCall.i' < TopCall.size' /\ TopCall.type' = "tag"
    BY <2>3, <2>8
  <2> QED BY <2>1, <2>9, <2>10, <2>11 DEF Follows
<1>6. CASE DecodeBegin
  <2> DEFINE c == Call(TypeOf(next), Indefinite(next), Size(next))
             l == LevelOf(c, 0)
             G == LevelsOf(calls, FALSE)
  <2>1. /\ at = "item" /\ met = {} /\ TypeOf(next) \in ItemTypes /\ at' = "items"
        /\ calls' = Append(calls, c) /\ legal' = (legal /\ Legal(open, next))
        /\ open' = IF Legal(open, next) THEN After(open, next) ELSE open
    BY <1>6, MetGrows DEF DecodeBegin, Read, Size
  <2>2. next.kind # "break"
    BY <1>1, <2>1, BeginTypes
  <2>3. /\ legal /\ Legal(open, next) /\ Proper(calls, FALSE)
        /\ After(open, next) = Trimmed(G \o Opened(next))
    BY <2>1, <2>2, ItemBegins, ItemIsLegal
  <2>4. c \in CallSet /\ Opened(next) = <<l>>
    BY <1>1, <2>1, BeginTypes, BeginLevel
  <2>5. /\ c.type # "text" /\ c.type # "tag" /\ c.i = 0
        /\ c.type = "map" /\ ~c.indefinite => c.size % 2 = 0
    BY <1>1, <2>1, BeginCall
  <2> HIDE DEF c, l, G
  <2>6. /\ Proper(Append(calls, c), TRUE)
        /\ G \in Seq(OpenSet) /\ l \in OpenSet /\ LevelsOf(Append(calls, c), TRUE) = Append(G, l)
    BY <1>1, <2>3, <2>4, <2>5, LevelsPush DEF l, G
  <2>7. G \o <<l>> = Append(G, l)
    BY <2>6, ConcatOne
  <2>8. Fresh' = TRUE
    BY <2>1 DEF Fresh
  <2> QED BY <2>1, <2>3, <2>4, <2>6, <2>7, <2>8 DEF Follows
<1>7. CASE DecodeString
  <2>1. met' # {}
    BY <1>7 DEF DecodeString, Read, Trouble
  <2> QED BY <2>1
<1>8. CASE DecodeUnsupported
  <2>1. at' \in Errors
    BY <1>8 DEF DecodeUnsupported, Errors
  <2> QED BY <2>1
<1>9. CASE Chunk
  <2>1. at = "chunks" /\ calls # <<>> /\ TopCall.type = "text" /\ met = {}
    BY <1>9, MetGrows DEF Chunk, WhereItIs
  <2>2. Len(calls) \in 1..Len(calls)
    BY <2>1, AdvancedCalls
  <2> QED BY <2>1, <2>2 DEF Followed, Proper, TopCall, Errors
<1>10. CASE NextItem
  <2>1. /\ at = "items" /\ met = {} /\ calls' = calls /\ UNCHANGED <<legal, open, next>>
        /\ at' \in {"end", "item"}
        /\ at' = "end" => (~TopCall.indefinite /\ TopCall.i >= TopCall.size) \/ IsBreak
        /\ at' = "item" => ~(~TopCall.indefinite /\ TopCall.i >= TopCall.size) /\ ~IsBreak
    BY <1>10 DEF NextItem, Unread
  <2>2. Follows(TRUE)
    BY <1>2, <2>1 DEF Errors, Fresh
  <2>3. TopCall' = TopCall /\ IsBreak' = IsBreak /\ Fresh' = TRUE
    BY <2>1 DEF TopCall, IsBreak, Fresh
  <2>4. calls # <<>> => TopCall.size \in Nat /\ TopCall.i \in Nat
    BY AdvancedCalls DEF CallSet
  <2>5. at' = "item" /\ calls # <<>> => (~TopCall.indefinite => TopCall.i < TopCall.size)
    BY <2>1, <2>4
  <2> QED BY <2>1, <2>2, <2>3, <2>5 DEF Follows
<1>11. CASE Return
  <2>1. at = "return" /\ met = {} /\ UNCHANGED <<legal, open, next>>
    BY <1>11 DEF Return, Unread
  <2>2. legal /\ Proper(calls, FALSE) /\ open = Trimmed(LevelsOf(calls, FALSE))
    <3>1. Fresh = FALSE /\ at \notin Errors
      BY <2>1 DEF Fresh, Errors
    <3>2. Follows(FALSE)
      BY <1>2, <2>1, <3>1
    <3> QED BY <3>2 DEF Follows
  <2>3. CASE calls = <<>> /\ at' = "item" /\ UNCHANGED calls
    <3>1. Proper(<<>>, TRUE) /\ LevelsOf(<<>>, TRUE) = LevelsOf(<<>>, FALSE)
      BY DEF Proper, LevelsOf
    <3>2. Fresh' = TRUE
      BY <2>3 DEF Fresh
    <3> QED BY <2>1, <2>2, <2>3, <3>1, <3>2 DEF Follows
  <2>4. CASE calls # <<>> /\ TopCall.type = "tag" /\ calls' = CallerOf(calls) /\ UNCHANGED at
    <3>1. Len(calls) \in 1..Len(calls)
      BY <2>4, AdvancedCalls
    <3>2. ~TopCall.indefinite /\ TopCall.size = 1 /\ TopCall.i = 0
      BY <2>2, <2>4, <3>1 DEF Proper, TopCall
    <3>3. TopCall.i + (IF FALSE THEN 0 ELSE 1) = TopCall.size
      BY <3>2
    <3>4. /\ Proper(CallerOf(calls), FALSE)
          /\ Trimmed(LevelsOf(calls, FALSE)) = Trimmed(LevelsOf(CallerOf(calls), FALSE))
      BY <2>2, <2>4, <3>2, <3>3, ClosedByItself
    <3>5. Fresh' = FALSE
      BY <2>1, <2>4 DEF Fresh
    <3> QED BY <2>1, <2>2, <2>4, <3>4, <3>5 DEF Follows
  <2>5. CASE calls # <<>> /\ TopCall.type # "tag" /\ calls' = Advanced /\ at' = "items"
    <3>1. Proper(Advanced, TRUE) /\ LevelsOf(Advanced, TRUE) = LevelsOf(calls, FALSE)
      BY <1>1, <2>2, <2>5, LevelsNext DEF Advanced, TopCall
    <3>2. Fresh' = TRUE
      BY <2>5 DEF Fresh
    <3> QED BY <2>1, <2>2, <2>5, <3>1, <3>2 DEF Follows
  <2> QED BY <1>11, <2>3, <2>4, <2>5 DEF Return, Advanced
<1>12. CASE BlockEnd
  <2>1. /\ at = "end" /\ met = {} /\ at' = "return" /\ calls' = CallerOf(calls)
        /\ ~(TopCall.type = "map" /\ TopCall.i % 2 = 1)
        /\ IF TopBlock.indefinite THEN next # Eof /\ Read
           ELSE TopBlock.num_items = TopBlock.len /\ Unread
    BY <1>12, MetGrows DEF BlockEnd, Errors
  <2>2. calls # <<>> /\ TopCall.type \in ItemTypes
    BY <2>1 DEF WhereItIs
  <2>3. /\ TopBlock.indefinite = TopCall.indefinite /\ TopBlock.len = TopCall.size
        /\ ~TopBlock.indefinite => TopBlock.num_items = TopCall.i
    BY <2>1, <2>2, TopAgrees DEF Innocent, Fresh, Errors
  <2>4. legal /\ Proper(calls, TRUE) /\ open = Trimmed(LevelsOf(calls, TRUE))
    BY <1>2, <2>1 DEF Follows, Errors, Fresh
  <2>5. Fresh' = FALSE
    BY <2>1 DEF Fresh
  <2>6. CASE TopBlock.indefinite
    <3> DEFINE G == LevelsOf(CallerOf(calls), FALSE)
               l == LevelOf(TopCall, 0)
    <3>1. /\ Proper(CallerOf(calls), FALSE) /\ G \in Seq(OpenSet) /\ l \in OpenSet
          /\ open = Append(G, l) /\ IsBreak /\ l.type = TopCall.type /\ l.left = Unbounded
          /\ l.odd = (TopCall.indefinite /\ TopCall.i % 2 = 1)
      BY <2>1, <2>3, <2>6, OpenAtEnd
    <3> HIDE DEF G, l
    <3>2. next.kind = "break"
      BY <2>1, <2>6, <3>1 DEF IsBreak
    <3>3. Innermost(open) = l /\ open # <<>> /\ SubSeq(open, 1, Len(open) - 1) = G
      <4>1. open # <<>> /\ Innermost(open) = l
        BY <3>1, AppendProperties, EmptySeq, LenProperties DEF Innermost
      <4>2. /\ Append(G, l) \in Seq(OpenSet) /\ Len(Append(G, l)) = Len(G) + 1 /\ Len(G) \in Nat
            /\ \A k \in 1..Len(G) : Append(G, l)[k] = G[k]
        BY <3>1, AppendProperties, LenProperties
      <4>3. /\ SubSeq(open, 1, Len(open) - 1) \in Seq(OpenSet)
            /\ Len(SubSeq(open, 1, Len(open) - 1)) = Len(open) - 1
            /\ \A k \in 1..Len(open) - 1 : SubSeq(open, 1, Len(open) - 1)[k] = open[k]
        BY <3>1, <4>1, <4>2, AllButLast
      <4>4. Len(open) - 1 = Len(G)
        BY <3>1, <4>2
      <4>5. PICK F : F = SubSeq(open, 1, Len(open) - 1)
        OBVIOUS
      <4>6. F \in Seq(OpenSet) /\ Len(F) = Len(G) /\ \A k \in 1..Len(F) : F[k] = G[k]
        BY <3>1, <4>2, <4>3, <4>4, <4>5
      <4>7. F = G
        BY <3>1, <4>6, SameLevels
      <4> QED BY <4>1, <4>5, <4>7
    <3>4. Legal(open, next)
      BY <2>1, <3>1, <3>2, <3>3 DEF Legal
    <3>5. After(open, next) = Trimmed(G)
      BY <3>2, <3>3 DEF After
    <3>6. legal' /\ open' = Trimmed(G)
      BY <2>1, <2>4, <2>6, <3>4, <3>5 DEF Read
    <3> QED BY <2>1, <2>5, <3>1, <3>6 DEF Follows, G
  <2>7. CASE ~TopBlock.indefinite
    <3>1. TopCall.i + (IF TRUE THEN 0 ELSE 1) = TopCall.size /\ ~TopCall.indefinite
      <4>1. TopCall.i \in Nat /\ TopCall.i = TopCall.size
        BY <2>1, <2>2, <2>3, <2>7, AdvancedCalls DEF CallSet
      <4> QED BY <2>3, <2>7, <4>1
    <3>2. /\ Proper(CallerOf(calls), FALSE)
          /\ Trimmed(LevelsOf(calls, TRUE)) = Trimmed(LevelsOf(CallerOf(calls), FALSE))
      BY <2>2, <2>4, <3>1, ClosedByItself
    <3>3. UNCHANGED <<legal, open>>
      BY <2>1, <2>7 DEF Unread
    <3> QED BY <2>1, <2>4, <2>5, <3>2, <3>3 DEF Follows
  <2> QED BY <2>6, <2>7
<1>13. CASE UNCHANGED vars
  <2>1. Follows(Fresh)
    BY <1>2, <1>13 DEF vars
  <2>2. TopCall' = TopCall /\ IsBreak' = IsBreak /\ Fresh' = Fresh
    BY <1>13 DEF vars, TopCall, IsBreak, Fresh
  <2> QED BY <1>13, <2>1, <2>2 DEF vars, Follows
<1> QED BY <1>3, <1>4, <1>5, <1>6, <1>7, <1>8, <1>9, <1>10, <1>11, <1>12, <1>13 DEF Next

-----------------------------------------------------------------------------
(* RejectsOnlyIllFormed.                                                   *)

\* A loop that ends before its count, with an odd item in a map or at the end of the
\* stream.
LEMMA EndsIllFormed ==
  ASSUME DecodeTypes, WhereItIs, Followed, at = "end", met = {},
         \/ ~TopCall.indefinite /\ TopCall.i # TopCall.size
         \/ TopCall.indefinite /\ next = Eof
         \/ TopCall.indefinite /\ TopCall.type = "map" /\ TopCall.i % 2 = 1
  PROVE  IllFormed
<1> DEFINE G == LevelsOf(CallerOf(calls), FALSE)
           l == LevelOf(TopCall, 0)
<1>1. /\ G \in Seq(OpenSet) /\ l \in OpenSet /\ open = Append(G, l) /\ IsBreak /\ l.type = TopCall.type
      /\ l.left = IF TopCall.indefinite THEN Unbounded ELSE TopCall.size - TopCall.i
      /\ ~TopCall.indefinite => l.left \in Nat
      /\ l.odd = (TopCall.indefinite /\ TopCall.i % 2 = 1)
  BY OpenAtEnd
<1> HIDE DEF G, l
<1>2. open # <<>> /\ Innermost(open) = l
  BY <1>1, AppendProperties, EmptySeq, LenProperties DEF Innermost
<1>3. CASE next = Eof
  BY <1>2, <1>3 DEF IllFormed, Complete
<1>4. CASE next # Eof
  <2>1. next.kind = "break"
    BY <1>1, <1>4 DEF IsBreak
  <2>2. l.left # Unbounded \/ (l.type = "map" /\ l.odd)
    <3>1. CASE ~TopCall.indefinite
      BY <1>1, <3>1 DEF Unbounded
    <3>2. CASE TopCall.indefinite
      BY <1>1, <1>4, <3>2
    <3> QED BY <3>1, <3>2
  <2>3. ~Legal(open, next)
    BY <1>2, <2>1, <2>2 DEF Legal
  <2> QED BY <1>4, <2>3 DEF IllFormed
<1> QED BY <1>3, <1>4

LEMMA RejectsStep ==
  ASSUME DecodeTypes, WhereItIs, LoopsAndBlocksAgree, Followed, RejectsOnlyIllFormed, [Next]_vars
  PROVE  RejectsOnlyIllFormed'
<1> SUFFICES ASSUME at' \in Errors \ {"NB_ERR_RANGE"}, met' = {} PROVE IllFormed'
  BY DEF RejectsOnlyIllFormed
<1>1. Unread => met = {} /\ IllFormed' = IllFormed
  BY DEF Unread, IllFormed
<1>2. calls \in Seq(CallSet)
  BY DEF DecodeTypes
<1>3. CASE DecodeUnsupported
  <2>1. next.kind # "other"
    <3> SUFFICES ASSUME next.kind = "other" PROVE FALSE
      OBVIOUS
    <3>1. next # Eof /\ ~IsBreak
      BY DEF IsBreak, Eof, Token
    <3>2. Trouble(next) = {"float"} /\ met' = met \cup Trouble(next)
      BY <1>3, <3>1 DEF DecodeUnsupported, Read, Trouble
    <3> QED BY <3>2
  <2>2. /\ at = "item" /\ (IsBreak \/ (next = Eof /\ calls # <<>>))
        /\ met = {} /\ IllFormed' = IllFormed
    BY <1>1, <1>3, <2>1 DEF DecodeUnsupported
  <2>3. CASE calls = <<>>
    <3>1. next.kind = "break"
      BY <2>2, <2>3 DEF IsBreak
    <3>2. next # Eof
      BY <3>1 DEF Eof, Token
    <3>3. open = <<>>
      BY <2>2, <2>3, ItemBegins
    <3> QED BY <2>2, <3>1, <3>2, <3>3 DEF IllFormed, Legal
  <2>4. CASE calls # <<>>
    <3>1. /\ open # <<>> /\ Innermost(open) = LevelOf(TopCall, 0)
          /\ TopCall \in CallSet /\ Proper(calls, TRUE) /\ Len(calls) \in 1..Len(calls)
      BY <2>2, <2>4, ItemBegins, AdvancedCalls
    <3>2. CASE next = Eof
      BY <2>2, <3>1, <3>2 DEF IllFormed, Complete
    <3>3. CASE next # Eof
      <4>1. IsBreak /\ next.kind = "break"
        BY <2>2, <3>3 DEF IsBreak
      <4>2. TopCall.type = "tag"
        BY <2>2, <2>4, <4>1 DEF Followed, Errors
      <4>3. ~TopCall.indefinite /\ TopCall.size = 1 /\ TopCall.i = 0
        BY <3>1, <4>2 DEF Proper, TopCall
      <4>4. LevelOf(TopCall, 0).left = 1
        <5>1. TopCall.size - TopCall.i - 0 = 1
          BY <4>3
        <5> QED BY <4>3, <5>1 DEF LevelOf
      <4>5. ~Legal(open, next)
        BY <3>1, <4>1, <4>4 DEF Legal, Unbounded
      <4> QED BY <2>2, <3>3, <4>5 DEF IllFormed
    <3> QED BY <3>2, <3>3
  <2> QED BY <2>3, <2>4
<1>4. CASE Chunk
  <2>1. at = "chunks" /\ calls # <<>> /\ TopCall.type = "text" /\ met = {}
    BY <1>4, MetGrows DEF Chunk, WhereItIs
  <2>2. Len(calls) \in 1..Len(calls)
    BY <2>1, AdvancedCalls
  <2> QED BY <2>1, <2>2 DEF Followed, Proper, TopCall, Errors
<1>5. CASE BlockEnd
  <2>1. /\ at = "end" /\ Unread
        /\ \/ TopCall.type = "map" /\ TopCall.i % 2 = 1
           \/ TopBlock.indefinite /\ next = Eof
           \/ ~TopBlock.indefinite /\ TopBlock.num_items # TopBlock.len
    BY <1>5 DEF BlockEnd, Errors
  <2>2. calls # <<>> /\ TopCall.type \in ItemTypes /\ met = {} /\ IllFormed' = IllFormed
    BY <1>1, <2>1 DEF WhereItIs
  <2>3. /\ TopBlock.indefinite = TopCall.indefinite /\ TopBlock.len = TopCall.size
        /\ ~TopBlock.indefinite => TopBlock.num_items = TopCall.i
    BY <2>1, <2>2, TopAgrees DEF Innocent, Fresh, Errors
  <2>4. ~TopCall.indefinite /\ TopCall.type = "map" /\ TopCall.i % 2 = 1 => TopCall.i # TopCall.size
    <3>1. Fresh = TRUE /\ at \notin Errors
      BY <2>1 DEF Fresh, Errors
    <3>2. Proper(calls, TRUE)
      BY <2>2, <3>1 DEF Followed
    <3>3. Len(calls) \in 1..Len(calls)
      BY <2>2, AdvancedCalls
    <3>4. ~TopCall.indefinite /\ TopCall.type = "map" => TopCall.size % 2 = 0
      BY <3>2, <3>3 DEF Proper, TopCall
    <3> QED BY <3>4
  <2>5. \/ ~TopCall.indefinite /\ TopCall.i # TopCall.size
        \/ TopCall.indefinite /\ next = Eof
        \/ TopCall.indefinite /\ TopCall.type = "map" /\ TopCall.i % 2 = 1
    BY <2>1, <2>3, <2>4
  <2>6. IllFormed
    BY <2>1, <2>2, <2>5, EndsIllFormed
  <2> QED BY <2>2, <2>6
<1>6. CASE UNCHANGED vars
  BY <1>6 DEF vars, RejectsOnlyIllFormed, IllFormed
<1>7. CASE Finish \/ DecodeScalar \/ DecodeTag \/ DecodeBegin \/ DecodeString \/ NextItem \/ Return
  <2>1. at' \in {"finished", "return", "item", "items", "chunks", "end", "NB_ERR_RANGE"}
    BY <1>7 DEF Finish, DecodeScalar, DecodeTag, DecodeBegin, DecodeString, NextItem, Return
  <2> QED BY <2>1 DEF Errors
<1> QED BY <1>3, <1>4, <1>5, <1>6, <1>7 DEF Next

-----------------------------------------------------------------------------
(* The theorems.                                                           *)

LEMMA DecodeInvInit == Init => DecodeInv
<1> SUFFICES ASSUME Init PROVE DecodeInv
  OBVIOUS
<1>1. /\ next \in Coming(0) /\ blocks = Root /\ calls = <<>> /\ at = "item" /\ open = <<>> /\ legal
      /\ met = {}
  BY DEF Init
<1>2. next \in {Eof} \cup Tokens(MaxCount)
  BY <1>1 DEF Coming
<1>3. blocks \in Seq(BlockSet) /\ Len(blocks) = 1
  <2>1. Block("root", TRUE, 0) \in BlockSet
    BY DEF Block, BlockSet
  <2>2. PICK b : b = Block("root", TRUE, 0)
    OBVIOUS
  <2>3. b \in BlockSet /\ blocks = <<b>>
    BY <1>1, <2>1, <2>2 DEF Root
  <2> QED BY ONLY <2>3
<1>4. calls \in Seq(CallSet) /\ Len(calls) = 0
  BY <1>1
<1>5. DecodeTypes
  BY <1>1, <1>2, <1>3, <1>4 DEF DecodeTypes, Places
<1>6. WhereItIs
  BY <1>1, <1>4 DEF WhereItIs
<1>7. Loops(<<>>, blocks, calls, Fresh, Innocent)
  <2>1. Len(blocks) - 1 = 0 /\ 1..Len(blocks) - 1 = {} /\ 1..Len(calls) = {}
    BY <1>3, <1>4
  <2>2. <<>> \in [{} -> {}]
    OBVIOUS
  <2>3. <<>> \in [1..Len(blocks) - 1 -> 1..Len(calls)]
    BY <2>1, <2>2
  <2> QED BY <2>1, <2>3 DEF Loops
<1>8. LoopsAndBlocksAgree
  BY <1>7, AgreeIs
<1>9. Followed
  <2>1. Proper(calls, Fresh)
    BY <1>4 DEF Proper
  <2>2. LevelsOf(calls, Fresh) \in Seq(OpenSet) /\ Len(LevelsOf(calls, Fresh)) = 0
    <3>1. Fresh \in BOOLEAN
      BY DEF Fresh
    <3> QED BY <1>4, <2>1, <3>1, LevelsType
  <2>3. LevelsOf(calls, Fresh) = <<>>
    BY <2>2, EmptySeq
  <2>4. Trimmed(<<>>) = <<>>
    <3>1. <<>> \in Seq(OpenSet) /\ \A i \in 1..Len(<<>>) : <<>>[i].left = 0
      OBVIOUS
    <3> QED BY <3>1, TrimmedAll
  <2> QED BY <1>1, <2>1, <2>3, <2>4 DEF Followed
<1>10. RejectsOnlyIllFormed
  BY <1>1 DEF RejectsOnlyIllFormed, Errors
<1> QED BY <1>5, <1>6, <1>8, <1>9, <1>10 DEF DecodeInv

LEMMA DecodeInvAlways == Spec => []DecodeInv
<1>1. DecodeInv /\ [Next]_vars => DecodeInv'
  BY TypesStep, WhereStep, AgreeStep, FollowedStep, RejectsStep DEF DecodeInv
<1> QED BY DecodeInvInit, <1>1, PTL DEF Spec

\* A stream that the decoder takes to its end without an error is a sequence of
\* well-formed items, for streams of any length and depth, whatever it announces.
THEOREM AcceptsWellFormedAlways == Spec => []AcceptsOnlyWellFormed
<1>1. DecodeInv => AcceptsOnlyWellFormed
  <2> SUFFICES ASSUME DecodeInv, at = "finished", met = {} PROVE legal /\ Complete(open)
    BY DEF AcceptsOnlyWellFormed
  <2>1. /\ legal /\ calls = <<>> /\ Proper(calls, Fresh) /\ open = Trimmed(LevelsOf(calls, Fresh))
    BY DEF DecodeInv, Followed, Errors
  <2>2. LevelsOf(calls, Fresh) \in Seq(OpenSet) /\ Len(LevelsOf(calls, Fresh)) = 0
    <3>1. Fresh \in BOOLEAN /\ calls \in Seq(CallSet) /\ Len(calls) = 0
      BY <2>1 DEF Fresh
    <3> QED BY <2>1, <3>1, LevelsType
  <2>3. \A i \in 1..Len(LevelsOf(calls, Fresh)) : LevelsOf(calls, Fresh)[i].left = 0
    <3>1. PICK F : F = LevelsOf(calls, Fresh)
      OBVIOUS
    <3>2. Len(F) = 0
      BY <2>2, <3>1
    <3>3. \A i \in 1..Len(F) : F[i].left = 0
      BY ONLY <3>2
    <3> QED BY <3>1, <3>3
  <2>4. open = <<>>
    BY <2>1, <2>2, <2>3, TrimmedAll
  <2> QED BY <2>1, <2>4 DEF Complete
<1> QED BY DecodeInvAlways, <1>1, PTL

\* An error other than for a number out of range means that the stream is no beginning
\* of a sequence of well-formed items, or ends inside one, unless it has what decode.c
\* does not cope with.
THEOREM RejectsIllFormedAlways == Spec => []RejectsOnlyIllFormed
<1>1. DecodeInv => RejectsOnlyIllFormed
  BY DEF DecodeInv
<1> QED BY DecodeInvAlways, <1>1, PTL

\* The recursion of the decoder and its block stack agree at every step, whatever the
\* stream, and so do their counts, until an error or something it does not cope with.
THEOREM LoopsAndBlocksAlways == Spec => []LoopsAndBlocksAgree
<1>1. DecodeInv => LoopsAndBlocksAgree
  BY DEF DecodeInv
<1> QED BY DecodeInvAlways, <1>1, PTL

\* Logging changes nothing of that: with diagnostics on, as in the run, every step is
\* one of the decoder's own.
THEOREM DiagIsDecode == DiagSpec => Spec
<1>1. DiagInit => Init
  BY DEF DiagInit
<1>2. [DiagNext]_diagVars => [Next]_vars
  BY DEF diagVars, DiagNext, Next, DiagFinish, DiagDecodeScalar, DiagDecodeTag, DiagDecodeBegin,
         DiagDecodeString, DiagDecodeUnsupported, DiagChunk, DiagNextItem, DiagReturn, DiagBlockEnd
<1> QED BY <1>1, <1>2, PTL DEF DiagSpec, Spec

-----------------------------------------------------------------------------
(* The text, read from left to right.  ReadText is a recursive function;   *)
(* what it returns for one symbol more, or for one text behind another,    *)
(* follows from the first place at which it would not hold.                *)

\* What the diagnostics consist of: items, commas, colons and brackets.
Symbols == {"v", ",", ":", "[", "[_", "{", "{_", "]", "}"}

\* What holds at the beginning and from one number to the next holds of all of them.
LEMMA Upwards ==
  ASSUME NEW n \in Nat, NEW S, 0 \in S, \A i \in 1..n : i - 1 \in S => i \in S
  PROVE  0..n \subseteq S
<1> SUFFICES ASSUME NEW k \in 0..n, k \notin S PROVE FALSE
  OBVIOUS
<1> DEFINE R == OpToRel(<, Nat)
           T == {i \in 0..n : i \notin S}
<1>1. IsWellFoundedOn(R, Nat)
  BY NatLessThanWellFounded
<1>2. \A x, y \in Nat : x < y => <<x, y>> \in R
  BY DEF OpToRel
<1>3. T # {} /\ T \in SUBSET Nat
  OBVIOUS
<1> HIDE DEF R
<1>4. PICK i \in T : \A j \in T : ~(<<j, i>> \in R)
  <2> HIDE DEF T
  <2> QED BY <1>1, <1>3, WFMin
<1>5. i \in 1..n /\ i - 1 \in Nat /\ i \in Nat /\ i - 1 < i /\ i - 1 \in 0..n
  BY <1>4
<1>6. i - 1 \in T
  BY <1>4, <1>5
<1>7. ~(i - 1 < i)
  BY <1>2, <1>4, <1>5, <1>6
<1> QED BY <1>5, <1>7

\* The reader after each symbol of s.
Reads(h, r, s) ==
  h = [i \in 0..Len(s) |-> IF i = 0 THEN r ELSE ReadSymbol(h[i - 1], s[i])]

\* There is such a function.
LEMMA ReadsExist == ASSUME NEW r, NEW s, Len(s) \in Nat PROVE \E h : Reads(h, r, s)
<1> DEFINE n == Len(s)
           Up(g, k) == g = [i \in 0..k |-> IF i = 0 THEN r ELSE ReadSymbol(g[i - 1], s[i])]
           S == {k \in 0..n : \E g : Up(g, k)}
<1>1. n \in Nat
  OBVIOUS
<1>2. 0 \in S
  <2> DEFINE g == [i \in 0..0 |-> r]
  <2>1. \A i \in 0..0 : i = 0
    OBVIOUS
  <2>2. g = [i \in 0..0 |-> IF i = 0 THEN r ELSE ReadSymbol(g[i - 1], s[i])]
    BY <2>1
  <2> HIDE DEF g
  <2>3. Up(g, 0)
    BY <2>2
  <2> QED BY <1>1, <2>3
<1>3. ASSUME NEW k \in 1..n, k - 1 \in S PROVE k \in S
  <2>1. PICK g : Up(g, k - 1)
    BY <1>3
  <2> DEFINE f == [i \in 0..k |-> IF i = k THEN ReadSymbol(g[k - 1], s[k]) ELSE g[i]]
  <2>2. k \in Nat /\ k > 0
    BY <1>1
  <2>3. f = [i \in 0..k |-> IF i = 0 THEN r ELSE ReadSymbol(f[i - 1], s[i])]
    <3>1. ASSUME NEW i \in 0..k
          PROVE  f[i] = IF i = 0 THEN r ELSE ReadSymbol(f[i - 1], s[i])
      <4>1. CASE i = k
        <5>1. k - 1 \in 0..k /\ k - 1 # k
          BY <2>2
        <5>2. f[k - 1] = g[k - 1]
          BY <5>1
        <5>3. f[i] = ReadSymbol(g[k - 1], s[k])
          BY <4>1
        <5> HIDE DEF f, Up
        <5> QED BY <2>2, <4>1, <5>2, <5>3
      <4>2. CASE i # k
        <5>1. i \in 0..(k - 1)
          BY <2>2, <4>2
        <5>2. g[i] = IF i = 0 THEN r ELSE ReadSymbol(g[i - 1], s[i])
          BY <2>1, <5>1
        <5>3. f[i] = g[i]
          BY <4>2
        <5>4. CASE i = 0
          <6> HIDE DEF f, Up
          <6> QED BY <5>2, <5>3, <5>4
        <5>5. CASE i # 0
          <6>1. i - 1 \in 0..k /\ i - 1 # k
            BY <2>2, <5>1, <5>5
          <6>2. f[i - 1] = g[i - 1]
            BY <6>1
          <6> HIDE DEF f, Up
          <6> QED BY <5>2, <5>3, <5>5, <6>2
        <5> QED BY <5>4, <5>5
      <4> QED BY <4>1, <4>2
    <3>2. f = [i \in 0..k |-> f[i]]
      OBVIOUS
    <3> HIDE DEF f
    <3> QED BY <3>1, <3>2
  <2> HIDE DEF f
  <2>4. Up(f, k)
    BY <2>3
  <2> HIDE DEF Up
  <2> QED BY <2>4
<1>4. n \in S
  <2> HIDE DEF S, n
  <2> QED BY <1>1, <1>2, <1>3, Upwards
<1>5. PICK h : Up(h, n)
  BY <1>4
<1> QED BY <1>5 DEF Reads

\* Any function that goes on from symbol to symbol ends with what ReadText returns.
LEMMA ReadIs ==
  ASSUME NEW r, NEW s, Len(s) \in Nat, NEW h, h[0] = r,
         \A i \in 1..Len(s) : h[i] = ReadSymbol(h[i - 1], s[i])
  PROVE  ReadText(r, s) = h[Len(s)]
<1> DEFINE n == Len(s)
           f == CHOOSE g : Reads(g, r, s)
           S == {i \in 0..n : f[i] = h[i]}
<1>1. n \in Nat
  OBVIOUS
<1>2. Reads(f, r, s)
  <2>1. \E g : Reads(g, r, s)
    BY ReadsExist
  <2> QED BY <2>1, Zenon
<1>3. ReadText(r, s) = f[n]
  BY DEF ReadText, Reads
<1> HIDE DEF f
<1>4. f[0] = r /\ \A i \in 1..n : f[i] = ReadSymbol(f[i - 1], s[i])
  BY <1>1, <1>2 DEF Reads
<1>5. 0 \in S
  BY <1>1, <1>4
<1>6. ASSUME NEW i \in 1..n, i - 1 \in S PROVE i \in S
  <2>1. i \in 0..n /\ f[i - 1] = h[i - 1]
    BY <1>1, <1>6
  <2>2. f[i] = ReadSymbol(f[i - 1], s[i]) /\ h[i] = ReadSymbol(h[i - 1], s[i])
    BY <1>4
  <2> QED BY <2>1, <2>2
<1>7. n \in S
  <2> HIDE DEF S, n
  <2>1. \A i \in 1..n : i - 1 \in S => i \in S
    BY <1>6
  <2>2. 0..n \subseteq S
    BY <1>1, <1>5, <2>1, Upwards, Zenon
  <2> QED BY <1>1, <2>2
<1> QED BY <1>3, <1>7

\* There is one, for any text.
LEMMA ReadGoesOn ==
  ASSUME NEW r, NEW s, Len(s) \in Nat
  PROVE  \E h : /\ h[0] = r /\ \A i \in 1..Len(s) : h[i] = ReadSymbol(h[i - 1], s[i])
                /\ ReadText(r, s) = h[Len(s)]
<1>1. PICK h : Reads(h, r, s)
  BY ReadsExist
<1>2. h[0] = r /\ \A i \in 1..Len(s) : h[i] = ReadSymbol(h[i - 1], s[i])
  BY <1>1 DEF Reads
<1> QED BY <1>2, ReadIs

\* Nothing to read.
LEMMA ReadNothing == ASSUME NEW r PROVE ReadText(r, <<>>) = r
<1>1. PICK e : e = <<>> /\ Len(e) = 0 /\ Len(e) \in Nat
  OBVIOUS
<1>2. PICK h : /\ h[0] = r /\ \A i \in 1..Len(e) : h[i] = ReadSymbol(h[i - 1], e[i])
               /\ ReadText(r, e) = h[Len(e)]
  <2>1. Len(e) \in Nat
    BY <1>1
  <2> QED BY <2>1, ReadGoesOn, Zenon
<1> QED BY <1>1, <1>2

\* One text behind another.
LEMMA ReadOn ==
  ASSUME NEW r, NEW s \in Seq(Symbols), NEW t \in Seq(Symbols)
  PROVE  ReadText(r, s \o t) = ReadText(ReadText(r, s), t)
<1> DEFINE m == Len(s)
           n == Len(t)
           u == s \o t
<1>1. PICK h : /\ h[0] = r /\ \A i \in 1..Len(u) : h[i] = ReadSymbol(h[i - 1], u[i])
               /\ ReadText(r, u) = h[Len(u)]
  <2>1. Len(u) \in Nat
    BY ConcatProperties, LenProperties
  <2> HIDE DEF u
  <2> QED BY <2>1, ReadGoesOn, Zenon
<1>2. /\ m \in Nat /\ n \in Nat /\ Len(u) = m + n
      /\ \A i \in 1..m : u[i] = s[i]
      /\ \A i \in 1..n : u[m + i] = t[i]
  <2>1. m \in Nat /\ n \in Nat /\ Len(u) = m + n
        /\ \A i \in 1..(m + n) : u[i] = IF i <= m THEN s[i] ELSE t[i - m]
    BY ConcatProperties, LenProperties
  <2> HIDE DEF m, n, u
  <2>2. ASSUME NEW i \in 1..m PROVE u[i] = s[i]
    <3>1. i \in 1..(m + n) /\ i <= m
      BY <2>1
    <3> QED BY <2>1, <3>1
  <2>3. ASSUME NEW i \in 1..n PROVE u[m + i] = t[i]
    <3>1. m + i \in 1..(m + n) /\ ~(m + i <= m) /\ m + i - m = i
      BY <2>1
    <3> QED BY <2>1, <3>1
  <2> QED BY <2>1, <2>2, <2>3
<1> HIDE DEF u
<1>3. ReadText(r, s) = h[m]
  <2>1. \A i \in 1..m : h[i] = ReadSymbol(h[i - 1], s[i])
    <3> HIDE DEF m, n
    <3> SUFFICES ASSUME NEW i \in 1..m PROVE h[i] = ReadSymbol(h[i - 1], s[i])
      OBVIOUS
    <3>1. i \in 1..Len(u)
      BY <1>2
    <3> QED BY <1>1, <1>2, <3>1
  <2> QED BY <1>1, <2>1, ReadIs
<1> DEFINE g == [i \in 0..n |-> h[m + i]]
<1>4. g[0] = h[m] /\ g[n] = h[m + n] /\ \A i \in 1..n : g[i] = ReadSymbol(g[i - 1], t[i])
  <2> HIDE DEF m, n
  <2>1. 0 \in 0..n /\ n \in 0..n /\ m + 0 = m
    BY <1>2
  <2>2. ASSUME NEW i \in 1..n PROVE g[i] = ReadSymbol(g[i - 1], t[i])
    <3>1. i \in 0..n /\ i - 1 \in 0..n /\ m + i \in 1..Len(u) /\ (m + i) - 1 = m + (i - 1)
      BY <1>2
    <3>2. h[m + i] = ReadSymbol(h[m + (i - 1)], t[i])
      BY <1>1, <1>2, <3>1
    <3> QED BY <3>1, <3>2
  <2> QED BY <2>1, <2>2
<1> HIDE DEF g
<1>5. ReadText(h[m], t) = g[n]
  BY <1>4, ReadIs
<1> QED BY <1>1, <1>2, <1>3, <1>4, <1>5 DEF u

\* One symbol more.
LEMMA ReadOneMore ==
  ASSUME NEW r, NEW s \in Seq(Symbols), NEW x \in Symbols
  PROVE  ReadText(r, Append(s, x)) = ReadSymbol(ReadText(r, s), x)
<1> DEFINE a == ReadText(r, s)
<1>1. PICK e : e = <<x>>
  OBVIOUS
<1>2. Len(e) = 1 /\ Len(e) \in Nat /\ e[1] = x /\ e \in Seq(Symbols)
  BY <1>1
<1>3. PICK h : /\ h[0] = a /\ \A i \in 1..Len(e) : h[i] = ReadSymbol(h[i - 1], e[i])
               /\ ReadText(a, e) = h[Len(e)]
  <2>1. Len(e) \in Nat
    BY <1>2
  <2> HIDE DEF a
  <2> QED BY <2>1, ReadGoesOn, Zenon
<1>4. ReadText(a, e) = ReadSymbol(a, x)
  <2> HIDE DEF a
  <2>1. h[1] = ReadSymbol(h[1 - 1], e[1])
    BY <1>2, <1>3
  <2> QED BY <1>2, <1>3, <2>1
<1>5. ReadText(r, s \o e) = ReadText(a, e)
  BY <1>2, ReadOn
<1>6. Append(s, x) = s \o e
  BY <1>1, AppendIsConcat
<1> QED BY <1>4, <1>5, <1>6

-----------------------------------------------------------------------------
(* The calls of diag.c.                                                    *)

\* The lines of a struct diag, the one that is written and the one before it.
LineSet == [empty : BOOLEAN, cbor_comma : BOOLEAN, cbor : Seq(Symbols), indent_level : Nat]
Current(d) == d.lines[d.line]
Other(d) == d.lines[OtherLine(d)]

\* An empty line holds nothing, and no comma is due behind it.
Tidy(l) == l.empty => l.cbor = <<>> /\ ~l.cbor_comma

\* A struct diag, field by field.
IsDiag(d) ==
  /\ d = [lines |-> d.lines, line |-> d.line, eol_on_next_raw |-> d.eol_on_next_raw,
          reader |-> d.reader, aborted |-> d.aborted]
  /\ d.lines \in [1..2 -> LineSet] /\ d.line \in 1..2
  /\ d.eol_on_next_raw \in BOOLEAN /\ d.aborted \in BOOLEAN
  /\ \A k \in 1..2 : Tidy(d.lines[k])

\* Does a comma follow when the next item begins?
Pending(d) == IF d.eol_on_next_raw THEN Current(d).cbor_comma ELSE Other(d).cbor_comma

\* Neither the indentation nor the assertion is concerned.
Kept(d, e) ==
  IsDiag(e) /\ Current(e).indent_level = Current(d).indent_level /\ e.aborted = d.aborted

\* The two lines are the current one and the other one.
LEMMA Sides ==
  ASSUME NEW d, IsDiag(d)
  PROVE  /\ OtherLine(d) \in 1..2 /\ OtherLine(d) # d.line /\ d.line \in 1..2
         /\ \A k \in 1..2 : k = d.line \/ k = OtherLine(d)
         /\ Current(d) \in LineSet /\ Other(d) \in LineSet
         /\ Tidy(Current(d)) /\ Tidy(Other(d))
<1>1. d.line \in 1..2 /\ d.lines \in [1..2 -> LineSet] /\ \A k \in 1..2 : Tidy(d.lines[k])
  BY DEF IsDiag
<1>2. /\ OtherLine(d) \in 1..2 /\ OtherLine(d) # d.line
      /\ \A k \in 1..2 : k = d.line \/ k = OtherLine(d)
  BY <1>1 DEF OtherLine
<1> QED BY <1>1, <1>2 DEF Current, Other

\* A struct diag.
LEMMA Remade ==
  ASSUME NEW ls \in [1..2 -> LineSet], \A k \in 1..2 : Tidy(ls[k]), NEW l \in 1..2,
         NEW eol \in BOOLEAN, NEW r, NEW a \in BOOLEAN,
         NEW e, e = [lines |-> ls, line |-> l, eol_on_next_raw |-> eol, reader |-> r,
                     aborted |-> a]
  PROVE  /\ IsDiag(e) /\ e.lines = ls /\ e.line = l /\ OtherLine(e) = 3 - l
         /\ e.eol_on_next_raw = eol /\ e.reader = r /\ e.aborted = a
<1>1. /\ e.lines = ls /\ e.line = l /\ e.eol_on_next_raw = eol
      /\ e.reader = r /\ e.aborted = a
  OBVIOUS
<1>2. e = [lines |-> e.lines, line |-> e.line, eol_on_next_raw |-> e.eol_on_next_raw,
           reader |-> e.reader, aborted |-> e.aborted]
  BY <1>1
<1>3. e.lines \in [1..2 -> LineSet] /\ \A k \in 1..2 : Tidy(e.lines[k])
  BY <1>1
<1>4. e.line \in 1..2 /\ e.eol_on_next_raw \in BOOLEAN /\ e.aborted \in BOOLEAN
  BY <1>1
<1> QED BY <1>1, <1>2, <1>3, <1>4 DEF IsDiag, OtherLine

\* The lines, of which one is written.
LEMMA LinesPut ==
  ASSUME NEW d, IsDiag(d), NEW k \in 1..2, NEW l \in LineSet, Tidy(l)
  PROVE  LET ls == [d.lines EXCEPT ![k] = l]
         IN  /\ ls \in [1..2 -> LineSet] /\ ls[k] = l /\ \A j \in 1..2 : j # k => ls[j] = d.lines[j]
             /\ \A j \in 1..2 : Tidy(ls[j])
<1> DEFINE ls == [d.lines EXCEPT ![k] = l]
<1>1. ls \in [1..2 -> LineSet] /\ ls[k] = l /\ \A j \in 1..2 : j # k => ls[j] = d.lines[j]
  BY DEF IsDiag
<1>2. \A j \in 1..2 : Tidy(ls[j])
  <2>1. ASSUME NEW j \in 1..2 PROVE Tidy(ls[j])
    <3> HIDE DEF ls
    <3>1. Tidy(d.lines[j])
      BY DEF IsDiag
    <3>2. CASE j = k
      BY <1>1, <3>2
    <3>3. CASE j # k
      BY <1>1, <3>1, <3>3
    <3> QED BY <3>2, <3>3
  <2> QED BY <2>1
<1> QED BY <1>1, <1>2

\* A line is written.
LEMMA PutLine ==
  ASSUME NEW d, IsDiag(d), NEW k \in 1..2, NEW l \in LineSet, Tidy(l)
  PROVE  LET e == [d EXCEPT !.lines = [@ EXCEPT ![k] = l]]
         IN  /\ IsDiag(e) /\ e.lines[k] = l /\ \A j \in 1..2 : j # k => e.lines[j] = d.lines[j]
             /\ e.line = d.line /\ OtherLine(e) = OtherLine(d)
             /\ e.eol_on_next_raw = d.eol_on_next_raw /\ e.reader = d.reader
             /\ e.aborted = d.aborted
<1> DEFINE ls == [d.lines EXCEPT ![k] = l]
           e == [d EXCEPT !.lines = ls]
<1>1. /\ ls \in [1..2 -> LineSet] /\ ls[k] = l /\ \A j \in 1..2 : j # k => ls[j] = d.lines[j]
      /\ \A j \in 1..2 : Tidy(ls[j])
  BY LinesPut
<1> HIDE DEF ls
<1>3. /\ e.lines = ls /\ e.line = d.line /\ e.eol_on_next_raw = d.eol_on_next_raw
      /\ e.reader = d.reader /\ e.aborted = d.aborted
      /\ e = [lines |-> e.lines, line |-> e.line, eol_on_next_raw |-> e.eol_on_next_raw,
              reader |-> e.reader, aborted |-> e.aborted]
  BY DEF IsDiag
<1>4. e = [d EXCEPT !.lines = [@ EXCEPT ![k] = l]]
  BY DEF ls
<1> HIDE DEF e
<1>5. IsDiag(e)
  BY <1>1, <1>3 DEF IsDiag
<1>6. OtherLine(e) = OtherLine(d)
  BY <1>3 DEF OtherLine
<1> QED BY <1>1, <1>3, <1>4, <1>5, <1>6

\* What is written, in two parts.
LEMMA TextIs ==
  ASSUME NEW d, IsDiag(d)
  PROVE  Text(d) = ReadText(ReadText(d.reader, Other(d).cbor), Current(d).cbor)
<1>1. Other(d).cbor \in Seq(Symbols) /\ Current(d).cbor \in Seq(Symbols)
  BY Sides DEF LineSet
<1> QED BY <1>1, ReadOn DEF Text, Other, Current

\* switch_lines.
LEMMA SwitchedFacts ==
  ASSUME NEW d, IsDiag(d)
  PROVE  LET e == Switched(d)
         IN  /\ Kept(d, e) /\ Other(e) = Current(d)
             /\ Current(e) = [Other(d) EXCEPT !.indent_level = Current(d).indent_level]
             /\ e.eol_on_next_raw = d.eol_on_next_raw /\ e.reader = d.reader
<1> DEFINE o == OtherLine(d)
           l == [Other(d) EXCEPT !.indent_level = Current(d).indent_level]
           f == [d EXCEPT !.lines = [@ EXCEPT ![o] = l]]
           e == [f EXCEPT !.line = o]
<1>1. /\ o \in 1..2 /\ o # d.line /\ d.line \in 1..2 /\ Other(d) \in LineSet /\ Current(d) \in LineSet
      /\ Tidy(Other(d)) /\ 3 - o = d.line
  <2>1. 3 - o = d.line
    BY DEF IsDiag, OtherLine
  <2> QED BY <2>1, Sides
<1>2. l \in LineSet /\ Tidy(l) /\ l.indent_level = Current(d).indent_level
  BY <1>1 DEF LineSet, Tidy
<1> HIDE DEF l
<1>3. /\ IsDiag(f) /\ f.lines[o] = l /\ f.lines[d.line] = d.lines[d.line]
      /\ f.eol_on_next_raw = d.eol_on_next_raw /\ f.reader = d.reader /\ f.aborted = d.aborted
  BY <1>1, <1>2, PutLine
<1>4. e = Switched(d)
  <2>1. e = [d EXCEPT !.lines = [@ EXCEPT ![o] = l], !.line = o]
    BY DEF IsDiag
  <2>2. [d.lines EXCEPT ![o] = l] = [d.lines EXCEPT ![o].indent_level = Current(d).indent_level]
    BY <1>1 DEF l, Other
  <2> QED BY <2>1, <2>2 DEF Switched, Current, IsDiag
<1> HIDE DEF f
<1>5. /\ IsDiag(e) /\ e.lines = f.lines /\ e.line = o /\ e.eol_on_next_raw = f.eol_on_next_raw
      /\ e.reader = f.reader /\ e.aborted = f.aborted
  BY <1>1, <1>3 DEF IsDiag
<1>6. OtherLine(e) = d.line
  BY <1>1, <1>5 DEF OtherLine
<1> HIDE DEF e
<1> QED BY <1>2, <1>3, <1>4, <1>5, <1>6 DEF Kept, Current, Other, l

\* diag_dump_line: the text is the same, the line before is printed, and the current
\* one has become the line before.
LEMMA DumpLineFacts ==
  ASSUME NEW d, IsDiag(d)
  PROVE  LET e == DumpLine(d)
         IN  /\ Kept(d, e) /\ Text(e) = Text(d)
             /\ Other(e) = Current(d) /\ Current(e).cbor = <<>>
             /\ e.reader = ReadText(d.reader, Other(d).cbor)
             /\ e.eol_on_next_raw => d.eol_on_next_raw
<1> DEFINE e == Switched(d)
           line == e.lines[e.line]
           l == [NewLine EXCEPT !.indent_level = line.indent_level]
           g == [e EXCEPT !.reader = ReadText(e.reader, line.cbor), !.lines[e.line] = l,
                          !.eol_on_next_raw = FALSE]
<1>1. /\ Kept(d, e) /\ Other(e) = Current(d) /\ e.eol_on_next_raw = d.eol_on_next_raw
      /\ e.reader = d.reader /\ Other(d) \in LineSet
      /\ Current(e) = [Other(d) EXCEPT !.indent_level = Current(d).indent_level]
  BY SwitchedFacts, Sides
<1> HIDE DEF e
<1>2. line = Current(e) /\ line.cbor = Other(d).cbor /\ line.empty = Other(d).empty
      /\ line \in LineSet /\ Tidy(line) /\ IsDiag(e)
  <2>1. line = Current(e) /\ IsDiag(e)
    BY <1>1 DEF Current, Kept
  <2>2. line \in LineSet /\ Tidy(line)
    BY <2>1, Sides
  <2>3. line.cbor = Other(d).cbor /\ line.empty = Other(d).empty
    BY <1>1, <2>1 DEF LineSet
  <2> QED BY <2>1, <2>2, <2>3
<1>3. Text(d) = ReadText(ReadText(d.reader, Other(d).cbor), Current(d).cbor)
  BY TextIs
<1>4. CASE line.empty
  <2>1. DumpLine(d) = e
    BY <1>4 DEF DumpLine, e
  <2>2. line.cbor = <<>>
    BY <1>2, <1>4 DEF Tidy
  <2>3. Other(d).cbor = <<>> /\ Current(e).cbor = <<>>
    BY <1>2, <2>2
  <2>4. ReadText(d.reader, Other(d).cbor) = d.reader
    BY <2>3, ReadNothing
  <2>5. Text(e) = ReadText(ReadText(e.reader, Other(e).cbor), <<>>)
    BY <1>2, <2>3, TextIs
  <2>6. Text(e) = Text(d)
    BY <1>1, <1>3, <2>4, <2>5, ReadNothing
  <2> QED BY <1>1, <2>1, <2>3, <2>4, <2>6
<1>5. CASE ~line.empty
  <2>1. l \in LineSet /\ Tidy(l) /\ l.cbor = <<>> /\ l.indent_level = line.indent_level
    <3>1. line.indent_level \in Nat
      BY <1>2 DEF LineSet
    <3>2. <<>> \in Seq(Symbols)
      OBVIOUS
    <3> HIDE DEF line
    <3> QED BY <3>1, <3>2 DEF NewLine, LineSet, Tidy
  <2>2. DumpLine(d) = g
    BY <1>5 DEF DumpLine, e
  <2>3. e.line \in 1..2 /\ OtherLine(e) \in 1..2 /\ OtherLine(e) # e.line
    BY <1>2, Sides
  <2> HIDE DEF l, line
  <2>4. PICK no : no = FALSE
    OBVIOUS
  <2>5. g = [e EXCEPT !.reader = ReadText(e.reader, line.cbor), !.lines[e.line] = l,
                      !.eol_on_next_raw = no]
    BY <2>4, Zenon
  <2>12. PICK h, f, v, c : h = g /\ f = e /\ v = l /\ c = line.cbor
    OBVIOUS
  <2> HIDE DEF g
  <2>6. /\ IsDiag(g) /\ g.lines[e.line] = l
        /\ g.lines[OtherLine(e)] = e.lines[OtherLine(e)] /\ OtherLine(g) = OtherLine(e)
        /\ g.line = e.line /\ g.reader = ReadText(e.reader, line.cbor) /\ g.aborted = e.aborted
        /\ g.eol_on_next_raw = no
    <3>1. no \in BOOLEAN
      BY <2>4
    <3>2. IsDiag(f) /\ f.line \in 1..2 /\ v \in LineSet /\ Tidy(v)
      BY <1>2, <2>1, <2>3, <2>12
    <3>3. PICK ls : ls = [f.lines EXCEPT ![f.line] = v]
      OBVIOUS
    <3>4. /\ ls \in [1..2 -> LineSet] /\ ls[f.line] = v
          /\ \A j \in 1..2 : j # f.line => ls[j] = f.lines[j]
          /\ \A j \in 1..2 : Tidy(ls[j])
      BY <3>2, <3>3, LinesPut
    <3>5. PICK r : r = ReadText(f.reader, c)
      OBVIOUS
    <3>6. h = [lines |-> ls, line |-> f.line, eol_on_next_raw |-> no, reader |-> r,
               aborted |-> f.aborted]
      BY <2>5, <2>12, <3>2, <3>3, <3>5 DEF IsDiag
    <3>7. no \in BOOLEAN /\ f.aborted \in BOOLEAN /\ f.line \in 1..2
      BY <3>1, <3>2 DEF IsDiag
    <3>8. /\ IsDiag(h) /\ h.lines = ls /\ h.line = f.line /\ OtherLine(h) = 3 - f.line
          /\ h.eol_on_next_raw = no /\ h.reader = r /\ h.aborted = f.aborted
      BY ONLY <3>4, <3>6, <3>7, Remade
    <3>9. OtherLine(h) = OtherLine(f)
      BY <3>8 DEF OtherLine
    <3> QED BY <2>3, <2>12, <3>4, <3>5, <3>8, <3>9
  <2>7. Current(g) = l /\ Other(g) = Other(e)
    BY <2>6 DEF Current, Other
  <2>8. Text(g) = ReadText(ReadText(g.reader, Other(g).cbor), Current(g).cbor)
    BY <2>6, TextIs
  <2>9. g.reader = ReadText(d.reader, Other(d).cbor)
    BY <1>1, <1>2, <2>6
  <2>10. Text(g) = Text(d)
    BY <1>1, <1>3, <2>1, <2>7, <2>8, <2>9, ReadNothing
  <2>11. Kept(d, g)
    BY <1>1, <1>2, <2>1, <2>6, <2>7 DEF Kept
  <2> QED BY <1>1, <2>1, <2>2, <2>4, <2>6, <2>7, <2>9, <2>10, <2>11
<1> QED BY <1>4, <1>5

\* diag_flush: all that was written is printed.
LEMMA FlushFacts ==
  ASSUME NEW d, IsDiag(d)
  PROVE  Kept(d, Flush(d)) /\ Text(Flush(d)) = Text(d) /\ Flush(d).reader = Text(d)
<1> DEFINE e == DumpLine(d)
           f == DumpLine(e)
<1>1. /\ Kept(d, e) /\ Text(e) = Text(d) /\ Other(e) = Current(d)
      /\ e.reader = ReadText(d.reader, Other(d).cbor)
  BY DumpLineFacts
<1> HIDE DEF e
<1>2. IsDiag(e)
  BY <1>1 DEF Kept
<1>3. Kept(e, f) /\ Text(f) = Text(e) /\ f.reader = ReadText(e.reader, Other(e).cbor)
  BY <1>2, DumpLineFacts
<1>4. f = Flush(d)
  BY DEF Flush, e
<1> HIDE DEF f
<1>5. f.reader = Text(d)
  BY <1>1, <1>3, TextIs
<1> QED BY <1>1, <1>3, <1>4, <1>5 DEF Kept

\* diag_log_raw.
LEMMA LogRawFacts ==
  ASSUME NEW d, IsDiag(d)
  PROVE  LET e == LogRaw(d)
         IN  /\ Kept(d, e) /\ Text(e) = Text(d) /\ ~Current(e).empty
             /\ Current(d).cbor = <<>> \/ d.eol_on_next_raw =>
                  Current(e).cbor = <<>> /\ Other(e).cbor_comma = Pending(d)
<1> DEFINE e == IF d.eol_on_next_raw THEN DumpLine(d) ELSE d
           l == [Current(e) EXCEPT !.empty = FALSE]
           f == [e EXCEPT !.lines = [@ EXCEPT ![e.line] = l]]
<1>1. /\ Kept(d, e) /\ Text(e) = Text(d)
      /\ Current(d).cbor = <<>> \/ d.eol_on_next_raw =>
           Current(e).cbor = <<>> /\ Other(e).cbor_comma = Pending(d)
  <2>1. CASE d.eol_on_next_raw
    BY <2>1, DumpLineFacts DEF Pending
  <2>2. CASE ~d.eol_on_next_raw
    BY <2>2 DEF Kept, Pending
  <2> QED BY <2>1, <2>2
<1>2. LogRaw(d) = [e EXCEPT !.lines[e.line].empty = FALSE]
  BY DEF LogRaw
<1> HIDE DEF e
<1>3. IsDiag(e) /\ Current(e) \in LineSet /\ e.line \in 1..2 /\ OtherLine(e) \in 1..2
      /\ OtherLine(e) # e.line
  BY <1>1, Sides DEF Kept
<1>4. LogRaw(d) = f
  BY <1>2, <1>3 DEF IsDiag, Current
<1>5. /\ l \in LineSet /\ Tidy(l) /\ ~l.empty /\ l.cbor = Current(e).cbor
      /\ l.indent_level = Current(e).indent_level
  BY <1>3 DEF LineSet, Tidy
<1> HIDE DEF l
<1>6. /\ IsDiag(f) /\ f.lines[e.line] = l
      /\ f.lines[OtherLine(e)] = e.lines[OtherLine(e)] /\ OtherLine(f) = OtherLine(e)
      /\ f.line = e.line /\ f.reader = e.reader /\ f.aborted = e.aborted
  BY <1>3, <1>5, PutLine
<1> HIDE DEF f
<1>7. Current(f) = l /\ Other(f) = Other(e)
  BY <1>6 DEF Current, Other
<1>8. Text(f) = Text(e)
  BY <1>3, <1>5, <1>6, <1>7, TextIs
<1>9. Kept(d, f)
  BY <1>1, <1>5, <1>6, <1>7 DEF Kept
<1> QED BY <1>1, <1>4, <1>5, <1>7, <1>8, <1>9

\* diag_log_cbor.
LEMMA LogCborFacts ==
  ASSUME NEW d, IsDiag(d), NEW x \in Symbols
  PROVE  LET e == LogCbor(d, x)
         IN  /\ Kept(d, e) /\ Text(e) = ReadSymbol(Text(d), x) /\ ~Current(e).empty
<1> DEFINE l == [Current(d) EXCEPT !.cbor = Append(@, x), !.empty = FALSE]
           f == [d EXCEPT !.lines = [@ EXCEPT ![d.line] = l]]
<1>1. Current(d) \in LineSet /\ d.line \in 1..2 /\ OtherLine(d) \in 1..2 /\ OtherLine(d) # d.line
  BY Sides
<1>2. LogCbor(d, x) = f
  BY <1>1 DEF LogCbor, IsDiag, Current
<1>3. /\ l \in LineSet /\ Tidy(l) /\ ~l.empty /\ l.cbor = Append(Current(d).cbor, x)
      /\ l.indent_level = Current(d).indent_level
  <2>1. Append(Current(d).cbor, x) \in Seq(Symbols)
    BY <1>1, AppendProperties DEF LineSet
  <2> QED BY <1>1, <2>1 DEF LineSet, Tidy
<1> HIDE DEF l
<1>4. /\ IsDiag(f) /\ f.lines[d.line] = l
      /\ f.lines[OtherLine(d)] = d.lines[OtherLine(d)] /\ OtherLine(f) = OtherLine(d)
      /\ f.line = d.line /\ f.reader = d.reader /\ f.aborted = d.aborted
  BY <1>1, <1>3, PutLine
<1> HIDE DEF f
<1>5. Current(f) = l /\ Other(f) = Other(d)
  BY <1>4 DEF Current, Other
<1>6. Text(f) = ReadSymbol(Text(d), x)
  <2>1. Current(d).cbor \in Seq(Symbols)
    BY <1>1 DEF LineSet
  <2>2. Text(f) = ReadText(ReadText(d.reader, Other(d).cbor), Append(Current(d).cbor, x))
    BY <1>3, <1>4, <1>5, TextIs
  <2> QED BY <2>1, <2>2, TextIs, ReadOneMore
<1>7. Kept(d, f)
  BY <1>3, <1>4, <1>5 DEF Kept
<1> QED BY <1>2, <1>3, <1>5, <1>6, <1>7

\* diag_eol, on a line on which something stands.
LEMMA EolFacts ==
  ASSUME NEW d, IsDiag(d), NEW comma \in BOOLEAN, ~Current(d).empty
  PROVE  LET e == Eol(d, comma)
         IN  /\ Kept(d, e) /\ Text(e) = Text(d) /\ ~Current(e).empty
             /\ e.eol_on_next_raw /\ Pending(e) = comma
<1> DEFINE l == [Current(d) EXCEPT !.cbor_comma = comma]
<1>1. Current(d) \in LineSet /\ d.line \in 1..2 /\ OtherLine(d) \in 1..2 /\ OtherLine(d) # d.line
  BY Sides
<1>2. PICK yes : yes = TRUE
  OBVIOUS
<1>3. /\ l \in LineSet /\ Tidy(l) /\ ~l.empty /\ l.cbor = Current(d).cbor
      /\ l.indent_level = Current(d).indent_level /\ l.cbor_comma = comma
  BY <1>1 DEF LineSet, Tidy
<1>4. yes \in BOOLEAN
  BY <1>2
<1>5. PICK g : g = Eol(d, comma)
  OBVIOUS
<1>11. g = [d EXCEPT !.reader = d.reader, !.lines[d.line] = l, !.eol_on_next_raw = yes]
  <2>1. g = [d EXCEPT !.lines[d.line].cbor_comma = comma, !.eol_on_next_raw = yes]
    BY <1>2, <1>5, Zenon DEF Eol
  <2> QED BY <1>1, <1>4, <2>1 DEF IsDiag, Current
<1>12. PICK v : v = l
  OBVIOUS
<1> HIDE DEF l
<1>6. /\ IsDiag(g) /\ g.lines[d.line] = l
      /\ g.lines[OtherLine(d)] = d.lines[OtherLine(d)] /\ OtherLine(g) = OtherLine(d)
      /\ g.line = d.line /\ g.reader = d.reader /\ g.aborted = d.aborted
      /\ g.eol_on_next_raw = yes
  <2>1. PICK ls : ls = [d.lines EXCEPT ![d.line] = v]
    OBVIOUS
  <2>2. /\ ls \in [1..2 -> LineSet] /\ ls[d.line] = v
        /\ \A j \in 1..2 : j # d.line => ls[j] = d.lines[j]
        /\ \A j \in 1..2 : Tidy(ls[j])
    BY <1>1, <1>3, <1>12, <2>1, LinesPut
  <2>3. g = [lines |-> ls, line |-> d.line, eol_on_next_raw |-> yes, reader |-> d.reader,
             aborted |-> d.aborted]
    BY <1>11, <1>12, <2>1 DEF IsDiag
  <2>4. d.line \in 1..2 /\ yes \in BOOLEAN /\ d.aborted \in BOOLEAN
    BY <1>1, <1>4 DEF IsDiag
  <2>5. /\ IsDiag(g) /\ g.lines = ls /\ g.line = d.line /\ OtherLine(g) = 3 - d.line
        /\ g.eol_on_next_raw = yes /\ g.reader = d.reader /\ g.aborted = d.aborted
    BY ONLY <2>2, <2>3, <2>4, Remade
  <2>6. OtherLine(g) = OtherLine(d)
    BY <2>5 DEF OtherLine
  <2> QED BY <1>1, <1>12, <2>2, <2>5, <2>6
<1>7. Current(g) = l /\ Other(g) = Other(d)
  BY <1>6 DEF Current, Other
<1>8. Text(g) = Text(d)
  BY <1>3, <1>6, <1>7, TextIs
<1>9. Kept(d, g)
  BY <1>3, <1>6, <1>7 DEF Kept
<1>10. Pending(g) = comma
  BY <1>2, <1>3, <1>6, <1>7 DEF Pending
<1> QED BY <1>2, <1>3, <1>6, <1>7, <1>5, <1>8, <1>9, <1>10

\* diag_comma, on a new line.
LEMMA CommaFacts ==
  ASSUME NEW d, IsDiag(d)
  PROVE  LET e == Comma(d)
         IN  /\ Kept(d, e) /\ Current(e) = Current(d) /\ e.eol_on_next_raw = d.eol_on_next_raw
             /\ Current(d).cbor = <<>> =>
                  Text(e) = IF Other(d).cbor_comma THEN ReadSymbol(Text(d), ",") ELSE Text(d)
<1>1. CASE ~Other(d).cbor_comma
  BY <1>1 DEF Comma, Kept, Other
<1>2. CASE Other(d).cbor_comma
  <2> DEFINE o == OtherLine(d)
             l == [Other(d) EXCEPT !.cbor = Append(@, ","), !.cbor_comma = FALSE]
             f == [d EXCEPT !.lines = [@ EXCEPT ![o] = l]]
  <2>1. Other(d) \in LineSet /\ d.line \in 1..2 /\ o \in 1..2 /\ o # d.line
        /\ Tidy(Other(d))
    BY Sides
  <2>2. Comma(d) = f
    BY <1>2, <2>1 DEF Comma, IsDiag, Other
  <2>3. "," \in Symbols
    BY DEF Symbols
  <2>4. l \in LineSet /\ Tidy(l) /\ l.cbor = Append(Other(d).cbor, ",")
    <3>1. Append(Other(d).cbor, ",") \in Seq(Symbols)
      BY <2>1, <2>3, AppendProperties DEF LineSet
    <3>2. ~Other(d).empty
      BY <1>2, <2>1 DEF Tidy
    <3> QED BY <2>1, <3>1, <3>2 DEF LineSet, Tidy
  <2> HIDE DEF l
  <2>5. /\ IsDiag(f) /\ f.lines[o] = l /\ f.lines[d.line] = d.lines[d.line]
        /\ OtherLine(f) = OtherLine(d) /\ f.eol_on_next_raw = d.eol_on_next_raw
        /\ f.line = d.line /\ f.reader = d.reader /\ f.aborted = d.aborted
    <3>1. /\ IsDiag(f) /\ f.lines[o] = l /\ \A j \in 1..2 : j # o => f.lines[j] = d.lines[j]
          /\ f.line = d.line /\ OtherLine(f) = OtherLine(d)
          /\ f.eol_on_next_raw = d.eol_on_next_raw /\ f.reader = d.reader
          /\ f.aborted = d.aborted
      BY <2>1, <2>4, PutLine
    <3> QED BY <2>1, <3>1
  <2> HIDE DEF f
  <2>6. Current(f) = Current(d) /\ Other(f) = l
    BY <2>5 DEF Current, Other
  <2>7. ASSUME Current(d).cbor = <<>> PROVE Text(f) = ReadSymbol(Text(d), ",")
    <3>1. Other(d).cbor \in Seq(Symbols)
      BY <2>1 DEF LineSet
    <3>2. Text(d) = ReadText(d.reader, Other(d).cbor)
      BY <2>7, TextIs, ReadNothing
    <3>3. Text(f) = ReadText(d.reader, Append(Other(d).cbor, ","))
      BY <2>4, <2>5, <2>6, <2>7, TextIs, ReadNothing
    <3> QED BY <2>3, <3>1, <3>2, <3>3, ReadOneMore
  <2> QED BY <1>2, <2>2, <2>5, <2>6, <2>7 DEF Kept
<1> QED BY <1>1, <1>2

\* diag_indent and diag_dedent change the indentation, or fail the assertion; nothing else.
SameText(d, e) ==
  /\ IsDiag(e) /\ Text(e) = Text(d) /\ e.eol_on_next_raw = d.eol_on_next_raw
  /\ Pending(e) = Pending(d) /\ Current(e).empty = Current(d).empty

\* Setting the indentation of the current line changes nothing that is read.
LEMMA Indented ==
  ASSUME NEW d, IsDiag(d), NEW n \in Nat
  PROVE  LET e == [d EXCEPT !.lines[d.line].indent_level = n]
         IN  SameText(d, e) /\ Current(e).indent_level = n /\ e.aborted = d.aborted
<1> DEFINE l == [Current(d) EXCEPT !.indent_level = n]
           f == [d EXCEPT !.lines = [@ EXCEPT ![d.line] = l]]
<1>1. /\ Current(d) \in LineSet /\ d.line \in 1..2 /\ OtherLine(d) \in 1..2 /\ OtherLine(d) # d.line
      /\ Tidy(Current(d))
  BY Sides
<1>2. f = [d EXCEPT !.lines[d.line].indent_level = n]
  BY <1>1 DEF IsDiag, Current
<1>3. /\ l \in LineSet /\ Tidy(l) /\ l.empty = Current(d).empty /\ l.cbor = Current(d).cbor
      /\ l.indent_level = n /\ l.cbor_comma = Current(d).cbor_comma
  BY <1>1 DEF LineSet, Tidy
<1> HIDE DEF l
<1>4. /\ IsDiag(f) /\ f.lines[d.line] = l
      /\ f.lines[OtherLine(d)] = d.lines[OtherLine(d)] /\ OtherLine(f) = OtherLine(d)
      /\ f.line = d.line /\ f.reader = d.reader /\ f.aborted = d.aborted
      /\ f.eol_on_next_raw = d.eol_on_next_raw
  BY <1>1, <1>3, PutLine
<1> HIDE DEF f
<1>5. Current(f) = l /\ Other(f) = Other(d)
  BY <1>4 DEF Current, Other
<1>6. Text(f) = Text(d)
  BY <1>3, <1>4, <1>5, TextIs
<1>7. Pending(f) = Pending(d)
  BY <1>3, <1>4, <1>5 DEF Pending
<1> QED BY <1>2, <1>3, <1>4, <1>5, <1>6, <1>7 DEF SameText

\* diag_indent: one level more.
LEMMA IndentFacts ==
  ASSUME NEW d, IsDiag(d)
  PROVE  /\ SameText(d, Indent(d)) /\ Indent(d).aborted = d.aborted
         /\ Current(Indent(d)).indent_level = Current(d).indent_level + 1
<1> DEFINE n == Current(d).indent_level + 1
<1>1. n \in Nat
  BY Sides DEF LineSet
<1>2. Indent(d) = [d EXCEPT !.lines[d.line].indent_level = n]
  BY DEF Indent, Current
<1> HIDE DEF n
<1> QED BY <1>1, <1>2, Indented DEF n

\* diag_dedent: one level less, where there is one.
LEMMA DedentFacts ==
  ASSUME NEW d, IsDiag(d)
  PROVE  /\ SameText(d, Dedent(d))
         /\ Current(d).indent_level # 0 =>
              /\ Dedent(d).aborted = d.aborted
              /\ Current(Dedent(d)).indent_level = Current(d).indent_level - 1
<1>1. CASE Current(d).indent_level = 0
  <2>1. PICK yes : yes = TRUE
    OBVIOUS
  <2>2. PICK e : e = Dedent(d)
    OBVIOUS
  <2>3. e = [d EXCEPT !.aborted = yes]
    <3>1. e = [d EXCEPT !.aborted = TRUE]
      BY <1>1, <2>2 DEF Dedent, Current
    <3> QED BY <2>1, <3>1, Zenon
  <2>4. yes \in BOOLEAN
    BY <2>1
  <2>5. e = [lines |-> d.lines, line |-> d.line, eol_on_next_raw |-> d.eol_on_next_raw,
             reader |-> d.reader, aborted |-> yes]
    BY <2>3, <2>4 DEF IsDiag
  <2>6. /\ d.lines \in [1..2 -> LineSet] /\ \A k \in 1..2 : Tidy(d.lines[k])
        /\ d.line \in 1..2 /\ d.eol_on_next_raw \in BOOLEAN
    BY DEF IsDiag
  <2>7. /\ IsDiag(e) /\ e.lines = d.lines /\ e.line = d.line
        /\ e.eol_on_next_raw = d.eol_on_next_raw /\ e.reader = d.reader
    BY <2>4, <2>5, <2>6, Remade
  <2>8. Current(e) = Current(d) /\ Other(e) = Other(d)
    BY <2>7 DEF Current, Other, OtherLine
  <2>9. Text(e) = Text(d)
    BY <2>7, <2>8, TextIs
  <2> QED BY <1>1, <2>2, <2>7, <2>8, <2>9 DEF SameText, Pending
<1>2. CASE Current(d).indent_level # 0
  <2> DEFINE n == Current(d).indent_level - 1
  <2>1. n \in Nat
    BY <1>2, Sides DEF LineSet
  <2>2. Dedent(d) = [d EXCEPT !.lines[d.line].indent_level = n]
    BY <1>2 DEF Dedent, Current
  <2> HIDE DEF n
  <2> QED BY <2>1, <2>2, Indented DEF n
<1> QED BY <1>1, <1>2

\* The last item begun in the map b is a key.
IsKey(b) == b.type = "map" /\ b.num_items % 2 = 1
\* diag_finish_item: a key is followed by a colon and one level more, a value by the end
\* of that level; a comma may follow anything but a key.
LEMMA FinishItemFacts ==
  ASSUME NEW d, IsDiag(d), ~Current(d).empty, NEW b \in BlockSet
  PROVE  LET e == FinishItem(d, b)
             n == Current(d).indent_level
         IN  /\ IsDiag(e) /\ ~Current(e).empty /\ e.eol_on_next_raw
             /\ Pending(e) <=> ~IsKey(b)
             /\ Text(e) = IF IsKey(b) THEN ReadSymbol(Text(d), ":") ELSE Text(d)
             /\ b.type # "map" \/ IsKey(b) \/ n # 0 => e.aborted = d.aborted
             /\ b.type # "map" => Current(e).indent_level = n
             /\ IsKey(b) => Current(e).indent_level = n + 1
             /\ b.type = "map" /\ ~IsKey(b) /\ n # 0 => Current(e).indent_level = n - 1
<1>1. PICK e : e = FinishItem(d, b)
  OBVIOUS
<1>2. CASE IsKey(b)
  <2>1. PICK f, g : f = LogCbor(d, ":") /\ g = Eol(f, FALSE)
    OBVIOUS
  <2>2. e = Indent(g)
    <3>1. b.type = "map" /\ b.num_items % 2 = 1
      BY <1>2 DEF IsKey
    <3>2. FinishItem(d, b) = Indent(Eol(LogCbor(d, ":"), FALSE))
      BY <3>1, Zenon DEF FinishItem
    <3> QED BY <1>1, <2>1, <3>2, Zenon
  <2>3. Kept(d, f) /\ Text(f) = ReadSymbol(Text(d), ":") /\ ~Current(f).empty
    <3>1. ":" \in Symbols
      BY DEF Symbols
    <3> QED BY <2>1, <3>1, LogCborFacts
  <2>4. IsDiag(f)
    BY <2>3 DEF Kept
  <2>5. Kept(f, g) /\ Text(g) = Text(f) /\ ~Current(g).empty /\ g.eol_on_next_raw /\ ~Pending(g)
    <3>1. FALSE \in BOOLEAN
      OBVIOUS
    <3>2. PICK no \in BOOLEAN : no = FALSE
      OBVIOUS
    <3>3. g = Eol(f, no)
      BY <2>1, <3>2, Zenon
    <3> QED BY <2>3, <2>4, <3>2, <3>3, EolFacts
  <2>6. IsDiag(g)
    BY <2>5 DEF Kept
  <2>7. /\ SameText(g, e) /\ e.aborted = g.aborted
        /\ Current(e).indent_level = Current(g).indent_level + 1
    BY <2>2, <2>6, IndentFacts
  <2>8. b.type = "map"
    BY <1>2 DEF IsKey
  <2> QED BY <1>1, <1>2, <2>3, <2>5, <2>7, <2>8 DEF Kept, SameText
<1>3. CASE ~IsKey(b)
  <2>1. PICK f : f = IF b.type = "map" THEN Dedent(d) ELSE d
    OBVIOUS
  <2>2. e = Eol(f, TRUE)
    <3>1. CASE b.type = "map"
      <4>1. b.num_items % 2 # 1
        BY <1>3, <3>1 DEF IsKey
      <4> QED BY <1>1, <2>1, <3>1, <4>1, Zenon DEF FinishItem
    <3>2. CASE b.type # "map"
      BY <1>1, <2>1, <3>2, Zenon DEF FinishItem
    <3> QED BY <3>1, <3>2
  <2>3. /\ SameText(d, f)
        /\ b.type # "map" \/ Current(d).indent_level # 0 => f.aborted = d.aborted
        /\ b.type # "map" => Current(f).indent_level = Current(d).indent_level
        /\ b.type = "map" /\ Current(d).indent_level # 0 =>
             Current(f).indent_level = Current(d).indent_level - 1
    BY <2>1, DedentFacts DEF SameText
  <2>4. IsDiag(f) /\ ~Current(f).empty
    BY <2>3 DEF SameText
  <2>5. Kept(f, e) /\ Text(e) = Text(f) /\ ~Current(e).empty /\ e.eol_on_next_raw /\ Pending(e)
    <3>1. PICK yes \in BOOLEAN : yes = TRUE
      OBVIOUS
    <3>2. e = Eol(f, yes)
      BY <2>2, <3>1, Zenon
    <3> QED BY <2>4, <3>1, <3>2, EolFacts
  <2> QED BY <1>1, <1>3, <2>3, <2>5 DEF Kept, SameText
<1> QED BY <1>2, <1>3

\* The text, with the comma that is due when the next item begins.
Commaed(d) == IF Pending(d) THEN ReadSymbol(Text(d), ",") ELSE Text(d)
\* predecode: the header of an item, with the comma that may be due before it.
LEMMA PredecodeFacts ==
  ASSUME NEW d, IsDiag(d), NEW more \in BOOLEAN
  PROVE  LET e == Predecode(d, more)
         IN  /\ Kept(d, e) /\ ~Current(e).empty
             /\ Current(d).cbor = <<>> \/ d.eol_on_next_raw => Text(e) = Commaed(d)
<1>1. PICK f, g, e : f = LogRaw(d) /\ g = Comma(f) /\ e = Predecode(d, more)
  OBVIOUS
<1>2. e = IF more THEN LogRaw(g) ELSE g
  BY <1>1 DEF Predecode
<1>3. /\ Kept(d, f) /\ Text(f) = Text(d) /\ ~Current(f).empty
      /\ Current(d).cbor = <<>> \/ d.eol_on_next_raw =>
           Current(f).cbor = <<>> /\ Other(f).cbor_comma = Pending(d)
  BY <1>1, LogRawFacts
<1>4. IsDiag(f)
  BY <1>3 DEF Kept
<1>5. /\ Kept(f, g) /\ Current(g) = Current(f)
      /\ Current(f).cbor = <<>> =>
           Text(g) = IF Other(f).cbor_comma THEN ReadSymbol(Text(f), ",") ELSE Text(f)
  BY <1>1, <1>4, CommaFacts
<1>6. IsDiag(g)
  BY <1>5 DEF Kept
<1>7. more => Kept(g, e) /\ Text(e) = Text(g) /\ ~Current(e).empty
  BY <1>2, <1>6, LogRawFacts
<1>8. ~more => Kept(g, e) /\ Text(e) = Text(g) /\ ~Current(e).empty
  BY <1>2, <1>3, <1>5, <1>6 DEF Kept
<1>9. Current(d).cbor = <<>> \/ d.eol_on_next_raw => Text(e) = Commaed(d)
  BY <1>3, <1>5, <1>7, <1>8 DEF Commaed
<1> QED BY <1>1, <1>3, <1>5, <1>7, <1>8, <1>9 DEF Kept

-----------------------------------------------------------------------------
(* The reader, symbol by symbol.                                           *)

\* A reader that has not met a symbol out of place, and its innermost level.
LevelSet ==
  [type : {"root", "array", "map"}, indefinite : BOOLEAN,
   last : {"begin", "value", "key", "comma", "colon"}]
IsReader(r) ==
  /\ r = [levels |-> r.levels, tokens |-> r.tokens, ok |-> r.ok]
  /\ r.levels \in Seq(LevelSet) /\ Len(r.levels) # 0 /\ r.tokens \in Nat /\ r.ok = TRUE
LastOf(r) == r.levels[Len(r.levels)]

\* The levels are those of r, but for what was read last in the innermost.
Having(r, what, tokens) ==
  [levels |-> [r.levels EXCEPT ![Len(r.levels)] = [@ EXCEPT !.last = what]],
   tokens |-> tokens, ok |-> TRUE]

\* Such a reader is one still; its outer levels are untouched.
LEMMA HavingFacts ==
  ASSUME NEW r, IsReader(r), NEW what \in {"begin", "value", "key", "comma", "colon"},
         NEW tokens \in Nat
  PROVE  LET e == Having(r, what, tokens)
             n == Len(r.levels)
         IN  /\ IsReader(e) /\ Len(e.levels) = n /\ e.tokens = tokens
             /\ \A k \in 1..n : k # n => e.levels[k] = r.levels[k]
             /\ LastOf(e).type = LastOf(r).type /\ LastOf(e).indefinite = LastOf(r).indefinite
             /\ LastOf(e).last = what
<1> DEFINE n == Len(r.levels)
           l == [LastOf(r) EXCEPT !.last = what]
           ls == [r.levels EXCEPT ![n] = l]
<1>1. r.levels \in Seq(LevelSet) /\ n \in Nat /\ n # 0 /\ n \in 1..n
  <2>1. n \in Nat /\ n # 0
    BY LenProperties DEF IsReader
  <2> QED BY <2>1 DEF IsReader
<1>2. LastOf(r) \in LevelSet
  BY <1>1, ElementOf DEF LastOf
<1>3. l \in LevelSet /\ l.type = LastOf(r).type /\ l.indefinite = LastOf(r).indefinite
      /\ l.last = what
  BY <1>2 DEF LevelSet
<1>4. Having(r, what, tokens) = [levels |-> ls, tokens |-> tokens, ok |-> TRUE]
  BY DEF Having, LastOf
<1> HIDE DEF l
<1>5. /\ ls \in Seq(LevelSet) /\ Len(ls) = n
      /\ \A k \in 1..n : ls[k] = IF k = n THEN l ELSE r.levels[k]
  BY <1>1, <1>3, ExceptSeq
<1> HIDE DEF ls
<1>6. PICK e : e = Having(r, what, tokens)
  OBVIOUS
<1>7. e.levels = ls /\ e.tokens = tokens /\ e.ok = TRUE
  BY <1>4, <1>6
<1>8. IsReader(e)
  BY <1>1, <1>4, <1>5, <1>6, <1>7 DEF IsReader
<1> QED BY <1>1, <1>3, <1>5, <1>6, <1>7, <1>8 DEF LastOf

\* What each symbol does to the reader when it fits.
LEMMA ReadComma ==
  ASSUME NEW r, IsReader(r), LastOf(r).last = "value"
  PROVE  ReadSymbol(r, ",") = Having(r, "comma", r.tokens)
<1>1. Fits(r.levels[Len(r.levels)], ",") /\ r.ok
  BY DEF Fits, LastOf, IsReader
<1>2. "," \notin DOMAIN Opens /\ "," \notin DOMAIN Closes
  BY DEF Opens, Closes
<1>3. PICK what : what = "comma"
  OBVIOUS
<1>4. ReadSymbol(r, ",") = [r EXCEPT !.levels[Len(r.levels)].last = what, !.tokens = @ + 0]
  BY <1>1, <1>2, <1>3 DEF ReadSymbol
<1>5. ReadSymbol(r, ",") = Having(r, what, r.tokens + 0)
  BY <1>4 DEF Having, IsReader
<1>6. r.tokens + 0 = r.tokens
  BY DEF IsReader
<1> QED BY <1>3, <1>5, <1>6

\* A colon is in place behind a key.
LEMMA ReadColon ==
  ASSUME NEW r, IsReader(r), LastOf(r).last = "key"
  PROVE  ReadSymbol(r, ":") = Having(r, "colon", r.tokens)
<1>1. Fits(r.levels[Len(r.levels)], ":") /\ r.ok
  BY DEF Fits, LastOf, IsReader
<1>2. ":" \notin DOMAIN Opens /\ ":" \notin DOMAIN Closes
  BY DEF Opens, Closes
<1>3. PICK what : what = "colon"
  OBVIOUS
<1>4. ReadSymbol(r, ":") = [r EXCEPT !.levels[Len(r.levels)].last = what, !.tokens = @ + 0]
  BY <1>1, <1>2, <1>3 DEF ReadSymbol
<1>5. ReadSymbol(r, ":") = Having(r, what, r.tokens + 0)
  BY <1>4 DEF Having, IsReader
<1>6. r.tokens + 0 = r.tokens
  BY DEF IsReader
<1> QED BY <1>3, <1>5, <1>6

\* An item may begin; it is a key or a value.
Begins(r) == LastOf(r).last \in {"begin", "comma", "colon"}
Item(r) == IF LastOf(r).type = "map" /\ LastOf(r).last # "colon" THEN "key" ELSE "value"

\* An item without items of its own.
LEMMA ReadValue ==
  ASSUME NEW r, IsReader(r), Begins(r)
  PROVE  ReadSymbol(r, "v") = Having(r, Item(r), r.tokens + 1)
<1>1. Fits(r.levels[Len(r.levels)], "v") /\ r.ok
  BY DEF Fits, LastOf, IsReader, Begins
<1>2. "v" \notin DOMAIN Opens /\ "v" \notin DOMAIN Closes
  BY DEF Opens, Closes
<1>3. ReadSymbol(r, "v") = [r EXCEPT !.levels[Len(r.levels)].last = Item(r), !.tokens = @ + 1]
  BY <1>1, <1>2 DEF ReadSymbol, LastOf, Item
<1> QED BY <1>3 DEF Having, IsReader

\* An opening bracket counts as an item and opens a level.
LEMMA ReadOpening ==
  ASSUME NEW r, IsReader(r), Begins(r), NEW x \in {"[", "[_", "{", "{_"}
  PROVE  LET f == Having(r, Item(r), r.tokens + 1)
         IN  ReadSymbol(r, x) =
               [levels |-> Append(f.levels, Opens[x]), tokens |-> f.tokens, ok |-> TRUE]
<1>1. x \notin DOMAIN Closes /\ x \in DOMAIN Opens /\ x # "v" /\ x # "," /\ x # ":"
  BY DEF Closes, Opens
<1>2. Fits(r.levels[Len(r.levels)], x) /\ r.ok
  BY <1>1 DEF Fits, LastOf, IsReader, Begins
<1>3. PICK f : f = [r EXCEPT !.levels[Len(r.levels)].last = Item(r), !.tokens = @ + 1]
  OBVIOUS
<1>4. ReadSymbol(r, x) = [f EXCEPT !.levels = Append(@, Opens[x])]
  BY <1>1, <1>2, <1>3 DEF ReadSymbol, LastOf, Item
<1>5. f = Having(r, Item(r), r.tokens + 1)
  BY <1>3 DEF Having, IsReader
<1> QED BY <1>4, <1>5 DEF Having

\* A closing bracket ends the innermost level; for one of indefinite length it
\* stands for a token, the break.
LEMMA ReadClosing ==
  ASSUME NEW r, IsReader(r), LastOf(r).last \in {"begin", "value"}, NEW x \in {"]", "}"},
         LastOf(r).type = IF x = "}" THEN "map" ELSE "array"
  PROVE  ReadSymbol(r, x) =
           [levels |-> SubSeq(r.levels, 1, Len(r.levels) - 1),
            tokens |-> r.tokens + IF LastOf(r).indefinite THEN 1 ELSE 0, ok |-> TRUE]
<1>1. x \in DOMAIN Closes /\ x \notin DOMAIN Opens /\ x # "v" /\ x # "," /\ x # ":"
      /\ Closes[x] = IF x = "}" THEN "map" ELSE "array"
  BY DEF Closes, Opens
<1>2. Fits(r.levels[Len(r.levels)], x) /\ r.ok
  BY <1>1 DEF Fits, LastOf, IsReader
<1>3. ReadSymbol(r, x) =
        [r EXCEPT !.levels = SubSeq(@, 1, Len(r.levels) - 1),
                  !.tokens = @ + IF LastOf(r).indefinite THEN 1 ELSE 0]
  BY <1>1, <1>2 DEF ReadSymbol, LastOf
<1> QED BY <1>3 DEF IsReader

-----------------------------------------------------------------------------
(* The indentation.                                                        *)

\* That of n blocks, one more in each of those in K.
Depth(n, K) == n + Cardinality(K \cap (1..n))

\* What is counted is finite.
LEMMA Finite ==
  ASSUME NEW n \in Nat, NEW K
  PROVE  IsFiniteSet(K \cap (1..n)) /\ Cardinality(K \cap (1..n)) \in Nat
<1>1. IsFiniteSet(1..n)
  BY FS_Interval
<1>2. IsFiniteSet(K \cap (1..n))
  BY <1>1, FS_Subset
<1> QED BY <1>2, FS_CardinalityType

\* Every block is one level deep at least.
LEMMA DepthBounds ==
  ASSUME NEW n \in Nat, NEW K
  PROVE  Depth(n, K) \in Nat /\ Depth(n, K) >= n
  BY Finite DEF Depth

\* No blocks, no indentation.
LEMMA DepthOfNone == ASSUME NEW K PROVE Depth(0, K) = 0
<1>1. K \cap (1..0) = {}
  OBVIOUS
<1> QED BY <1>1, FS_EmptySet DEF Depth

\* The depth depends on the keys among the first n only.
LEMMA DepthOfSame ==
  ASSUME NEW n \in Nat, NEW K, NEW L, \A k \in 1..n : k \in K <=> k \in L
  PROVE  Depth(n, K) = Depth(n, L)
<1>1. K \cap (1..n) = L \cap (1..n)
  OBVIOUS
<1> QED BY <1>1 DEF Depth

\* One block more is one level more, or two with a key in it.
LEMMA DepthOfNext ==
  ASSUME NEW n \in Nat, NEW K
  PROVE  Depth(n + 1, K) = Depth(n, K) + IF n + 1 \in K THEN 2 ELSE 1
<1> DEFINE S == K \cap (1..n)
           T == K \cap (1..(n + 1))
<1>1. IsFiniteSet(S) /\ Cardinality(S) \in Nat /\ n + 1 \notin S
  BY Finite
<1>2. CASE n + 1 \in K
  <2>1. T = S \cup {n + 1}
    BY <1>2
  <2>2. Cardinality(T) = Cardinality(S) + 1
    <3> HIDE DEF S, T
    <3> QED BY <1>1, <2>1, FS_AddElement
  <2> QED BY <1>1, <1>2, <2>2 DEF Depth
<1>3. CASE n + 1 \notin K
  <2>1. T = S
    BY <1>3
  <2> QED BY <1>1, <1>3, <2>1 DEF Depth
<1> QED BY <1>2, <1>3

\* The indentation is deep enough; if exact, it is just that.
Deep(d, n, K, exact) ==
  /\ Current(d).indent_level >= Depth(n, K)
  /\ exact => Current(d).indent_level = Depth(n, K)

\* An item is finished: what its block was to hold next, and holds next.
LEMMA FinishedDepth ==
  ASSUME NEW d, IsDiag(d), ~Current(d).empty, NEW b \in BlockSet, NEW n \in Nat, NEW K, NEW L,
         NEW exact, n = 0 => b.type # "map",
         \A k \in 1..n : k # n => (k \in K <=> k \in L),
         n # 0 => (n \in K <=> b.type = "map" /\ ~IsKey(b)) /\ (n \in L <=> IsKey(b)),
         Deep(d, n, K, exact)
  PROVE  LET e == FinishItem(d, b) IN e.aborted = d.aborted /\ Deep(e, n, L, exact)
<1>1. PICK e : e = FinishItem(d, b)
  OBVIOUS
<1> DEFINE x == Current(d).indent_level
<1>2. /\ b.type # "map" \/ IsKey(b) \/ x # 0 => e.aborted = d.aborted
      /\ b.type # "map" => Current(e).indent_level = x
      /\ IsKey(b) => Current(e).indent_level = x + 1
      /\ b.type = "map" /\ ~IsKey(b) /\ x # 0 => Current(e).indent_level = x - 1
  BY <1>1, FinishItemFacts
<1>3. x \in Nat
  BY Sides DEF LineSet
<1> HIDE DEF x
<1>4. x >= Depth(n, K) /\ (exact => x = Depth(n, K))
  BY DEF Deep, x
<1>5. Depth(n, K) \in Nat /\ Depth(n, K) >= n /\ Depth(n, L) \in Nat
  BY DepthBounds
<1>6. CASE n = 0
  <2>1. Depth(n, K) = 0 /\ Depth(n, L) = 0
    BY <1>6, DepthOfNone
  <2> QED BY <1>1, <1>2, <1>4, <1>6, <2>1 DEF Deep
<1>7. CASE n # 0
  <2> DEFINE m == n - 1
  <2>1. m \in Nat /\ m + 1 = n
    BY <1>7
  <2>2. \A k \in 1..m : k \in 1..n /\ k # n
    BY <2>1
  <2>3. Depth(m, K) = Depth(m, L) /\ Depth(m, K) \in Nat
    BY <2>1, <2>2, DepthOfSame, DepthBounds
  <2>4. /\ Depth(n, K) = Depth(m, K) + IF n \in K THEN 2 ELSE 1
        /\ Depth(n, L) = Depth(m, L) + IF n \in L THEN 2 ELSE 1
    <3> HIDE DEF m
    <3> QED BY <2>1, DepthOfNext
  <2> HIDE DEF m
  <2>5. x # 0
    BY <1>3, <1>4, <1>5, <1>7
  <2>6. CASE b.type # "map"
    <3>1. n \notin K /\ n \notin L
      BY <1>7, <2>6 DEF IsKey
    <3>2. Depth(n, K) = Depth(n, L) /\ Current(e).indent_level = x /\ e.aborted = d.aborted
      BY <1>2, <2>3, <2>4, <2>6, <3>1
    <3> QED BY <1>1, <1>4, <3>2 DEF Deep
  <2>7. CASE IsKey(b)
    <3>1. n \notin K /\ n \in L
      BY <1>7, <2>7
    <3>2. /\ Depth(n, L) = Depth(n, K) + 1 /\ Current(e).indent_level = x + 1
          /\ e.aborted = d.aborted
      BY <1>2, <2>3, <2>4, <2>7, <3>1
    <3>3. x + 1 >= Depth(n, K) + 1
      BY <1>3, <1>4, <1>5
    <3> QED BY <1>1, <1>4, <3>2, <3>3 DEF Deep
  <2>8. CASE b.type = "map" /\ ~IsKey(b)
    <3>1. n \in K /\ n \notin L
      BY <1>7, <2>8
    <3>2. /\ Depth(n, L) = Depth(n, K) - 1 /\ Current(e).indent_level = x - 1
          /\ e.aborted = d.aborted
      BY <1>2, <2>3, <2>4, <2>5, <2>8, <3>1
    <3>3. x - 1 >= Depth(n, K) - 1
      BY <1>3, <1>4, <1>5
    <3> QED BY <1>1, <1>4, <3>2, <3>3 DEF Deep
  <2> QED BY <2>6, <2>7, <2>8
<1> QED BY <1>6, <1>7

-----------------------------------------------------------------------------
(* The reader follows the blocks.                                          *)

\* What was read last in a block; "begun" says that its last item has begun and not
\* been finished.
LastIn(b, begun) ==
  IF ~begun /\ b.num_items = 0 THEN "begin"
  ELSE IF IsKey(b) THEN (IF begun THEN "key" ELSE "colon") ELSE "value"
\* The level l of the reader is at the place the block b is at.
LevelIs(l, b, begun) ==
  l.type = b.type /\ (b.type # "root" => l.indefinite = b.indefinite) /\ l.last = LastIn(b, begun)

\* In all blocks but the innermost an item has begun.
Tracks(r, bs, begun) ==
  /\ IsReader(r) /\ Len(r.levels) = Len(bs)
  /\ \A k \in 1..Len(bs) : LevelIs(r.levels[k], bs[k], k < Len(bs) \/ begun)

\* The innermost block, one item further.
One(b) == [b EXCEPT !.num_items = @ + 1]
\* In a map, keys and values take turns.
LEMMA OneMore ==
  ASSUME NEW b \in BlockSet
  PROVE  /\ One(b) \in BlockSet /\ One(b).type = b.type /\ One(b).indefinite = b.indefinite
         /\ One(b).num_items = b.num_items + 1 /\ One(b).num_items # 0
         /\ b.type = "map" => (IsKey(One(b)) <=> ~IsKey(b))
<1>1. b.num_items \in Nat
  BY DEF BlockSet
<1>2. One(b) \in BlockSet /\ One(b).type = b.type /\ One(b).indefinite = b.indefinite
      /\ One(b).num_items = b.num_items + 1
  BY DEF BlockSet, One
<1>3. b.num_items % 2 = 1 <=> ~((b.num_items + 1) % 2 = 1)
  BY <1>1
<1> QED BY <1>1, <1>2, <1>3 DEF IsKey

\* The comma in front of the next item, if one is due.
LEMMA CommaRead ==
  ASSUME NEW r, NEW bs \in Seq(BlockSet), Len(bs) # 0, Tracks(r, bs, FALSE), NEW pending,
         pending <=> LastIn(bs[Len(bs)], FALSE) = "value"
  PROVE  LET a == IF pending THEN ReadSymbol(r, ",") ELSE r
         IN  /\ IsReader(a) /\ Len(a.levels) = Len(bs) /\ a.tokens = r.tokens /\ Begins(a)
             /\ Item(a) = LastIn(One(bs[Len(bs)]), TRUE)
             /\ \A k \in 1..Len(bs) : k # Len(bs) => LevelIs(a.levels[k], bs[k], TRUE)
             /\ LastOf(a).type = LastOf(r).type /\ LastOf(a).indefinite = LastOf(r).indefinite
<1> DEFINE n == Len(bs)
           b == bs[n]
<1>1. n \in Nat /\ n # 0 /\ n \in 1..n
  <2>1. n \in Nat /\ n # 0
    BY LenProperties
  <2> QED BY <2>1
<1>2. b \in BlockSet
  BY <1>1, ElementOf
<1>3. IsReader(r) /\ Len(r.levels) = n /\ LastOf(r) = r.levels[n]
  BY DEF Tracks, LastOf
<1>4. LevelIs(LastOf(r), b, FALSE)
  <2>1. LevelIs(r.levels[n], b, n < n \/ FALSE)
    BY <1>1 DEF Tracks
  <2>2. ~(n < n)
    BY <1>1
  <2>3. (n < n \/ FALSE) = FALSE
    BY <2>2
  <2> QED BY <1>3, <2>1, <2>3
<1>5. \A k \in 1..n : k # n => LevelIs(r.levels[k], bs[k], TRUE)
  <2> SUFFICES ASSUME NEW k \in 1..n, k # n PROVE LevelIs(r.levels[k], bs[k], TRUE)
    OBVIOUS
  <2>1. LevelIs(r.levels[k], bs[k], k < n \/ FALSE)
    BY DEF Tracks
  <2>2. k < n
    BY <1>1
  <2>3. (k < n \/ FALSE) = TRUE
    BY <2>2
  <2> QED BY <2>1, <2>3
<1>6. LastOf(r).type = b.type /\ LastOf(r).last = LastIn(b, FALSE)
  BY <1>4 DEF LevelIs
<1> HIDE DEF n, b
<1>7. IF IsKey(One(b)) THEN b.type = "map" /\ ~IsKey(b) ELSE b.type # "map" \/ IsKey(b)
  BY <1>2, OneMore DEF IsKey
<1>8. /\ LastIn(One(b), TRUE) = IF IsKey(One(b)) THEN "key" ELSE "value"
      /\ LastIn(b, FALSE) = IF b.num_items = 0 THEN "begin" ELSE IF IsKey(b) THEN "colon" ELSE "value"
  BY DEF LastIn
<1>9. IsKey(b) => b.num_items # 0
  BY DEF IsKey
<1>10. CASE pending
  <2> DEFINE a == Having(r, "comma", r.tokens)
  <2>1. LastOf(r).last = "value"
    BY <1>6, <1>10 DEF b, n
  <2>2. ReadSymbol(r, ",") = a
    BY <1>3, <2>1, ReadComma
  <2>3. /\ IsReader(a) /\ Len(a.levels) = n /\ a.tokens = r.tokens
        /\ \A k \in 1..n : k # n => a.levels[k] = r.levels[k]
        /\ LastOf(a).type = LastOf(r).type /\ LastOf(a).indefinite = LastOf(r).indefinite
        /\ LastOf(a).last = "comma"
    <3>1. r.tokens \in Nat
      BY <1>3 DEF IsReader
    <3> QED BY <1>3, <3>1, HavingFacts
  <2> HIDE DEF a
  <2>4. Begins(a)
    BY <2>3 DEF Begins
  <2>5. ~IsKey(b)
    BY <1>6, <1>8, <1>9, <2>1
  <2>6. Item(a) = LastIn(One(b), TRUE)
    BY <1>6, <1>7, <1>8, <2>3, <2>5 DEF Item
  <2> QED BY <1>5, <1>10, <2>2, <2>3, <2>4, <2>6 DEF b, n
<1>11. CASE ~pending
  <2>1. LastIn(b, FALSE) # "value"
    BY <1>11 DEF b, n
  <2>2. Begins(r)
    BY <1>6, <1>8, <2>1 DEF Begins
  <2>3. LastOf(r).last = IF IsKey(b) THEN "colon" ELSE "begin"
    BY <1>6, <1>8, <1>9, <2>1
  <2>4. Item(r) = LastIn(One(b), TRUE)
    BY <1>6, <1>7, <1>8, <2>3 DEF Item
  <2> QED BY <1>3, <1>5, <1>11, <2>2, <2>4 DEF b, n
<1> QED BY <1>10, <1>11

\* The item begins: the innermost level knows it has.
LEMMA ItemRead ==
  ASSUME NEW r, NEW bs \in Seq(BlockSet), Len(bs) # 0, Tracks(r, bs, FALSE), NEW pending,
         pending <=> LastIn(bs[Len(bs)], FALSE) = "value",
         NEW cs \in Seq(BlockSet), Len(cs) = Len(bs),
         \A k \in 1..Len(bs) : cs[k] = IF k = Len(bs) THEN One(bs[Len(bs)]) ELSE bs[k]
  PROVE  LET a == IF pending THEN ReadSymbol(r, ",") ELSE r
             f == Having(a, Item(a), a.tokens + 1)
         IN  /\ IsReader(a) /\ Begins(a)
             /\ Tracks(f, cs, TRUE) /\ f.tokens = r.tokens + 1
<1> DEFINE n == Len(bs)
           b == bs[n]
           a == IF pending THEN ReadSymbol(r, ",") ELSE r
           f == Having(a, Item(a), a.tokens + 1)
<1>1. n \in Nat /\ n # 0 /\ n \in 1..n
  <2>1. n \in Nat /\ n # 0
    BY LenProperties
  <2> QED BY <2>1
<1>2. b \in BlockSet
  BY <1>1, ElementOf
<1>3. /\ IsReader(a) /\ Len(a.levels) = n /\ a.tokens = r.tokens /\ Begins(a)
      /\ Item(a) = LastIn(One(b), TRUE)
      /\ \A k \in 1..n : k # n => LevelIs(a.levels[k], bs[k], TRUE)
      /\ LastOf(a).type = LastOf(r).type /\ LastOf(a).indefinite = LastOf(r).indefinite
  BY CommaRead
<1> HIDE DEF a
<1>4. Item(a) \in {"begin", "value", "key", "comma", "colon"} /\ a.tokens + 1 \in Nat
  BY <1>3 DEF Item, IsReader
<1>5. /\ IsReader(f) /\ Len(f.levels) = n /\ f.tokens = a.tokens + 1
      /\ \A k \in 1..n : k # n => f.levels[k] = a.levels[k]
      /\ LastOf(f).type = LastOf(a).type /\ LastOf(f).indefinite = LastOf(a).indefinite
      /\ LastOf(f).last = Item(a)
  <2>1. PICK what, tokens : what = Item(a) /\ tokens = a.tokens + 1
    OBVIOUS
  <2>2. what \in {"begin", "value", "key", "comma", "colon"} /\ tokens \in Nat /\ IsReader(a)
    BY <1>3, <1>4, <2>1
  <2>3. LET e == Having(a, what, tokens)
            m == Len(a.levels)
        IN  /\ IsReader(e) /\ Len(e.levels) = m /\ e.tokens = tokens
            /\ \A k \in 1..m : k # m => e.levels[k] = a.levels[k]
            /\ LastOf(e).type = LastOf(a).type /\ LastOf(e).indefinite = LastOf(a).indefinite
            /\ LastOf(e).last = what
    BY ONLY <2>2, HavingFacts
  <2> QED BY <1>3, <2>1, <2>3
<1> HIDE DEF f
<1>6. LastOf(r).type = b.type /\ (b.type # "root" => LastOf(r).indefinite = b.indefinite)
  <2>1. LevelIs(r.levels[n], b, n < n \/ FALSE) /\ Len(r.levels) = n
    BY <1>1 DEF Tracks
  <2> QED BY <2>1 DEF LevelIs, LastOf
<1>7. One(b).type = b.type /\ One(b).indefinite = b.indefinite
  BY <1>2, OneMore
<1>8. LevelIs(f.levels[n], One(b), TRUE)
  BY <1>3, <1>5, <1>6, <1>7 DEF LevelIs, LastOf
<1>9. ASSUME NEW k \in 1..n PROVE LevelIs(f.levels[k], cs[k], TRUE)
  <2>1. CASE k = n
    BY <1>8, <2>1
  <2>2. CASE k # n
    BY <1>3, <1>5, <2>2
  <2> QED BY <2>1, <2>2
<1>10. \A k \in 1..n : (k < n \/ TRUE) = TRUE
  OBVIOUS
<1>11. Tracks(f, cs, TRUE)
  BY <1>5, <1>9, <1>10 DEF Tracks
<1> QED BY <1>3, <1>5, <1>11 DEF a, f

\* A block begins in it.
LEMMA OpeningRead ==
  ASSUME NEW f, NEW cs \in Seq(BlockSet), Len(cs) # 0, Tracks(f, cs, TRUE),
         NEW c \in BlockSet, c.num_items = 0,
         NEW l, l = [type |-> c.type, indefinite |-> c.indefinite, last |-> "begin"],
         NEW g, g = [levels |-> Append(f.levels, l), tokens |-> f.tokens, ok |-> TRUE]
  PROVE  Tracks(g, Append(cs, c), FALSE) /\ g.tokens = f.tokens
<1> DEFINE n == Len(cs)
           ds == Append(cs, c)
           ls == Append(f.levels, l)
<1>1. n \in Nat /\ Len(ds) = n + 1 /\ ds[n + 1] = c /\ \A k \in 1..n : ds[k] = cs[k]
  BY LenProperties, AppendProperties
<1>2. l \in LevelSet
  <2>1. c.type \in {"root", "array", "map"} /\ c.indefinite \in BOOLEAN
    BY DEF BlockSet, ItemTypes
  <2> QED BY <2>1 DEF LevelSet
<1>3. f.levels \in Seq(LevelSet) /\ Len(f.levels) = n /\ f.tokens \in Nat
  BY DEF Tracks, IsReader
<1>4. ls \in Seq(LevelSet) /\ Len(ls) = n + 1 /\ ls[n + 1] = l /\ \A k \in 1..n : ls[k] = f.levels[k]
  BY <1>2, <1>3, AppendProperties
<1> HIDE DEF ds, ls
<1>5. g.levels = ls /\ g.tokens = f.tokens /\ g.ok = TRUE /\ g = [levels |-> ls, tokens |-> f.tokens, ok |-> TRUE]
  BY DEF ls
<1>6. IsReader(g)
  BY <1>1, <1>3, <1>4, <1>5 DEF IsReader
<1>7. LevelIs(l, c, FALSE)
  BY DEF LevelIs, LastIn
<1>8. ASSUME NEW k \in 1..Len(ds) PROVE LevelIs(ls[k], ds[k], k < Len(ds) \/ FALSE)
  <2>1. CASE k = n + 1
    <3>1. (k < Len(ds) \/ FALSE) = FALSE
      BY <1>1, <2>1
    <3> QED BY <1>1, <1>4, <1>7, <2>1, <3>1
  <2>2. CASE k # n + 1
    <3>1. k \in 1..n /\ k < Len(ds)
      BY <1>1, <2>2
    <3>2. (k < Len(ds) \/ FALSE) = TRUE /\ (k < n \/ TRUE) = TRUE
      BY <3>1
    <3>3. LevelIs(f.levels[k], cs[k], k < n \/ TRUE)
      BY <3>1 DEF Tracks
    <3> QED BY <1>1, <1>4, <3>1, <3>2, <3>3
  <2> QED BY <2>1, <2>2
<1>9. Tracks(g, ds, FALSE)
  BY <1>1, <1>4, <1>5, <1>6, <1>8 DEF Tracks
<1> QED BY <1>5, <1>9 DEF ds

\* The symbol that ends the block b.
Ending(b) == IF b.type = "map" THEN "}" ELSE "]"
\* A block ends, and with it an item of the block around it.
LEMMA ClosingRead ==
  ASSUME NEW r, NEW bs \in Seq(BlockSet), Len(bs) > 1, Tracks(r, bs, FALSE),
         ~IsKey(bs[Len(bs)]), bs[Len(bs)].type \in ItemTypes,
         NEW x, x = Ending(bs[Len(bs)])
  PROVE  LET g == ReadSymbol(r, x)
         IN  /\ Tracks(g, SubSeq(bs, 1, Len(bs) - 1), TRUE)
             /\ g.tokens = r.tokens + IF bs[Len(bs)].indefinite THEN 1 ELSE 0
<1> DEFINE n == Len(bs)
           b == bs[n]
           cs == SubSeq(bs, 1, n - 1)
           ls == SubSeq(r.levels, 1, n - 1)
           t == r.tokens + IF b.indefinite THEN 1 ELSE 0
<1>1. n \in Nat /\ n > 1 /\ n \in 1..n /\ bs # <<>>
  <2>1. n \in Nat /\ n > 1
    BY LenProperties
  <2>2. n \in 1..n /\ n # 0
    BY <2>1
  <2> QED BY <2>1, <2>2, EmptySeq
<1>2. Len(cs) = n - 1 /\ \A k \in 1..n - 1 : cs[k] = bs[k]
  BY <1>1, AllButLast
<1>3. IsReader(r) /\ r.levels \in Seq(LevelSet) /\ Len(r.levels) = n /\ r.tokens \in Nat
  BY DEF Tracks, IsReader
<1>4. ls \in Seq(LevelSet) /\ Len(ls) = n - 1 /\ \A k \in 1..n - 1 : ls[k] = r.levels[k]
  <2>1. PICK levels : levels = r.levels
    OBVIOUS
  <2>2. levels \in Seq(LevelSet) /\ levels # <<>> /\ Len(levels) = n
    BY <1>1, <1>3, <2>1, EmptySeq
  <2> QED BY <2>1, <2>2, AllButLast
<1>5. LevelIs(LastOf(r), b, FALSE)
  <2>1. LevelIs(r.levels[n], b, n < n \/ FALSE)
    BY <1>1 DEF Tracks
  <2>2. ~(n < n)
    BY <1>1
  <2>3. (n < n \/ FALSE) = FALSE
    BY <2>2
  <2> QED BY <1>3, <2>1, <2>3 DEF LastOf
<1>6. LastOf(r).type = b.type /\ LastOf(r).indefinite = b.indefinite
      /\ LastOf(r).last \in {"begin", "value"}
  BY <1>5 DEF LevelIs, LastIn, ItemTypes
<1>7. ReadSymbol(r, x) = [levels |-> ls, tokens |-> t, ok |-> TRUE]
  <2>1. x \in {"]", "}"} /\ b.type = IF x = "}" THEN "map" ELSE "array"
    BY DEF Ending, ItemTypes
  <2> QED BY <1>3, <1>6, <2>1, ReadClosing
<1>8. t \in Nat
  <2>1. t = r.tokens + 0 \/ t = r.tokens + 1
    BY Zenon
  <2> QED BY <1>3, <2>1
<1>0. n = Len(bs)
  OBVIOUS
<1> HIDE DEF cs, ls, t, n, b
<1>9. PICK g : g = ReadSymbol(r, x)
  OBVIOUS
<1>10. g.levels = ls /\ g.tokens = t /\ g.ok = TRUE
       /\ g = [levels |-> g.levels, tokens |-> g.tokens, ok |-> g.ok]
  <2>1. g = [levels |-> ls, tokens |-> t, ok |-> TRUE]
    BY <1>7, <1>9
  <2>2. g.levels = ls /\ g.tokens = t /\ g.ok = TRUE
    BY <2>1
  <2> QED BY <2>1, <2>2
<1>11. IsReader(g)
  <2>1. n - 1 # 0
    BY <1>1
  <2> QED BY <1>4, <1>8, <1>10, <2>1 DEF IsReader
<1>12. ASSUME NEW k \in 1..n - 1 PROVE LevelIs(ls[k], cs[k], k < n - 1 \/ TRUE)
  <2>1. k \in 1..n /\ k < n
    BY <1>1
  <2>2. (k < n \/ FALSE) = TRUE /\ (k < n - 1 \/ TRUE) = TRUE
    BY <2>1
  <2>3. LevelIs(r.levels[k], bs[k], k < n \/ FALSE)
    BY <2>1 DEF Tracks, n
  <2> QED BY <1>2, <1>4, <2>1, <2>2, <2>3
<1>13. Tracks(g, cs, TRUE)
  BY <1>2, <1>4, <1>10, <1>11, <1>12 DEF Tracks
<1> QED BY <1>9, <1>10, <1>13 DEF cs, t, b, n

\* The item is finished: behind a key comes the colon.
LEMMA FinishedRead ==
  ASSUME NEW r, NEW bs \in Seq(BlockSet), Len(bs) # 0, Tracks(r, bs, TRUE),
         bs[Len(bs)].num_items # 0
  PROVE  LET b == bs[Len(bs)]
             g == IF IsKey(b) THEN ReadSymbol(r, ":") ELSE r
         IN  /\ Tracks(g, bs, FALSE) /\ g.tokens = r.tokens
             /\ LastIn(b, FALSE) = "value" <=> ~IsKey(b)
<1> DEFINE n == Len(bs)
           b == bs[n]
<1>1. n \in Nat /\ n # 0 /\ n \in 1..n
  <2>1. n \in Nat /\ n # 0
    BY LenProperties
  <2> QED BY <2>1
<1>2. IsReader(r) /\ Len(r.levels) = n /\ LastOf(r) = r.levels[n]
  BY DEF Tracks, LastOf
<1>3. \A k \in 1..n : LevelIs(r.levels[k], bs[k], TRUE)
  <2> SUFFICES ASSUME NEW k \in 1..n PROVE LevelIs(r.levels[k], bs[k], TRUE)
    OBVIOUS
  <2>1. LevelIs(r.levels[k], bs[k], k < n \/ TRUE) /\ (k < n \/ TRUE) = TRUE
    BY DEF Tracks
  <2> QED BY <2>1
<1>4. /\ LastIn(b, FALSE) = IF IsKey(b) THEN "colon" ELSE "value"
      /\ LastIn(b, TRUE) = IF IsKey(b) THEN "key" ELSE "value"
  BY DEF LastIn
<1> HIDE DEF n, b
<1>5. \A k \in 1..n : IF k = n THEN (k < n \/ FALSE) = FALSE ELSE (k < n \/ FALSE) = TRUE
  BY <1>1
<1>6. LevelIs(LastOf(r), b, TRUE)
  BY <1>1, <1>2, <1>3 DEF b
<1>7. CASE IsKey(b)
  <2> DEFINE g == Having(r, "colon", r.tokens)
  <2>1. LastOf(r).last = "key"
    BY <1>4, <1>6, <1>7 DEF LevelIs
  <2>2. ReadSymbol(r, ":") = g
    BY <1>2, <2>1, ReadColon
  <2>3. /\ IsReader(g) /\ Len(g.levels) = n /\ g.tokens = r.tokens
        /\ \A k \in 1..n : k # n => g.levels[k] = r.levels[k]
        /\ LastOf(g).type = LastOf(r).type /\ LastOf(g).indefinite = LastOf(r).indefinite
        /\ LastOf(g).last = "colon"
    <3>1. r.tokens \in Nat
      BY <1>2 DEF IsReader
    <3> QED BY <1>2, <3>1, HavingFacts
  <2> HIDE DEF g
  <2>4. LevelIs(g.levels[n], b, FALSE)
    BY <1>4, <1>6, <1>7, <2>3 DEF LevelIs, LastOf
  <2>5. ASSUME NEW k \in 1..n PROVE LevelIs(g.levels[k], bs[k], k < n \/ FALSE)
    <3>1. CASE k = n
      BY <1>5, <2>4, <3>1 DEF b
    <3>2. CASE k # n
      BY <1>3, <1>5, <2>3, <3>2
    <3> QED BY <3>1, <3>2
  <2>6. Tracks(g, bs, FALSE)
    BY <2>3, <2>5 DEF Tracks, n
  <2> QED BY <1>4, <1>7, <2>2, <2>3, <2>6 DEF b, n
<1>8. CASE ~IsKey(b)
  <2>1. LevelIs(LastOf(r), b, FALSE)
    BY <1>4, <1>6, <1>8 DEF LevelIs
  <2>2. ASSUME NEW k \in 1..n PROVE LevelIs(r.levels[k], bs[k], k < n \/ FALSE)
    <3>1. CASE k = n
      BY <1>2, <1>5, <2>1, <3>1 DEF b
    <3>2. CASE k # n
      BY <1>3, <1>5, <3>2
    <3> QED BY <3>1, <3>2
  <2>3. Tracks(r, bs, FALSE)
    BY <1>2, <2>2 DEF Tracks, n
  <2> QED BY <1>4, <1>8, <2>3 DEF b, n
<1> QED BY <1>7, <1>8

-----------------------------------------------------------------------------
(* The blocks, and the loops, that are between a key and its value.        *)

\* By the items counted: the item of an outer block is counted when it begins.
BlockKeys(bs) ==
  {k \in 1..Len(bs) - 1 : bs[k + 1].type = "map" /\ (IsKey(bs[k + 1]) <=> k = Len(bs) - 1)}

\* By the items the loops have been through; the n-th may just have returned.
IsOdd(c) == c.type = "map" /\ c.i % 2 = 1
LoopKeys(cs, n, returned) ==
  {k \in 1..n : cs[k].type = "map" /\ (IsOdd(cs[k]) <=> ~(k = n /\ returned))}

\* The outermost block is the stream; the others are arrays and maps.
Rooted(bs) == bs[1].type = "root" /\ \A k \in 2..Len(bs) : bs[k].type \in ItemTypes

\* The next item of the innermost block is read: it was due, and is finished.
Finishes(n, K, L, b) ==
  /\ n = 0 => b.type # "map"
  /\ \A k \in 1..n : k # n => (k \in K <=> k \in L)
  /\ n # 0 => (n \in K <=> b.type = "map" /\ ~IsKey(b)) /\ (n \in L <=> IsKey(b))

\* An item is counted: for its block, it was due and is finished.
LEMMA KeysCounted ==
  ASSUME NEW bs \in Seq(BlockSet), Len(bs) # 0, Rooted(bs), NEW cs \in Seq(BlockSet),
         Len(cs) = Len(bs),
         \A k \in 1..Len(bs) : cs[k] = IF k = Len(bs) THEN One(bs[Len(bs)]) ELSE bs[k]
  PROVE  /\ Rooted(cs) /\ cs[Len(cs)] = One(bs[Len(bs)]) /\ cs[Len(cs)] \in BlockSet
         /\ Finishes(Len(bs) - 1, BlockKeys(bs), BlockKeys(cs), cs[Len(cs)])
<1> DEFINE n == Len(bs) - 1
           b == bs[Len(bs)]
<1>1. n \in Nat /\ Len(bs) = n + 1 /\ n + 1 \in 1..n + 1
  <2>1. Len(bs) \in Nat
    BY LenProperties
  <2> QED BY <2>1
<1> HIDE DEF n
<1>2. b \in BlockSet /\ b = bs[n + 1]
  BY <1>1, ElementOf
<1> HIDE DEF b
<1>3. /\ One(b) \in BlockSet /\ One(b).type = b.type
      /\ b.type = "map" => (IsKey(One(b)) <=> ~IsKey(b))
  BY <1>2, OneMore
<1>4. cs[n + 1] = One(b) /\ \A k \in 1..n : cs[k] = bs[k]
  <2>1. \A k \in 1..n : k \in 1..n + 1 /\ k # n + 1
    BY <1>1
  <2> QED BY <1>1, <1>2, <2>1
<1>5. Rooted(cs)
  <2>1. \A k \in 1..n + 1 : cs[k].type = bs[k].type
    <3>1. \A k \in 1..n + 1 : k \in 1..n \/ k = n + 1
      BY <1>1
    <3> QED BY <1>2, <1>3, <1>4, <3>1
  <2>2. 1 \in 1..n + 1 /\ \A k \in 2..n + 1 : k \in 1..n + 1
    BY <1>1
  <2> QED BY <1>1, <2>1, <2>2 DEF Rooted
<1>6. ASSUME NEW k \in 1..n, k # n PROVE k \in BlockKeys(bs) <=> k \in BlockKeys(cs)
  <2>1. k + 1 \in 1..n
    BY <1>1, <1>6
  <2>2. bs[k + 1] = cs[k + 1]
    BY <1>4, <2>1
  <2>3. Len(bs) - 1 = n /\ Len(cs) - 1 = n
    BY <1>1
  <2> QED BY <2>2, <2>3 DEF BlockKeys
<1>7. n # 0 => /\ n \in BlockKeys(bs) <=> One(b).type = "map" /\ ~IsKey(One(b))
               /\ n \in BlockKeys(cs) <=> IsKey(One(b))
  <2> SUFFICES ASSUME n # 0
               PROVE  /\ n \in BlockKeys(bs) <=> One(b).type = "map" /\ ~IsKey(One(b))
                      /\ n \in BlockKeys(cs) <=> IsKey(One(b))
    OBVIOUS
  <2>1. n \in 1..n /\ Len(bs) - 1 = n /\ Len(cs) - 1 = n
    BY <1>1
  <2>2. /\ n \in BlockKeys(bs) <=> b.type = "map" /\ IsKey(b)
        /\ n \in BlockKeys(cs) <=> One(b).type = "map" /\ IsKey(One(b))
    BY <1>2, <1>4, <2>1 DEF BlockKeys
  <2> QED BY <1>3, <2>2 DEF IsKey
<1>8. n = 0 => One(b).type # "map"
  <2>1. n = 0 => bs[n + 1].type = "root"
    BY <1>1 DEF Rooted
  <2> QED BY <1>2, <1>3, <2>1
<1>9. Finishes(n, BlockKeys(bs), BlockKeys(cs), One(b))
  BY <1>6, <1>7, <1>8 DEF Finishes
<1> QED BY <1>1, <1>3, <1>4, <1>5, <1>9 DEF n, b

\* A block ends, and is itself finished in the one around it.
LEMMA KeysLeft ==
  ASSUME NEW bs \in Seq(BlockSet), Len(bs) > 1, Rooted(bs), NEW cs,
         cs = SubSeq(bs, 1, Len(bs) - 1)
  PROVE  /\ cs \in Seq(BlockSet) /\ Len(cs) = Len(bs) - 1 /\ Len(cs) # 0 /\ Rooted(cs)
         /\ cs[Len(cs)] = bs[Len(bs) - 1] /\ cs[Len(cs)] \in BlockSet
         /\ \A k \in 1..Len(cs) : cs[k] = bs[k]
         /\ Finishes(Len(cs) - 1, BlockKeys(bs), BlockKeys(cs), cs[Len(cs)])
<1> DEFINE n == Len(bs) - 2
           b == bs[Len(bs) - 1]
<1>1. n \in Nat /\ Len(bs) = n + 2 /\ n + 1 \in 1..n + 1 /\ Len(bs) # 0
  <2>1. Len(bs) \in Nat
    BY LenProperties
  <2> QED BY <2>1
<1>2. cs \in Seq(BlockSet) /\ Len(cs) = n + 1 /\ \A k \in 1..n + 1 : cs[k] = bs[k]
  <2>1. bs # <<>>
    BY <1>1, EmptySeq
  <2>2. /\ cs \in Seq(BlockSet) /\ Len(cs) = Len(bs) - 1
        /\ \A k \in 1..Len(bs) - 1 : cs[k] = bs[k]
    BY <2>1, AllButLast
  <2> QED BY <1>1, <2>2
<1> HIDE DEF n
<1>3. b = cs[n + 1] /\ b \in BlockSet
  <2>1. b = bs[n + 1]
    BY <1>1
  <2> QED BY <1>1, <1>2, <2>1, ElementOf
<1> HIDE DEF b
<1>4. Rooted(cs)
  <2>1. 1 \in 1..n + 1 /\ \A k \in 2..n + 1 : k \in 1..n + 1 /\ k \in 2..n + 2
    BY <1>1
  <2> QED BY <1>1, <1>2, <2>1 DEF Rooted
<1>5. ASSUME NEW k \in 1..n
      PROVE  /\ k \in BlockKeys(bs) <=> cs[k + 1].type = "map" /\ ~IsKey(cs[k + 1])
             /\ k \in BlockKeys(cs) <=> cs[k + 1].type = "map" /\ (IsKey(cs[k + 1]) <=> k = n)
  <2>1. k + 1 \in 1..n + 1 /\ Len(bs) - 1 = n + 1 /\ Len(cs) - 1 = n /\ k \in 1..n + 1 /\ k # n + 1
    BY <1>1, <1>2
  <2>2. bs[k + 1] = cs[k + 1]
    BY <1>2, <2>1
  <2> QED BY <2>1, <2>2 DEF BlockKeys
<1>6. \A k \in 1..n : k # n => (k \in BlockKeys(bs) <=> k \in BlockKeys(cs))
  BY <1>5
<1>7. n # 0 => /\ n \in BlockKeys(bs) <=> b.type = "map" /\ ~IsKey(b)
               /\ n \in BlockKeys(cs) <=> IsKey(b)
  <2>1. n # 0 => n \in 1..n
    BY <1>1
  <2> QED BY <1>3, <1>5, <2>1 DEF IsKey
<1>8. n = 0 => b.type # "map"
  <2>1. n = 0 => cs[n + 1].type = "root"
    BY <1>1, <1>4 DEF Rooted
  <2> QED BY <1>3, <2>1
<1>9. Finishes(n, BlockKeys(bs), BlockKeys(cs), b)
  BY <1>6, <1>7, <1>8 DEF Finishes
<1>10. Len(cs) - 1 = n /\ Len(bs) - 1 = n + 1 /\ n + 1 # 0
  BY <1>1, <1>2
<1> QED BY <1>2, <1>3, <1>4, <1>9, <1>10 DEF b

\* cs counts one item more than bs, and ds has the new block c on top.
BlockEntered(bs, cs, c, ds) ==
  /\ bs \in Seq(BlockSet) /\ Len(bs) # 0 /\ Rooted(bs)
  /\ cs \in Seq(BlockSet) /\ Len(cs) = Len(bs)
  /\ \A k \in 1..Len(bs) : cs[k] = IF k = Len(bs) THEN One(bs[Len(bs)]) ELSE bs[k]
  /\ c \in BlockSet /\ c.type \in ItemTypes /\ c.num_items = 0 /\ ds = Append(cs, c)

\* A block begins: the keys around it stay, and that it is in is none until it ends.
LEMMA KeysEntered ==
  ASSUME NEW bs, NEW cs, NEW c, NEW ds, BlockEntered(bs, cs, c, ds)
  PROVE  /\ ds \in Seq(BlockSet) /\ Len(ds) = Len(bs) + 1 /\ Rooted(ds) /\ ds[Len(ds)] = c
         /\ \A k \in 1..Len(bs) : ds[k] = cs[k]
         /\ \A k \in 1..Len(bs) - 1 : k \in BlockKeys(bs) <=> k \in BlockKeys(ds)
         /\ Len(bs) \notin BlockKeys(ds)
<1> USE DEF BlockEntered
<1> DEFINE n == Len(bs) - 1
<1>1. n \in Nat /\ Len(bs) = n + 1 /\ n + 1 \in 1..n + 1
  <2>1. Len(bs) \in Nat
    BY LenProperties
  <2> QED BY <2>1
<1>2. /\ ds \in Seq(BlockSet) /\ Len(ds) = n + 2 /\ ds[n + 2] = c
      /\ \A k \in 1..n + 1 : ds[k] = cs[k]
  <2>1. /\ ds \in Seq(BlockSet) /\ Len(ds) = Len(cs) + 1 /\ ds[Len(cs) + 1] = c
        /\ \A k \in 1..Len(cs) : ds[k] = cs[k]
    BY AppendProperties
  <2>2. (n + 1) + 1 = n + 2
    BY <1>1
  <2> QED BY <1>1, <2>1, <2>2
<1> HIDE DEF n
<1>3. Rooted(ds)
  <2>1. Rooted(cs)
    BY KeysCounted
  <2>2. 1 \in 1..n + 1 /\ \A k \in 2..n + 2 : k = n + 2 \/ (k \in 1..n + 1 /\ k \in 2..n + 1)
    BY <1>1
  <2> QED BY <1>1, <1>2, <2>1, <2>2 DEF Rooted
<1>4. Finishes(n, BlockKeys(bs), BlockKeys(cs), cs[n + 1])
  BY <1>1, KeysCounted DEF n
<1>5. ASSUME NEW k \in 1..n PROVE k \in BlockKeys(bs) <=> k \in BlockKeys(ds)
  <2>1. k + 1 \in 1..n + 1 /\ Len(ds) - 1 = n + 1 /\ k \in 1..n + 1 /\ k # n + 1 /\ Len(cs) - 1 = n
    BY <1>1, <1>2
  <2>2. ds[k + 1] = cs[k + 1]
    BY <1>2, <2>1
  <2>3. k \in BlockKeys(ds) <=> cs[k + 1].type = "map" /\ ~IsKey(cs[k + 1])
    BY <2>1, <2>2 DEF BlockKeys
  <2>4. CASE k = n
    <3>1. n # 0
      BY <1>1, <2>4
    <3> QED BY <1>4, <2>3, <2>4, <3>1 DEF Finishes
  <2>5. CASE k # n
    <3>1. k \in BlockKeys(cs) <=> cs[k + 1].type = "map" /\ ~IsKey(cs[k + 1])
      BY <2>1, <2>5 DEF BlockKeys
    <3> QED BY <1>4, <2>3, <2>5, <3>1 DEF Finishes
  <2> QED BY <2>4, <2>5
<1>6. n + 1 \notin BlockKeys(ds)
  <2>1. Len(ds) - 1 = n + 1 /\ (n + 1) + 1 = n + 2
    BY <1>1, <1>2
  <2>2. ~IsKey(c)
    BY DEF IsKey
  <2> QED BY <1>2, <2>1, <2>2 DEF BlockKeys
<1>7. Len(ds) = Len(bs) + 1
  BY <1>1, <1>2
<1>8. n = Len(bs) - 1
  BY DEF n
<1> QED BY <1>1, <1>2, <1>3, <1>5, <1>6, <1>7, <1>8

\* The loops over the items of the blocks, with the items they have been through; the
\* innermost, if loose, need not agree in them with its block.
LoopsAt(bs, cs, n, returned, loose) ==
  \A k \in 1..n :
    /\ bs[k + 1].type = cs[k].type /\ bs[k + 1].indefinite = cs[k].indefinite
    /\ \/ bs[k + 1].num_items = cs[k].i + IF k < n \/ returned THEN 1 ELSE 0
       \/ k = n /\ loose

\* Key or value, by the block and by its loop.
LEMMA LoopsKey ==
  ASSUME NEW b \in BlockSet, NEW c \in CallSet, b.type = c.type
  PROVE  /\ b.num_items = c.i + 1 => (IsKey(b) <=> b.type = "map" /\ ~IsOdd(c))
         /\ b.num_items = c.i => (IsKey(b) <=> IsOdd(c))
<1>1. c.i \in Nat
  BY DEF CallSet
<1>2. (c.i + 1) % 2 = 1 <=> ~(c.i % 2 = 1)
  BY <1>1
<1> QED BY <1>2 DEF IsKey, IsOdd

\* Without trouble, blocks and loops have the same keys.
LEMMA SameKeys ==
  ASSUME NEW bs \in Seq(BlockSet), NEW cs \in Seq(CallSet), NEW n \in Nat, Len(bs) = n + 1,
         Len(cs) = n, NEW returned \in BOOLEAN, LoopsAt(bs, cs, n, returned, FALSE)
  PROVE  \A k \in 1..n : k \in BlockKeys(bs) <=> k \in LoopKeys(cs, n, returned)
<1> SUFFICES ASSUME NEW k \in 1..n PROVE k \in BlockKeys(bs) <=> k \in LoopKeys(cs, n, returned)
  OBVIOUS
<1> DEFINE b == bs[k + 1]
           c == cs[k]
<1>1. b \in BlockSet /\ c \in CallSet /\ Len(bs) - 1 = n
  <2>1. k + 1 \in 1..Len(bs) /\ k \in 1..Len(cs)
    OBVIOUS
  <2> QED BY <2>1, ElementOf
<1>2. b.type = c.type /\ b.num_items = c.i + IF k < n \/ returned THEN 1 ELSE 0
  BY DEF LoopsAt
<1>3. c.i + 0 = c.i
  BY <1>1 DEF CallSet
<1>4. /\ k \in BlockKeys(bs) <=> b.type = "map" /\ (IsKey(b) <=> k = n)
      /\ k \in LoopKeys(cs, n, returned) <=> c.type = "map" /\ (IsOdd(c) <=> ~(k = n /\ returned))
  BY <1>1 DEF BlockKeys, LoopKeys
<1>5. k < n <=> k # n
  OBVIOUS
<1> HIDE DEF b, c
<1>6. /\ b.num_items = c.i + 1 => (IsKey(b) <=> b.type = "map" /\ ~IsOdd(c))
      /\ b.num_items = c.i => (IsKey(b) <=> IsOdd(c))
  BY <1>1, <1>2, LoopsKey
<1>7. CASE k < n \/ returned
  <2>1. b.num_items = c.i + 1
    BY <1>2, <1>7
  <2> QED BY <1>2, <1>4, <1>5, <1>6, <1>7, <2>1
<1>8. CASE ~(k < n \/ returned)
  <2>1. b.num_items = c.i
    BY <1>2, <1>3, <1>8
  <2> QED BY <1>2, <1>4, <1>5, <1>6, <1>8, <2>1
<1> QED BY <1>7, <1>8

\* The item of the innermost loop has been read.
LEMMA LoopsThrough ==
  ASSUME NEW bs \in Seq(BlockSet), NEW n \in Nat, Len(bs) = n + 1, Rooted(bs),
         NEW cs \in Seq(CallSet), n <= Len(cs), LoopsAt(bs, cs, n, TRUE, FALSE),
         NEW K, \A k \in 1..n : k \in K <=> IsOdd(cs[k])
  PROVE  Finishes(n, K, LoopKeys(cs, n, TRUE), bs[n + 1])
<1> DEFINE L == LoopKeys(cs, n, TRUE)
<1>1. ASSUME NEW k \in 1..n, k # n PROVE k \in K <=> k \in L
  BY <1>1 DEF LoopKeys, IsOdd
<1>2. ASSUME n # 0
      PROVE  /\ n \in K <=> bs[n + 1].type = "map" /\ ~IsKey(bs[n + 1])
             /\ n \in L <=> IsKey(bs[n + 1])
  <2>1. n \in 1..n /\ n \in 1..Len(cs) /\ n + 1 \in 1..Len(bs)
    <3>1. Len(cs) \in Nat
      BY LenProperties
    <3> QED BY <1>2, <3>1
  <2>2. bs[n + 1] \in BlockSet /\ cs[n] \in CallSet
    BY <2>1, ElementOf
  <2>3. bs[n + 1].type = cs[n].type /\ bs[n + 1].num_items = cs[n].i + 1
    BY <2>1 DEF LoopsAt
  <2>4. IsKey(bs[n + 1]) <=> bs[n + 1].type = "map" /\ ~IsOdd(cs[n])
    BY <2>2, <2>3, LoopsKey
  <2>5. n \in L <=> cs[n].type = "map" /\ ~IsOdd(cs[n])
    BY <2>1 DEF LoopKeys
  <2>6. n \in K <=> IsOdd(cs[n])
    BY <2>1
  <2> QED BY <2>3, <2>4, <2>5, <2>6 DEF IsOdd
<1>3. n = 0 => bs[n + 1].type # "map"
  BY DEF Rooted
<1> QED BY <1>1, <1>2, <1>3 DEF Finishes

\* While no item has just returned, the loops at a value are those at an odd item.
LEMMA OddLoops ==
  ASSUME NEW cs, NEW n \in Nat, NEW k \in 1..n
  PROVE  k \in LoopKeys(cs, n, FALSE) <=> IsOdd(cs[k])
  BY DEF LoopKeys, IsOdd

\* A scalar is read.
LEMMA LoopsCounted ==
  ASSUME NEW bs \in Seq(BlockSet), NEW n \in Nat, Len(bs) = n + 1, Rooted(bs),
         NEW cs \in Seq(CallSet), Len(cs) = n, LoopsAt(bs, cs, n, FALSE, FALSE),
         NEW ds \in Seq(BlockSet), Len(ds) = Len(bs),
         \A k \in 1..Len(bs) : ds[k] = IF k = Len(bs) THEN One(bs[Len(bs)]) ELSE bs[k]
  PROVE  /\ LoopsAt(ds, cs, n, TRUE, FALSE)
         /\ Finishes(n, LoopKeys(cs, n, FALSE), LoopKeys(cs, n, TRUE), ds[Len(ds)])
<1>1. bs[n + 1] \in BlockSet
  <2>1. n + 1 \in 1..Len(bs)
    OBVIOUS
  <2> QED BY <2>1, ElementOf
<1>2. /\ One(bs[n + 1]).type = bs[n + 1].type /\ One(bs[n + 1]).indefinite = bs[n + 1].indefinite
      /\ One(bs[n + 1]).num_items = bs[n + 1].num_items + 1
  BY <1>1, OneMore
<1>3. ASSUME NEW k \in 1..n
      PROVE  /\ ds[k + 1].type = cs[k].type /\ ds[k + 1].indefinite = cs[k].indefinite
             /\ ds[k + 1].num_items = cs[k].i + 1
  <2>1. k + 1 \in 1..Len(bs) /\ (k + 1 = Len(bs) <=> k = n) /\ k \in 1..Len(cs)
    OBVIOUS
  <2>2. /\ bs[k + 1].type = cs[k].type /\ bs[k + 1].indefinite = cs[k].indefinite
        /\ bs[k + 1].num_items = cs[k].i + IF k < n \/ FALSE THEN 1 ELSE 0
    BY DEF LoopsAt
  <2>3. cs[k] \in CallSet
    BY <2>1, ElementOf
  <2>4. cs[k].i + 0 = cs[k].i
    BY <2>3 DEF CallSet
  <2>5. CASE k = n
    BY <1>2, <2>1, <2>2, <2>4, <2>5
  <2>6. CASE k # n
    <3>1. k < n
      BY <2>6
    <3> QED BY <2>1, <2>2, <2>6, <3>1
  <2> QED BY <2>5, <2>6
<1>4. LoopsAt(ds, cs, n, TRUE, FALSE)
  BY <1>3 DEF LoopsAt
<1>5. Rooted(ds)
  BY KeysCounted
<1>6. \A k \in 1..n : k \in LoopKeys(cs, n, FALSE) <=> IsOdd(cs[k])
  BY OddLoops
<1>7. Finishes(n, LoopKeys(cs, n, FALSE), LoopKeys(cs, n, TRUE), ds[n + 1])
  <2>1. PICK K : K = LoopKeys(cs, n, FALSE)
    OBVIOUS
  <2>2. /\ n <= Len(cs) /\ Len(ds) = n + 1
        /\ \A k \in 1..n : k \in K <=> IsOdd(cs[k])
    <3>1. n <= Len(cs) /\ Len(ds) = n + 1
      OBVIOUS
    <3> QED BY <1>6, <2>1, <3>1, Zenon
  <2>3. Finishes(n, K, LoopKeys(cs, n, TRUE), ds[n + 1])
    BY <1>4, <1>5, <2>2, LoopsThrough
  <2> QED BY <2>1, <2>3
<1> QED BY <1>4, <1>7

\* A block and its loop end.
LoopLeft(n, bs, ds, cs, es, loose) ==
  /\ bs \in Seq(BlockSet) /\ n \in Nat /\ Len(bs) = n + 2 /\ Rooted(bs)
  /\ cs \in Seq(CallSet) /\ Len(cs) = n + 1 /\ LoopsAt(bs, cs, n + 1, FALSE, loose)
  /\ ds = SubSeq(bs, 1, Len(bs) - 1) /\ es = SubSeq(cs, 1, Len(cs) - 1)

\* The item that a block is has been read when its loop ends.
LEMMA LoopsEnded ==
  ASSUME NEW n, NEW bs, NEW ds, NEW cs, NEW es, NEW loose, LoopLeft(n, bs, ds, cs, es, loose)
  PROVE  /\ LoopsAt(ds, es, n, TRUE, FALSE) /\ Len(es) = n /\ Len(ds) = n + 1
         /\ Finishes(n, LoopKeys(cs, n + 1, FALSE), LoopKeys(es, n, TRUE), ds[Len(ds)])
<1> USE DEF LoopLeft
<1>1. /\ ds \in Seq(BlockSet) /\ Len(ds) = n + 1 /\ Rooted(ds) /\ \A k \in 1..n + 1 : ds[k] = bs[k]
  <2>1. Len(bs) > 1 /\ Len(bs) - 1 = n + 1
    OBVIOUS
  <2>2. /\ ds \in Seq(BlockSet) /\ Len(ds) = Len(bs) - 1 /\ Rooted(ds)
        /\ \A k \in 1..Len(ds) : ds[k] = bs[k]
    BY <2>1, KeysLeft
  <2> QED BY <2>1, <2>2
<1>2. es \in Seq(CallSet) /\ Len(es) = n /\ \A k \in 1..n : es[k] = cs[k]
  <2>1. cs # <<>> /\ Len(cs) - 1 = n
    BY EmptySeq
  <2> QED BY <2>1, AllButLast
<1>3. ASSUME NEW k \in 1..n
      PROVE  /\ ds[k + 1].type = es[k].type /\ ds[k + 1].indefinite = es[k].indefinite
             /\ ds[k + 1].num_items = es[k].i + 1
  <2>1. k \in 1..n + 1 /\ k < n + 1 /\ k # n + 1 /\ k + 1 \in 1..n + 1
    OBVIOUS
  <2>2. /\ bs[k + 1].type = cs[k].type /\ bs[k + 1].indefinite = cs[k].indefinite
        /\ bs[k + 1].num_items = cs[k].i + 1
    BY <2>1 DEF LoopsAt
  <2> QED BY <1>1, <1>2, <2>1, <2>2
<1>4. LoopsAt(ds, es, n, TRUE, FALSE)
  BY <1>3 DEF LoopsAt
<1>5. \A k \in 1..n : k \in LoopKeys(cs, n + 1, FALSE) <=> IsOdd(es[k])
  <2> SUFFICES ASSUME NEW k \in 1..n PROVE k \in LoopKeys(cs, n + 1, FALSE) <=> IsOdd(es[k])
    OBVIOUS
  <2>1. k \in 1..n + 1 /\ n + 1 \in Nat
    OBVIOUS
  <2> QED BY <1>2, <2>1, OddLoops
<1>6. Finishes(n, LoopKeys(cs, n + 1, FALSE), LoopKeys(es, n, TRUE), ds[n + 1])
  <2>1. PICK K : K = LoopKeys(cs, n + 1, FALSE)
    OBVIOUS
  <2>2. /\ n <= Len(es)
        /\ \A k \in 1..n : k \in K <=> IsOdd(es[k])
    <3>1. n <= Len(es)
      BY <1>2
    <3> QED BY <1>5, <2>1, <3>1, Zenon
  <2>3. Finishes(n, K, LoopKeys(es, n, TRUE), ds[n + 1])
    BY <1>1, <1>2, <1>4, <2>2, LoopsThrough
  <2> QED BY <2>1, <2>3
<1> QED BY <1>1, <1>2, <1>4, <1>6

\* A block and its loop begin.
LoopEntered(n, bs, bs1, b, ds, cs, c, es) ==
  /\ bs \in Seq(BlockSet) /\ n \in Nat /\ Len(bs) = n + 1 /\ Rooted(bs)
  /\ cs \in Seq(CallSet) /\ Len(cs) = n /\ LoopsAt(bs, cs, n, FALSE, FALSE)
  /\ bs1 \in Seq(BlockSet) /\ Len(bs1) = Len(bs)
  /\ \A k \in 1..Len(bs) : bs1[k] = IF k = Len(bs) THEN One(bs[Len(bs)]) ELSE bs[k]
  /\ b \in BlockSet /\ c \in CallSet /\ b.type = c.type /\ b.indefinite = c.indefinite
  /\ b.num_items = 0 /\ c.i = 0 /\ ds = Append(bs1, b) /\ es = Append(cs, c)

\* A block begins with its loop.
LEMMA LoopsBegun ==
  ASSUME NEW n, NEW bs, NEW bs1, NEW b, NEW ds, NEW cs, NEW c, NEW es,
         LoopEntered(n, bs, bs1, b, ds, cs, c, es)
  PROVE  /\ LoopsAt(ds, es, n + 1, FALSE, FALSE) /\ Len(es) = n + 1 /\ Len(ds) = n + 2
         /\ \A k \in 1..n : k \in LoopKeys(cs, n, FALSE) <=> k \in LoopKeys(es, n + 1, FALSE)
         /\ n + 1 \notin LoopKeys(es, n + 1, FALSE)
<1> USE DEF LoopEntered
<1>1. LoopsAt(bs1, cs, n, TRUE, FALSE)
  BY LoopsCounted
<1>2. Len(es) = n + 1 /\ es[n + 1] = c /\ \A k \in 1..n : es[k] = cs[k]
  BY AppendProperties
<1>3. Len(ds) = n + 2 /\ ds[n + 2] = b /\ \A k \in 1..n + 1 : ds[k] = bs1[k]
  <2>1. (n + 1) + 1 = n + 2
    OBVIOUS
  <2> QED BY <2>1, AppendProperties
<1>4. LoopsAt(ds, es, n + 1, FALSE, FALSE)
  <2> SUFFICES ASSUME NEW k \in 1..n + 1
               PROVE  /\ ds[k + 1].type = es[k].type /\ ds[k + 1].indefinite = es[k].indefinite
                      /\ ds[k + 1].num_items = es[k].i + IF k < n + 1 \/ FALSE THEN 1 ELSE 0
    BY DEF LoopsAt
  <2>1. CASE k = n + 1
    <3>1. k + 1 = n + 2 /\ ~(k < n + 1)
      BY <2>1
    <3> QED BY <1>2, <1>3, <2>1, <3>1
  <2>2. CASE k # n + 1
    <3>1. k \in 1..n /\ k + 1 \in 1..n + 1 /\ k < n + 1
      BY <2>2
    <3>2. /\ bs1[k + 1].type = cs[k].type /\ bs1[k + 1].indefinite = cs[k].indefinite
          /\ bs1[k + 1].num_items = cs[k].i + 1
      BY <1>1, <3>1 DEF LoopsAt
    <3> QED BY <1>2, <1>3, <3>1, <3>2
  <2> QED BY <2>1, <2>2
<1>5. \A k \in 1..n : k \in LoopKeys(cs, n, FALSE) <=> k \in LoopKeys(es, n + 1, FALSE)
  <2> SUFFICES ASSUME NEW k \in 1..n
               PROVE  k \in LoopKeys(cs, n, FALSE) <=> k \in LoopKeys(es, n + 1, FALSE)
    OBVIOUS
  <2>1. k \in 1..n + 1 /\ n + 1 \in Nat /\ es[k] = cs[k]
    BY <1>2
  <2>2. k \in LoopKeys(cs, n, FALSE) <=> IsOdd(cs[k])
    BY OddLoops
  <2>3. k \in LoopKeys(es, n + 1, FALSE) <=> IsOdd(es[k])
    BY <2>1, OddLoops
  <2> QED BY <2>1, <2>2, <2>3
<1>6. n + 1 \notin LoopKeys(es, n + 1, FALSE)
  <2>1. n + 1 \in 1..n + 1 /\ n + 1 \in Nat
    OBVIOUS
  <2>2. ~IsOdd(c)
    BY DEF IsOdd
  <2> QED BY <1>2, <2>1, <2>2, OddLoops
<1> QED BY <1>2, <1>3, <1>4, <1>5, <1>6

\* The string in an item begins or goes on: the blocks count its chunks as items.
LEMMA LoopsLoosened ==
  ASSUME NEW bs \in Seq(BlockSet), NEW n \in Nat, Len(bs) = n + 1,
         NEW cs, NEW loose, LoopsAt(bs, cs, n, FALSE, loose),
         NEW ds \in Seq(BlockSet), Len(ds) = Len(bs),
         \A k \in 1..Len(bs) : ds[k] = IF k = Len(bs) THEN One(bs[Len(bs)]) ELSE bs[k],
         NEW es, \A k \in 1..n : es[k] = cs[k]
  PROVE  /\ LoopsAt(ds, es, n, FALSE, TRUE)
         /\ \A k \in 1..n : k \in LoopKeys(cs, n, FALSE) <=> k \in LoopKeys(es, n, FALSE)
<1>1. bs[n + 1] \in BlockSet
  <2>1. n + 1 \in 1..Len(bs)
    OBVIOUS
  <2> QED BY <2>1, ElementOf
<1>2. One(bs[n + 1]).type = bs[n + 1].type /\ One(bs[n + 1]).indefinite = bs[n + 1].indefinite
  BY <1>1, OneMore
<1>3. ASSUME NEW k \in 1..n
      PROVE  /\ ds[k + 1].type = es[k].type /\ ds[k + 1].indefinite = es[k].indefinite
             /\ k # n => ds[k + 1].num_items = es[k].i + 1
  <2>1. k + 1 \in 1..Len(bs) /\ (k + 1 = Len(bs) <=> k = n) /\ (k < n <=> k # n)
    OBVIOUS
  <2>2. /\ bs[k + 1].type = cs[k].type /\ bs[k + 1].indefinite = cs[k].indefinite
        /\ k # n => bs[k + 1].num_items = cs[k].i + 1
    BY <2>1 DEF LoopsAt
  <2> QED BY <1>2, <2>1, <2>2
<1>4. LoopsAt(ds, es, n, FALSE, TRUE)
  <2>1. \A k \in 1..n : k # n => k < n
    OBVIOUS
  <2> QED BY <1>3, <2>1 DEF LoopsAt
<1> QED BY <1>4, OddLoops

\* It ends: with the item it is in the loop is through.
LEMMA LoopsTightened ==
  ASSUME NEW bs, NEW n \in Nat, NEW cs, LoopsAt(bs, cs, n, FALSE, TRUE),
         NEW es, \A k \in 1..n : es[k] = cs[k]
  PROVE  /\ LoopsAt(bs, es, n, TRUE, TRUE)
         /\ \A k \in 1..n : k # n => (k \in LoopKeys(cs, n, FALSE) <=> k \in LoopKeys(es, n, TRUE))
         /\ n # 0 => (n \in LoopKeys(es, n, TRUE) <=> cs[n].type = "map" /\ n \notin LoopKeys(cs, n, FALSE))
<1>1. LoopsAt(bs, es, n, TRUE, TRUE)
  <2>1. \A k \in 1..n : k # n => k < n
    OBVIOUS
  <2> QED BY <2>1 DEF LoopsAt
<1>2. n # 0 => n \in 1..n
  OBVIOUS
<1> QED BY <1>1, <1>2 DEF LoopKeys, IsOdd

\* The loop goes on.
LEMMA LoopsAdvanced ==
  ASSUME NEW bs, NEW n \in Nat, n # 0, NEW cs \in Seq(CallSet), Len(cs) = n, NEW loose,
         LoopsAt(bs, cs, n, TRUE, loose), NEW es,
         \A k \in 1..n : es[k] = IF k = n THEN [cs[n] EXCEPT !.i = @ + 1] ELSE cs[k]
  PROVE  /\ LoopsAt(bs, es, n, FALSE, loose)
         /\ \A k \in 1..n : k \in LoopKeys(cs, n, TRUE) <=> k \in LoopKeys(es, n, FALSE)
<1>1. n \in 1..n /\ cs[n] \in CallSet
  <2>1. n \in 1..n
    OBVIOUS
  <2> QED BY <2>1, ElementOf
<1>2. es[n].type = cs[n].type /\ es[n].indefinite = cs[n].indefinite /\ es[n].i = cs[n].i + 1
      /\ es[n].i \in Nat /\ cs[n].i \in Nat
  BY <1>1 DEF CallSet
<1>3. LoopsAt(bs, es, n, FALSE, loose)
  <2> SUFFICES ASSUME NEW k \in 1..n
               PROVE  /\ bs[k + 1].type = es[k].type /\ bs[k + 1].indefinite = es[k].indefinite
                      /\ \/ bs[k + 1].num_items = es[k].i + IF k < n \/ FALSE THEN 1 ELSE 0
                         \/ k = n /\ loose
    BY DEF LoopsAt
  <2>1. /\ bs[k + 1].type = cs[k].type /\ bs[k + 1].indefinite = cs[k].indefinite
        /\ bs[k + 1].num_items = cs[k].i + 1 \/ (k = n /\ loose)
    BY DEF LoopsAt
  <2>2. CASE k = n
    <3>1. ~(k < n) /\ es[n].i + 0 = cs[n].i + 1
      BY <1>2, <2>2
    <3> QED BY <1>2, <2>1, <2>2, <3>1
  <2>3. CASE k # n
    <3>1. k < n /\ es[k] = cs[k]
      BY <2>3
    <3> QED BY <2>1, <2>3, <3>1
  <2> QED BY <2>2, <2>3
<1>4. IsOdd(es[n]) <=> cs[n].type = "map" /\ ~IsOdd(cs[n])
  <2>1. (cs[n].i + 1) % 2 = 1 <=> ~(cs[n].i % 2 = 1)
    BY <1>2
  <2> QED BY <1>2, <2>1 DEF IsOdd
<1>5. ASSUME NEW k \in 1..n PROVE k \in LoopKeys(cs, n, TRUE) <=> k \in LoopKeys(es, n, FALSE)
  <2>1. k \in LoopKeys(es, n, FALSE) <=> IsOdd(es[k])
    BY OddLoops
  <2>2. k \in LoopKeys(cs, n, TRUE) <=> cs[k].type = "map" /\ (IsOdd(cs[k]) <=> k # n)
    BY DEF LoopKeys
  <2>3. CASE k = n
    BY <1>4, <2>1, <2>2, <2>3
  <2>4. CASE k # n
    <3>1. es[k] = cs[k]
      BY <2>4
    <3> QED BY <2>1, <2>2, <2>4, <3>1 DEF IsOdd
  <2> QED BY <2>3, <2>4
<1> QED BY <1>3, <1>5

-----------------------------------------------------------------------------
(* The invariant of the diagnostics.                                       *)

\* The blocks besides the stream itself, and where the decoder is between its steps.
Inner == Len(blocks) - 1
Steady == {"item", "items", "end", "return"}

\* A string of indefinite length has returned, but its break is still there.
Stuck == at \in {"return", "items", "end"} /\ IsBreak

\* What holds for every stream: the assertion of isbuf_dedent takes both a tag and a
\* string of indefinite length to fail.
Logs ==
  /\ IsDiag(diag) /\ Rooted(blocks)
  /\ seen \subseteq {"tag", "text_"}
  /\ at \in {"chunks", "crashed"} => "text_" \in seen
  /\ at = "return" => ~Current(diag).empty
  /\ diag.aborted => seen = {"tag", "text_"}

\* Without strings of indefinite length, the indentation is deep enough for the blocks;
\* without tags as well, it is exact.
BlocksDeep ==
  "text_" \notin seen /\ at \in Steady => Deep(diag, Inner, BlockKeys(blocks), seen = {})

\* Without tags, it is deep enough for the loops.
CallsDeep ==
  "tag" \notin seen /\ at \in Steady \cup {"chunks"} =>
    LET keys == LoopKeys(calls, Inner, at = "return")
    IN  /\ Len(calls) = Inner + IF at = "chunks" THEN 1 ELSE 0
        /\ LoopsAt(blocks, calls, Inner, at = "return", "text_" \in seen /\ (at = "chunks" \/ Stuck))
        /\ (Stuck /\ Inner \in keys) \/ Deep(diag, Inner, keys, FALSE)

\* Without both, what is written is read as the blocks are.
Reading ==
  seen = {} /\ at \in Steady =>
    /\ Tracks(WholeText, blocks, FALSE) /\ WholeText.tokens = nread
    /\ Pending(diag) <=> LastIn(TopBlock, FALSE) = "value"
    /\ Current(diag).cbor = <<>> \/ diag.eol_on_next_raw
    /\ \A k \in 1..Len(blocks) : k < Len(blocks) \/ at = "return" => blocks[k].num_items # 0

\* Without both, when the stream has ended, nothing is left unprinted.
Printed ==
  seen = {} /\ at = "finished" =>
    Tracks(WholeText, blocks, FALSE) /\ WholeText.tokens = nread /\ diag.reader = WholeText

\* The invariant of the diagnostics, beside that of the decoder.
Logging == Logs /\ BlocksDeep /\ CallsDeep /\ Reading /\ Printed
DiagInv == DecodeInv /\ Logging

-----------------------------------------------------------------------------
(* Depths.                                                                 *)

\* Logging an item leaves the indentation alone.
LEMMA DeepKept ==
  ASSUME NEW d, NEW e, Kept(d, e), NEW n, NEW K, NEW exact, Deep(d, n, K, exact)
  PROVE  Deep(e, n, K, exact)
  BY DEF Kept, Deep

\* The depth for the same keys.
LEMMA DeepSame ==
  ASSUME NEW d, NEW n \in Nat, NEW K, NEW L, \A k \in 1..n : k \in K <=> k \in L,
         NEW exact, Deep(d, n, K, exact)
  PROVE  Deep(d, n, L, exact)
<1>1. Depth(n, K) = Depth(n, L)
  BY DepthOfSame
<1> QED BY <1>1 DEF Deep

\* One block more, indented by one level.
LEMMA DeepEntered ==
  ASSUME NEW d, IsDiag(d), NEW e, Current(e).indent_level = Current(d).indent_level + 1,
         NEW n \in Nat, NEW K, NEW L, \A k \in 1..n : k \in K <=> k \in L, n + 1 \notin L,
         NEW exact, Deep(d, n, K, exact)
  PROVE  Deep(e, n + 1, L, exact)
<1>1. Depth(n, K) = Depth(n, L) /\ Depth(n, K) \in Nat
  BY DepthOfSame, DepthBounds
<1>2. Depth(n + 1, L) = Depth(n, L) + 1
  BY DepthOfNext
<1>3. Current(d).indent_level \in Nat
  BY Sides DEF LineSet
<1>4. Current(d).indent_level >= Depth(n, K) /\ (exact => Current(d).indent_level = Depth(n, K))
  BY DEF Deep
<1>5. Current(d).indent_level + 1 >= Depth(n, K) + 1
  BY <1>1, <1>3, <1>4
<1> QED BY <1>1, <1>2, <1>4, <1>5 DEF Deep

\* One block less: there is a level to give back.
LEMMA DeepLeft ==
  ASSUME NEW d, IsDiag(d), NEW n \in Nat, NEW K, NEW exact, exact => n + 1 \notin K,
         Deep(d, n + 1, K, exact)
  PROVE  /\ Current(d).indent_level # 0
         /\ \A e : Current(e).indent_level = Current(d).indent_level - 1 => Deep(e, n, K, exact)
<1> DEFINE x == Current(d).indent_level
<1>1. Depth(n, K) \in Nat /\ Depth(n + 1, K) = Depth(n, K) + IF n + 1 \in K THEN 2 ELSE 1
  BY DepthBounds, DepthOfNext
<1>2. x \in Nat
  BY Sides DEF LineSet
<1>3. x >= Depth(n + 1, K) /\ (exact => x = Depth(n + 1, K))
  BY DEF Deep
<1> HIDE DEF x
<1>4. x # 0 /\ x - 1 >= Depth(n, K)
  BY <1>1, <1>2, <1>3
<1>5. exact => x - 1 = Depth(n, K)
  BY <1>1, <1>2, <1>3
<1>6. ASSUME NEW e, Current(e).indent_level = x - 1 PROVE Deep(e, n, K, exact)
  BY <1>4, <1>5, <1>6 DEF Deep
<1> QED BY <1>4, <1>6 DEF x

\* Inside a block, there is a level to give back.
LEMMA DeepEnough ==
  ASSUME NEW d, IsDiag(d), NEW n \in Nat, n # 0, NEW K, NEW exact, Deep(d, n, K, exact)
  PROVE  Current(d).indent_level # 0
<1>1. Depth(n, K) \in Nat /\ Depth(n, K) >= n
  BY DepthBounds
<1> QED BY <1>1 DEF Deep

-----------------------------------------------------------------------------
(* The types.                                                              *)

\* The types of the stacks, at hand.
LEMMA BlocksAre ==
  ASSUME DecodeTypes
  PROVE  /\ blocks \in Seq(BlockSet) /\ Len(blocks) \in Nat /\ Len(blocks) # 0 /\ Inner \in Nat
         /\ Len(blocks) = Inner + 1 /\ TopBlock = blocks[Inner + 1] /\ TopBlock \in BlockSet
         /\ calls \in Seq(CallSet) /\ Len(calls) \in Nat
<1>1. /\ blocks \in Seq(BlockSet) /\ Len(blocks) \in Nat /\ Len(blocks) # 0
      /\ calls \in Seq(CallSet) /\ Len(calls) \in Nat
  BY LenProperties DEF DecodeTypes
<1>2. Inner \in Nat /\ Len(blocks) = Inner + 1
  BY <1>1 DEF Inner
<1>3. TopBlock \in BlockSet
  BY CountedBlocks
<1> QED BY <1>1, <1>2, <1>3 DEF TopBlock

\* The item is counted where it stands.
LEMMA CountedIs ==
  ASSUME DecodeTypes, blocks' = Counted
  PROVE  /\ blocks' \in Seq(BlockSet) /\ Len(blocks') = Len(blocks) /\ Inner' = Inner
         /\ \A k \in 1..Len(blocks) :
              blocks'[k] = IF k = Len(blocks) THEN One(blocks[Len(blocks)]) ELSE blocks[k]
         /\ Last(blocks') = blocks'[Len(blocks')] /\ TopBlock' = blocks'[Len(blocks')]
  BY CountedBlocks DEF One, TopBlock, Last, Inner

-----------------------------------------------------------------------------
(* A step of the diagnostics keeps the invariant, action by action.        *)

\* What is logged for a scalar.
LEMMA ScalarLogged ==
  ASSUME Logs, DiagDecodeScalar, at' = "return"
  PROVE  \E h : /\ Kept(diag, h) /\ ~Current(h).empty
                /\ Current(diag).cbor = <<>> \/ diag.eol_on_next_raw => Text(h) = Commaed(diag)
                /\ diag' = FinishItem(LogCbor(h, "v"), Last(blocks'))
<1>1. IsDiag(diag) /\ next.kind \in {"uint", "text"}
  BY DEF Logs, DiagDecodeScalar, DecodeScalar
<1>0. PICK more \in BOOLEAN :
        diag' = IF at' = "NB_ERR_RANGE" THEN Predecode(diag, more)
                ELSE IF next.kind = "uint" THEN Logged(diag, next, more, Last(blocks'))
                ELSE FinishItem(LogCbor(LogRaw(Logged(diag, next, more, Last(blocks'))), "v"),
                                Last(blocks'))
  BY Zenon DEF DiagDecodeScalar
<1>2. diag' = IF next.kind = "uint" THEN Logged(diag, next, more, Last(blocks'))
              ELSE FinishItem(LogCbor(LogRaw(Logged(diag, next, more, Last(blocks'))), "v"),
                              Last(blocks'))
  <2>1. at' # "NB_ERR_RANGE"
    OBVIOUS
  <2> QED BY <1>0, <2>1
<1>3. PICK g, h : g = Predecode(diag, more) /\ h = IF next.kind = "uint" THEN g ELSE LogRaw(g)
  OBVIOUS
<1>4. /\ Kept(diag, g) /\ ~Current(g).empty
      /\ Current(diag).cbor = <<>> \/ diag.eol_on_next_raw => Text(g) = Commaed(diag)
  BY <1>1, <1>3, PredecodeFacts
<1>5. IsDiag(g)
  BY <1>4 DEF Kept
<1>6. Kept(diag, h) /\ ~Current(h).empty /\ Text(h) = Text(g)
  BY <1>3, <1>4, <1>5, LogRawFacts DEF Kept
<1>7. diag' = FinishItem(LogCbor(h, "v"), Last(blocks'))
  <2>1. CASE next.kind = "uint"
    <3>1. Logged(diag, next, more, Last(blocks')) = FinishItem(LogCbor(g, "v"), Last(blocks'))
      BY <1>3, <2>1 DEF Logged
    <3> QED BY <1>2, <1>3, <2>1, <3>1
  <2>2. CASE next.kind = "text"
    <3>1. Logged(diag, next, more, Last(blocks')) = g
      BY <1>3, <2>2 DEF Logged
    <3> QED BY <1>2, <1>3, <2>2, <3>1
  <2> QED BY <1>1, <2>1, <2>2
<1> QED BY <1>4, <1>6, <1>7

\* The text of an item: the comma that is due, the item, and what finishes it.
ItemLogged(d, h, bs, cs, e) ==
  /\ IsDiag(d) /\ IsDiag(h) /\ Text(h) = Commaed(d)
  /\ bs \in Seq(BlockSet) /\ Len(bs) # 0 /\ Tracks(Text(d), bs, FALSE)
  /\ Pending(d) <=> LastIn(bs[Len(bs)], FALSE) = "value"
  /\ cs \in Seq(BlockSet) /\ Len(cs) = Len(bs)
  /\ \A k \in 1..Len(bs) : cs[k] = IF k = Len(bs) THEN One(bs[Len(bs)]) ELSE bs[k]
  /\ e = FinishItem(LogCbor(h, "v"), cs[Len(cs)])

\* A scalar is printed: the reader has counted it, and a comma follows unless it is a key.
LEMMA ItemFinished ==
  ASSUME NEW d, NEW h, NEW bs, NEW cs, NEW e, ItemLogged(d, h, bs, cs, e)
  PROVE  /\ Tracks(Text(e), cs, FALSE) /\ Text(e).tokens = Text(d).tokens + 1
         /\ Pending(e) <=> LastIn(cs[Len(cs)], FALSE) = "value"
<1> USE DEF ItemLogged
<1>1. PICK r, a, f, g : /\ r = Text(d) /\ a = Text(h) /\ g = LogCbor(h, "v")
                        /\ f = Having(a, Item(a), a.tokens + 1)
  OBVIOUS
<1>2. a = IF Pending(d) THEN ReadSymbol(r, ",") ELSE r
  BY <1>1 DEF Commaed
<1>3. IsReader(a) /\ Begins(a) /\ Tracks(f, cs, TRUE) /\ f.tokens = r.tokens + 1
  <2>1. PICK pending : pending = Pending(d)
    OBVIOUS
  <2>2. /\ pending <=> LastIn(bs[Len(bs)], FALSE) = "value"
        /\ a = IF pending THEN ReadSymbol(r, ",") ELSE r
        /\ Tracks(r, bs, FALSE)
    BY <1>1, <1>2, <2>1
  <2> QED BY <1>1, <2>2, ItemRead
<1>4. Kept(h, g) /\ Text(g) = ReadSymbol(a, "v") /\ ~Current(g).empty
  <2>1. "v" \in Symbols
    BY DEF Symbols
  <2> QED BY <1>1, <2>1, LogCborFacts
<1>5. Text(g) = f
  BY <1>1, <1>3, <1>4, ReadValue
<1>6. /\ Len(cs) # 0 /\ cs[Len(cs)] \in BlockSet /\ cs[Len(cs)].num_items # 0
  <2>1. Len(bs) \in 1..Len(bs)
    <3>1. Len(bs) \in Nat
      BY LenProperties
    <3> QED BY <3>1
  <2>2. cs[Len(cs)] = One(bs[Len(bs)]) /\ bs[Len(bs)] \in BlockSet
    BY <2>1, ElementOf
  <2> QED BY <2>2, OneMore
<1>7. /\ Pending(e) <=> ~IsKey(cs[Len(cs)])
      /\ Text(e) = IF IsKey(cs[Len(cs)]) THEN ReadSymbol(f, ":") ELSE f
  <2>1. IsDiag(g) /\ e = FinishItem(g, cs[Len(cs)])
    BY <1>1, <1>4 DEF Kept
  <2>2. PICK b : b = cs[Len(cs)]
    OBVIOUS
  <2>3. b \in BlockSet /\ ~Current(g).empty /\ e = FinishItem(g, b)
    BY <1>4, <1>6, <2>1, <2>2
  <2>4. /\ Pending(FinishItem(g, b)) <=> ~IsKey(b)
        /\ Text(FinishItem(g, b)) = IF IsKey(b) THEN ReadSymbol(Text(g), ":") ELSE Text(g)
    BY ONLY <2>1, <2>3, FinishItemFacts
  <2> QED BY <1>5, <2>2, <2>3, <2>4
<1>8. /\ Tracks(Text(e), cs, FALSE) /\ Text(e).tokens = f.tokens
      /\ LastIn(cs[Len(cs)], FALSE) = "value" <=> ~IsKey(cs[Len(cs)])
  BY <1>3, <1>6, <1>7, FinishedRead
<1> QED BY <1>1, <1>3, <1>7, <1>8

\* After an error, all that is left to say is that the assertion has not failed.
LEMMA OnlyLogs ==
  ASSUME Logs', at' \notin Steady \cup {"chunks", "finished"} PROVE Logging'
  BY DEF Logging, BlocksDeep, CallsDeep, Reading, Printed, Steady

\* decode_item reads a number out of range and refuses it.
LEMMA ScalarRefused == ASSUME DiagInv, DiagDecodeScalar, at' = "NB_ERR_RANGE" PROVE Logging'
<1>1. Logs /\ DecodeTypes /\ blocks' = Counted /\ next.kind \in {"uint", "text"}
  BY DEF DiagInv, Logging, DecodeInv, DiagDecodeScalar, DecodeScalar
<1>2. IsDiag(diag) /\ Rooted(blocks) /\ seen \subseteq {"tag", "text_"} /\ ~diag.aborted
  BY <1>1 DEF Logs, DiagDecodeScalar, Running
<1>3. Rooted(blocks')
  BY <1>1, <1>2, BlocksAre, CountedIs, KeysCounted
<1>4. seen' = seen
  <2>1. seen' = seen \cup ({next.kind} \cap {"tag", "text_"})
    BY DEF DiagDecodeScalar, Seen
  <2> QED BY <1>1, <2>1
<1>5. PICK more \in BOOLEAN : diag' = Predecode(diag, more)
  BY Zenon DEF DiagDecodeScalar
<1>6. Kept(diag, diag')
  BY <1>2, <1>5, PredecodeFacts
<1>7. Logs'
  BY <1>2, <1>3, <1>4, <1>6 DEF Logs, Kept
<1> QED BY <1>7, OnlyLogs DEF Steady

\* decode_item reads a scalar and returns.
LEMMA ScalarReturns == ASSUME DiagInv, DiagDecodeScalar, at' = "return" PROVE Logging'
<1>1. /\ Logs /\ BlocksDeep /\ CallsDeep /\ Reading /\ DecodeTypes /\ DecodeScalar
  BY DEF DiagInv, Logging, DecodeInv, DiagDecodeScalar
<1>2. /\ at = "item" /\ at' = "return" /\ blocks' = Counted /\ calls' = calls
      /\ nread' = nread + 1 /\ seen' = seen
  <2>1. next.kind \in {"uint", "text"} /\ seen' = seen \cup ({next.kind} \cap {"tag", "text_"})
    BY DEF DiagDecodeScalar, DecodeScalar, Seen
  <2>2. seen' = seen
    BY <2>1
  <2> QED BY <1>1, <2>2 DEF DecodeScalar, Read
<1> DEFINE n == Inner
           b == blocks'[Len(blocks')]
<1>3. /\ blocks \in Seq(BlockSet) /\ Len(blocks) \in Nat /\ Len(blocks) # 0 /\ n \in Nat
      /\ Len(blocks) = n + 1 /\ TopBlock = blocks[n + 1]
      /\ calls \in Seq(CallSet) /\ Len(calls) \in Nat
  BY <1>1, BlocksAre
<1>4. /\ blocks' \in Seq(BlockSet) /\ Len(blocks') = Len(blocks) /\ Inner' = n
      /\ \A k \in 1..Len(blocks) :
           blocks'[k] = IF k = Len(blocks) THEN One(blocks[Len(blocks)]) ELSE blocks[k]
      /\ Last(blocks') = b /\ TopBlock' = b
  BY <1>1, <1>2, CountedIs
<1>5. IsDiag(diag) /\ Rooted(blocks) /\ seen \subseteq {"tag", "text_"}
      /\ (diag.aborted => seen = {"tag", "text_"}) /\ ~diag.aborted
  BY <1>1 DEF Logs, DiagDecodeScalar, Running
<1>6. /\ Rooted(blocks') /\ b = One(blocks[Len(blocks)]) /\ b \in BlockSet
      /\ Finishes(n, BlockKeys(blocks), BlockKeys(blocks'), b)
  BY <1>3, <1>4, <1>5, KeysCounted DEF Inner
<1>7. PICK h : /\ Kept(diag, h) /\ ~Current(h).empty
               /\ Current(diag).cbor = <<>> \/ diag.eol_on_next_raw => Text(h) = Commaed(diag)
               /\ diag' = FinishItem(LogCbor(h, "v"), b)
  BY <1>1, <1>4, ScalarLogged
<1>8. PICK e : e = LogCbor(h, "v")
  OBVIOUS
<1>9. Kept(diag, e) /\ IsDiag(e) /\ IsDiag(h) /\ ~Current(e).empty /\ diag' = FinishItem(e, b)
  <2>1. "v" \in Symbols /\ IsDiag(h)
    BY <1>7 DEF Symbols, Kept
  <2>2. Kept(h, e) /\ ~Current(e).empty
    BY <1>8, <2>1, LogCborFacts
  <2> QED BY <1>7, <1>8, <2>1, <2>2 DEF Kept
<1> HIDE DEF n, b
<1>10. IsDiag(diag') /\ ~Current(diag').empty /\ diag'.eol_on_next_raw
  BY <1>6, <1>9, FinishItemFacts
<1>11. ASSUME NEW K, NEW L, NEW exact, Deep(diag, n, K, exact), Finishes(n, K, L, b)
       PROVE  diag'.aborted = FALSE /\ Deep(diag', n, L, exact)
  <2>1. Deep(e, n, K, exact) /\ e.aborted = diag.aborted
    BY <1>9, <1>11, DeepKept DEF Kept
  <2>2. diag'.aborted = e.aborted /\ Deep(diag', n, L, exact)
    BY <1>3, <1>6, <1>9, <1>11, <2>1, FinishedDepth DEF Finishes
  <2>3. diag.aborted \in BOOLEAN
    BY <1>5 DEF IsDiag
  <2> QED BY <1>5, <2>1, <2>2, <2>3
<1>12. ASSUME "text_" \notin seen
       PROVE  diag'.aborted = FALSE /\ Deep(diag', n, BlockKeys(blocks'), seen = {})
  <2>1. Deep(diag, n, BlockKeys(blocks), seen = {})
    BY <1>1, <1>2, <1>12 DEF BlocksDeep, Steady, n
  <2> QED BY <1>6, <1>11, <2>1
<1>13. ASSUME "tag" \notin seen
       PROVE  /\ diag'.aborted = FALSE
              /\ Len(calls) = n /\ LoopsAt(blocks', calls, n, TRUE, FALSE)
              /\ Deep(diag', n, LoopKeys(calls, n, TRUE), FALSE)
  <2>1. ~Stuck /\ (at = "return") = FALSE /\ at \in Steady /\ at # "chunks"
    BY <1>2 DEF Stuck, Steady
  <2>2. PICK no : no = FALSE
    OBVIOUS
  <2>3. (at = "return") = no /\ ("text_" \in seen /\ (at = "chunks" \/ Stuck)) = no
    BY <2>1, <2>2
  <2>4. /\ Len(calls) = n + 0 /\ LoopsAt(blocks, calls, n, no, no)
        /\ Deep(diag, n, LoopKeys(calls, n, no), FALSE)
    BY <1>1, <1>13, <2>1, <2>3 DEF CallsDeep, n
  <2>5. Len(calls) = n /\ LoopsAt(blocks, calls, n, FALSE, FALSE)
        /\ Deep(diag, n, LoopKeys(calls, n, FALSE), FALSE)
    <3>1. Len(calls) = n
      BY <1>3, <2>4
    <3> QED BY <2>2, <2>4, <3>1, Zenon
  <2>6. /\ LoopsAt(blocks', calls, n, TRUE, FALSE)
        /\ Finishes(n, LoopKeys(calls, n, FALSE), LoopKeys(calls, n, TRUE), b)
    BY <1>3, <1>4, <1>5, <2>5, LoopsCounted DEF b
  <2> QED BY <1>11, <2>5, <2>6
<1>14. Logs'
  <2>1. diag'.aborted => seen = {"tag", "text_"}
    BY <1>5, <1>12, <1>13
  <2> QED BY <1>2, <1>5, <1>6, <1>10, <2>1 DEF Logs
<1>15. BlocksDeep'
  BY <1>2, <1>4, <1>12 DEF BlocksDeep
<1>16. CallsDeep'
  <2> SUFFICES ASSUME "tag" \notin seen'
               PROVE  LET keys == LoopKeys(calls', Inner', at' = "return")
                      IN  /\ Len(calls') = Inner' + IF at' = "chunks" THEN 1 ELSE 0
                          /\ LoopsAt(blocks', calls', Inner', at' = "return",
                                     "text_" \in seen' /\ (at' = "chunks" \/ Stuck'))
                          /\ (Stuck' /\ Inner' \in keys) \/ Deep(diag', Inner', keys, FALSE)
    BY DEF CallsDeep
  <2>1. (at' = "return") = TRUE /\ at' # "chunks"
    BY <1>2
  <2>2. /\ Len(calls) = n /\ LoopsAt(blocks', calls, n, TRUE, FALSE)
        /\ Deep(diag', n, LoopKeys(calls, n, TRUE), FALSE)
    BY <1>2, <1>13
  <2>3. LoopsAt(blocks', calls, n, TRUE, "text_" \in seen' /\ (at' = "chunks" \/ Stuck'))
    BY <2>2 DEF LoopsAt
  <2>4. Len(calls') = Inner' + IF at' = "chunks" THEN 1 ELSE 0
    BY <1>2, <1>3, <1>4, <2>1, <2>2
  <2>5. LoopsAt(blocks', calls', Inner', at' = "return", "text_" \in seen' /\ (at' = "chunks" \/ Stuck'))
    BY <1>2, <1>4, <2>1, <2>3, Zenon
  <2>6. Deep(diag', Inner', LoopKeys(calls', Inner', at' = "return"), FALSE)
    BY <1>2, <1>4, <2>1, <2>2, Zenon
  <2> QED BY <2>4, <2>5, <2>6, Zenon
<1>17. Reading'
  <2> SUFFICES ASSUME seen = {}
               PROVE  /\ Tracks(Text(diag'), blocks', FALSE) /\ Text(diag').tokens = nread + 1
                      /\ Pending(diag') <=> LastIn(b, FALSE) = "value"
                      /\ \A k \in 1..Len(blocks') : blocks'[k].num_items # 0
    BY <1>2, <1>4, <1>10 DEF Reading, WholeText
  <2>1. /\ Tracks(Text(diag), blocks, FALSE) /\ Text(diag).tokens = nread
        /\ Pending(diag) <=> LastIn(TopBlock, FALSE) = "value"
        /\ Current(diag).cbor = <<>> \/ diag.eol_on_next_raw
        /\ \A k \in 1..Len(blocks) : k < Len(blocks) => blocks[k].num_items # 0
    BY <1>1, <1>2 DEF Reading, WholeText, Steady
  <2>2. Text(h) = Commaed(diag) /\ TopBlock = blocks[Len(blocks)]
    BY <1>3, <1>7, <2>1
  <2>3. /\ Tracks(Text(diag'), blocks', FALSE) /\ Text(diag').tokens = Text(diag).tokens + 1
        /\ Pending(diag') <=> LastIn(b, FALSE) = "value"
    <3>1. PICK d, e1, bs, cs : d = diag /\ e1 = diag' /\ bs = blocks /\ cs = blocks'
      OBVIOUS
    <3>2. ItemLogged(d, h, bs, cs, e1)
      BY <1>3, <1>4, <1>5, <1>7, <1>9, <2>1, <2>2, <3>1 DEF b, ItemLogged
    <3>3. /\ Tracks(Text(e1), cs, FALSE) /\ Text(e1).tokens = Text(d).tokens + 1
          /\ Pending(e1) <=> LastIn(cs[Len(cs)], FALSE) = "value"
      BY <3>2, ItemFinished, Zenon
    <3> QED BY <3>1, <3>3 DEF b
  <2>4. ASSUME NEW k \in 1..Len(blocks') PROVE blocks'[k].num_items # 0
    <3>1. CASE k = Len(blocks)
      <4>1. blocks[Len(blocks)] \in BlockSet
        BY <1>3, <1>4, <3>1, ElementOf
      <4> QED BY <1>4, <3>1, <4>1, OneMore
    <3>2. CASE k # Len(blocks)
      <4>1. k \in 1..Len(blocks) /\ k < Len(blocks)
        BY <1>3, <1>4, <3>2
      <4> QED BY <1>4, <2>1, <3>2, <4>1
    <3> QED BY <3>1, <3>2
  <2> QED BY <2>1, <2>3, <2>4
<1>18. Printed'
  BY <1>2 DEF Printed
<1> QED BY <1>14, <1>15, <1>16, <1>17, <1>18 DEF Logging

\* decode_item reads a scalar.
LEMMA ScalarStep == ASSUME DiagInv, DiagDecodeScalar PROVE Logging'
<1>1. at' \in {"return", "NB_ERR_RANGE"}
  BY DEF DiagDecodeScalar, DecodeScalar
<1> QED BY <1>1, ScalarReturns, ScalarRefused

\* Where an item begins.
LEMMA ItemDeep ==
  ASSUME DiagInv, at = "item"
  PROVE  /\ "text_" \notin seen => Deep(diag, Inner, BlockKeys(blocks), seen = {})
         /\ "tag" \notin seen =>
              /\ Len(calls) = Inner /\ LoopsAt(blocks, calls, Inner, FALSE, FALSE)
              /\ Deep(diag, Inner, LoopKeys(calls, Inner, FALSE), FALSE)
         /\ seen = {} =>
              /\ Tracks(Text(diag), blocks, FALSE) /\ Text(diag).tokens = nread
              /\ Pending(diag) <=> LastIn(TopBlock, FALSE) = "value"
              /\ Current(diag).cbor = <<>> \/ diag.eol_on_next_raw
              /\ \A k \in 1..Len(blocks) : k < Len(blocks) => blocks[k].num_items # 0
<1>1. BlocksDeep /\ CallsDeep /\ Reading /\ DecodeTypes
  BY DEF DiagInv, Logging, DecodeInv
<1>2. ~Stuck /\ at # "return" /\ at \in Steady /\ at # "chunks"
  BY DEF Stuck, Steady
<1>3. Inner \in Nat
  BY <1>1, BlocksAre
<1>4. "text_" \notin seen => Deep(diag, Inner, BlockKeys(blocks), seen = {})
  BY <1>1, <1>2 DEF BlocksDeep
<1>5. ASSUME "tag" \notin seen
      PROVE  /\ Len(calls) = Inner /\ LoopsAt(blocks, calls, Inner, FALSE, FALSE)
             /\ Deep(diag, Inner, LoopKeys(calls, Inner, FALSE), FALSE)
  <2>1. PICK no : no = FALSE
    OBVIOUS
  <2>2. (at = "return") = no /\ ("text_" \in seen /\ (at = "chunks" \/ Stuck)) = no
    BY <1>2, <2>1
  <2>3. /\ Len(calls) = Inner + 0 /\ LoopsAt(blocks, calls, Inner, no, no)
        /\ Deep(diag, Inner, LoopKeys(calls, Inner, no), FALSE)
    BY <1>1, <1>2, <1>5, <2>2 DEF CallsDeep
  <2>4. Len(calls) = Inner
    BY <1>3, <2>3
  <2> QED BY <2>1, <2>3, <2>4, Zenon
<1>6. seen = {} =>
        /\ Tracks(Text(diag), blocks, FALSE) /\ Text(diag).tokens = nread
        /\ Pending(diag) <=> LastIn(TopBlock, FALSE) = "value"
        /\ Current(diag).cbor = <<>> \/ diag.eol_on_next_raw
        /\ \A k \in 1..Len(blocks) : k < Len(blocks) => blocks[k].num_items # 0
  BY <1>1, <1>2 DEF Reading, WholeText
<1> QED BY <1>4, <1>5, <1>6

\* What CallsDeep says of the next state.
LEMMA CallsWillBe ==
  ASSUME NEW returned \in BOOLEAN, NEW loose \in BOOLEAN, returned <=> at' = "return",
         loose => "text_" \in seen' /\ (at' = "chunks" \/ Stuck'),
         "tag" \notin seen' /\ at' \in Steady \cup {"chunks"} =>
           /\ Len(calls') = Inner' + IF at' = "chunks" THEN 1 ELSE 0
           /\ LoopsAt(blocks', calls', Inner', returned, loose)
           /\ \/ Stuck' /\ Inner' \in LoopKeys(calls', Inner', returned)
              \/ Deep(diag', Inner', LoopKeys(calls', Inner', returned), FALSE)
  PROVE  CallsDeep'
<1> SUFFICES ASSUME "tag" \notin seen', at' \in Steady \cup {"chunks"}
             PROVE  LET keys == LoopKeys(calls', Inner', at' = "return")
                    IN  /\ Len(calls') = Inner' + IF at' = "chunks" THEN 1 ELSE 0
                        /\ LoopsAt(blocks', calls', Inner', at' = "return",
                                   "text_" \in seen' /\ (at' = "chunks" \/ Stuck'))
                        /\ (Stuck' /\ Inner' \in keys) \/ Deep(diag', Inner', keys, FALSE)
  BY DEF CallsDeep, Steady
<1>1. (at' = "return") = returned
  OBVIOUS
<1>2. LoopsAt(blocks', calls', Inner', returned, "text_" \in seen' /\ (at' = "chunks" \/ Stuck'))
  BY DEF LoopsAt
<1>3. LoopsAt(blocks', calls', Inner', at' = "return",
              "text_" \in seen' /\ (at' = "chunks" \/ Stuck'))
  BY <1>1, <1>2, Zenon
<1>4. LoopKeys(calls', Inner', at' = "return") = LoopKeys(calls', Inner', returned)
  BY <1>1, Zenon
<1> QED BY <1>3, <1>4, Zenon

\* The line on which a block begins.
BeginLine(h, x) == Indent(Eol(LogCbor(h, x), FALSE))

\* Its opening bracket is printed and the next line is indented.
LEMMA BeginLogged ==
  ASSUME NEW d, IsDiag(d), NEW h, Kept(d, h), NEW x \in Symbols,
         NEW e, e = BeginLine(h, x)
  PROVE  /\ IsDiag(e) /\ e.eol_on_next_raw /\ ~Pending(e) /\ e.aborted = d.aborted
         /\ Text(e) = ReadSymbol(Text(h), x)
         /\ Current(e).indent_level = Current(d).indent_level + 1
<1>0. PICK no \in BOOLEAN : no = FALSE
  OBVIOUS
<1>1. PICK f, g : f = LogCbor(h, x) /\ g = Eol(f, FALSE)
  OBVIOUS
<1>2. Kept(h, f) /\ Text(f) = ReadSymbol(Text(h), x) /\ ~Current(f).empty
  BY <1>1, LogCborFacts DEF Kept
<1>3. g = Eol(f, no)
  BY <1>0, <1>1, Zenon
<1>4. Kept(f, g) /\ Text(g) = Text(f) /\ g.eol_on_next_raw /\ Pending(g) = no
  BY <1>2, <1>3, EolFacts DEF Kept
<1>5. IsDiag(g) /\ e = Indent(g)
  BY <1>1, <1>4 DEF Kept, BeginLine
<1>6. /\ SameText(g, e) /\ e.aborted = g.aborted
      /\ Current(e).indent_level = Current(g).indent_level + 1
  BY <1>5, IndentFacts
<1>7. ~Pending(e)
  BY <1>0, <1>4, <1>6 DEF SameText
<1> QED BY <1>2, <1>4, <1>6, <1>7 DEF Kept, SameText

\* From d to e, by way of h, the opening bracket x of the block c has been printed.
BlockLogged(d, h, bs, cs, x, c, e) ==
  /\ IsDiag(d) /\ IsDiag(h) /\ Text(h) = Commaed(d)
  /\ bs \in Seq(BlockSet) /\ Len(bs) # 0 /\ Tracks(Text(d), bs, FALSE)
  /\ Pending(d) <=> LastIn(bs[Len(bs)], FALSE) = "value"
  /\ cs \in Seq(BlockSet) /\ Len(cs) = Len(bs)
  /\ \A k \in 1..Len(bs) : cs[k] = IF k = Len(bs) THEN One(bs[Len(bs)]) ELSE bs[k]
  /\ x \in DOMAIN Opens /\ c \in BlockSet /\ c.num_items = 0
  /\ Opens[x] = [type |-> c.type, indefinite |-> c.indefinite, last |-> "begin"]
  /\ Text(e) = ReadSymbol(Text(h), x)

\* The reader has a level more, at which nothing has been read.
LEMMA BlockOpened ==
  ASSUME NEW d, NEW h, NEW bs, NEW cs, NEW x, NEW c, NEW e, BlockLogged(d, h, bs, cs, x, c, e)
  PROVE  Tracks(Text(e), Append(cs, c), FALSE) /\ Text(e).tokens = Text(d).tokens + 1
<1> USE DEF BlockLogged
<1>1. PICK r, a, f, g, l :
        /\ r = Text(d) /\ a = Text(h) /\ f = Having(a, Item(a), a.tokens + 1)
        /\ l = [type |-> c.type, indefinite |-> c.indefinite, last |-> "begin"]
        /\ g = [levels |-> Append(f.levels, l), tokens |-> f.tokens, ok |-> TRUE]
  OBVIOUS
<1>2. a = IF Pending(d) THEN ReadSymbol(r, ",") ELSE r
  BY <1>1 DEF Commaed
<1>3. IsReader(a) /\ Begins(a) /\ Tracks(f, cs, TRUE) /\ f.tokens = r.tokens + 1
  <2>1. PICK pending : pending = Pending(d)
    OBVIOUS
  <2>2. /\ pending <=> LastIn(bs[Len(bs)], FALSE) = "value"
        /\ a = IF pending THEN ReadSymbol(r, ",") ELSE r
        /\ Tracks(r, bs, FALSE)
    BY <1>1, <1>2, <2>1
  <2> QED BY <1>1, <2>2, ItemRead
<1>4. ReadSymbol(a, x) = g
  <2>1. x \in {"[", "[_", "{", "{_"}
    BY DEF Opens
  <2>2. ReadSymbol(a, x) = [levels |-> Append(f.levels, Opens[x]), tokens |-> f.tokens, ok |-> TRUE]
    BY <1>1, <1>3, <2>1, ReadOpening
  <2> QED BY <1>1, <2>2
<1>5. Tracks(g, Append(cs, c), FALSE) /\ g.tokens = f.tokens
  BY <1>1, <1>3, OpeningRead
<1> QED BY <1>1, <1>3, <1>4, <1>5

\* A truth value as a value.
LEMMA IsFalse == \A x \in BOOLEAN : ~x => x = FALSE
  OBVIOUS

\* The same of membership.
LEMMA NotIn == \A x, S : x \notin S => (x \in S) = FALSE
  OBVIOUS

\* The bracket printed for an array or a map is that of its type and length.
LEMMA BracketOf ==
  ASSUME NEW t \in {Eof} \cup Tokens(MaxCount), TypeOf(t) \in ItemTypes
  PROVE  LET x == Bracket[t.kind]
         IN  /\ x \in Symbols /\ x \in DOMAIN Opens
             /\ Opens[x] = [type |-> TypeOf(t), indefinite |-> Indefinite(t), last |-> "begin"]
<1>1. t.kind \in {"array", "array_", "map", "map_"}
  BY BeginTypes
<1>2. PICK no : no = FALSE
  OBVIOUS
<1>3. PICK yes : yes = TRUE
  OBVIOUS
<1>4. DOMAIN Opens = {"[", "[_", "{", "{_"}
  BY DEF Opens
<1>5. DOMAIN Opens \subseteq Symbols
  BY <1>4, Zenon DEF Symbols
<1>6. CASE t.kind = "array"
  <2>1. TypeOf(t) = "array" /\ ~Indefinite(t) /\ Bracket[t.kind] = "["
    BY <1>6 DEF TypeOf, Indefinite, Bracket
  <2>2. Indefinite(t) = no
    BY <1>2, <2>1, BeginTypes, IsFalse, Zenon
  <2>3. "[" \in DOMAIN Opens
    BY <1>4
  <2>4. Opens["["] = [type |-> "array", indefinite |-> no, last |-> "begin"]
    <3>1. PICK m : m = ("[" \in {"[_", "{_"})
      OBVIOUS
    <3>2. m = no
      <4>1. "[" \notin {"[_", "{_"}
        OBVIOUS
      <4>2. m = FALSE
        BY <3>1, <4>1, NotIn
      <4> QED BY <1>2, <4>2
    <3>3. Opens["["] = [type |-> "array", indefinite |-> m, last |-> "begin"]
      BY <3>1 DEF Opens, ReaderLevel
    <3> QED BY <3>2, <3>3
  <2> QED BY <1>5, <2>1, <2>2, <2>3, <2>4
<1>7. CASE t.kind = "array_"
  <2>1. TypeOf(t) = "array" /\ Indefinite(t) /\ Bracket[t.kind] = "[_"
    BY <1>7 DEF TypeOf, Indefinite, Bracket
  <2>2. Indefinite(t) = yes
    BY <1>3, <2>1 DEF Indefinite
  <2>3. "[_" \in DOMAIN Opens
    BY <1>4
  <2>4. Opens["[_"] = [type |-> "array", indefinite |-> yes, last |-> "begin"]
    BY <1>3 DEF Opens, ReaderLevel
  <2> QED BY <1>5, <2>1, <2>2, <2>3, <2>4
<1>8. CASE t.kind = "map"
  <2>1. TypeOf(t) = "map" /\ ~Indefinite(t) /\ Bracket[t.kind] = "{"
    BY <1>8 DEF TypeOf, Indefinite, Bracket
  <2>2. Indefinite(t) = no
    BY <1>2, <2>1, BeginTypes, IsFalse, Zenon
  <2>3. "{" \in DOMAIN Opens
    BY <1>4
  <2>4. Opens["{"] = [type |-> "map", indefinite |-> no, last |-> "begin"]
    <3>1. PICK m : m = ("{" \in {"[_", "{_"})
      OBVIOUS
    <3>2. m = no
      <4>1. "{" \notin {"[_", "{_"}
        OBVIOUS
      <4>2. m = FALSE
        BY <3>1, <4>1, NotIn
      <4> QED BY <1>2, <4>2
    <3>3. Opens["{"] = [type |-> "map", indefinite |-> m, last |-> "begin"]
      BY <3>1 DEF Opens, ReaderLevel
    <3> QED BY <3>2, <3>3
  <2> QED BY <1>5, <2>1, <2>2, <2>3, <2>4
<1>9. CASE t.kind = "map_"
  <2>1. TypeOf(t) = "map" /\ Indefinite(t) /\ Bracket[t.kind] = "{_"
    BY <1>9 DEF TypeOf, Indefinite, Bracket
  <2>2. Indefinite(t) = yes
    BY <1>3, <2>1 DEF Indefinite
  <2>3. "{_" \in DOMAIN Opens
    BY <1>4
  <2>4. Opens["{_"] = [type |-> "map", indefinite |-> yes, last |-> "begin"]
    BY <1>3 DEF Opens, ReaderLevel
  <2> QED BY <1>5, <2>1, <2>2, <2>3, <2>4
<1> QED BY <1>1, <1>6, <1>7, <1>8, <1>9

\* What is logged where a block begins.
LEMMA BeginIs ==
  ASSUME DiagInv, DiagDecodeBegin
  PROVE  /\ at = "item" /\ at' = "items" /\ nread' = nread + 1 /\ seen' = seen
         /\ \E bs, b, c, x, h :
              /\ bs = Counted /\ blocks' = Append(bs, b) /\ calls' = Append(calls, c)
              /\ b \in BlockSet /\ c \in CallSet /\ b.type = c.type /\ b.indefinite = c.indefinite
              /\ b.type \in ItemTypes /\ b.num_items = 0 /\ c.i = 0
              /\ x \in Symbols /\ x \in DOMAIN Opens
              /\ Opens[x] = [type |-> b.type, indefinite |-> b.indefinite, last |-> "begin"]
              /\ Kept(diag, h) /\ ~Current(h).empty
              /\ Current(diag).cbor = <<>> \/ diag.eol_on_next_raw => Text(h) = Commaed(diag)
              /\ diag' = BeginLine(h, x)
<1>1. next \in {Eof} \cup Tokens(MaxCount) /\ IsDiag(diag) /\ DecodeBegin
  BY DEF DiagInv, DecodeInv, DecodeTypes, Logging, Logs, DiagDecodeBegin
<1>2. /\ at = "item" /\ at' = "items" /\ TypeOf(next) \in ItemTypes /\ nread' = nread + 1
  BY <1>1 DEF DecodeBegin, Read
<1>3. next.kind \in {"array", "array_", "map", "map_"}
  BY <1>1, <1>2, BeginTypes
<1>4. seen' = seen
  <2>1. seen' = seen \cup ({next.kind} \cap {"tag", "text_"})
    BY DEF DiagDecodeBegin, Seen
  <2> QED BY <1>3, <2>1
<1>5. PICK b, c : /\ b = Block(TypeOf(next), Indefinite(next), Size(next))
                  /\ c = Call(TypeOf(next), Indefinite(next), Size(next))
  OBVIOUS
<1>6. /\ b \in BlockSet /\ c \in CallSet /\ b.type = TypeOf(next)
      /\ b.indefinite = Indefinite(next) /\ b.num_items = 0 /\ c.type = TypeOf(next)
      /\ c.indefinite = Indefinite(next) /\ c.i = 0
  <2>1. b \in BlockSet /\ c \in CallSet
    BY <1>1, <1>2, <1>5, BeginTypes
  <2> QED BY <1>5, <2>1 DEF Block, Call
<1>7. blocks' = Append(Counted, b) /\ calls' = Append(calls, c)
  BY <1>1, <1>5 DEF DecodeBegin, Size
<1>8. PICK x : x = Bracket[next.kind]
  OBVIOUS
<1>9. /\ x \in Symbols /\ x \in DOMAIN Opens
      /\ Opens[x] = [type |-> b.type, indefinite |-> b.indefinite, last |-> "begin"]
  BY <1>1, <1>2, <1>6, <1>8, BracketOf
<1>10. PICK more \in BOOLEAN : diag' = Indent(Eol(LogCbor(Predecode(diag, more), x), FALSE))
  <2>1. PICK more \in IF Indefinite(next) THEN {FALSE} ELSE BOOLEAN :
          diag' = Indent(Eol(LogCbor(Predecode(diag, more), x), FALSE))
    BY <1>8, Zenon DEF DiagDecodeBegin
  <2>2. more \in BOOLEAN
    OBVIOUS
  <2> QED BY <2>1, <2>2, Zenon
<1>11. PICK h : h = Predecode(diag, more)
  OBVIOUS
<1>12. /\ Kept(diag, h) /\ ~Current(h).empty
       /\ Current(diag).cbor = <<>> \/ diag.eol_on_next_raw => Text(h) = Commaed(diag)
  BY <1>1, <1>11, PredecodeFacts
<1>13. \E bs : bs = Counted
  OBVIOUS
<1>14. b.type = c.type /\ b.indefinite = c.indefinite /\ b.type \in ItemTypes
  BY <1>2, <1>6
<1>15. diag' = BeginLine(h, x)
  BY <1>10, <1>11, Zenon DEF BeginLine
<1> QED BY <1>2, <1>4, <1>6, <1>7, <1>9, <1>12, <1>13, <1>14, <1>15, Zenon

\* decode_item begins an array or a map.
LEMMA BeginStep == ASSUME DiagInv, DiagDecodeBegin PROVE Logging'
<1>1. Logs /\ DecodeTypes
  BY DEF DiagInv, Logging, DecodeInv
<1>2. at = "item" /\ at' = "items" /\ nread' = nread + 1 /\ seen' = seen
  BY BeginIs
<1>3. PICK bs, b, c, x, h :
        /\ bs = Counted /\ blocks' = Append(bs, b) /\ calls' = Append(calls, c)
        /\ b \in BlockSet /\ c \in CallSet /\ b.type = c.type /\ b.indefinite = c.indefinite
        /\ b.type \in ItemTypes /\ b.num_items = 0 /\ c.i = 0
        /\ x \in Symbols /\ x \in DOMAIN Opens
        /\ Opens[x] = [type |-> b.type, indefinite |-> b.indefinite, last |-> "begin"]
        /\ Kept(diag, h) /\ ~Current(h).empty
        /\ Current(diag).cbor = <<>> \/ diag.eol_on_next_raw => Text(h) = Commaed(diag)
        /\ diag' = BeginLine(h, x)
  BY BeginIs
<1>4. PICK n, ds, es, e : n = Inner /\ ds = blocks' /\ es = calls' /\ e = diag'
  OBVIOUS
<1>5. /\ blocks \in Seq(BlockSet) /\ Len(blocks) \in Nat /\ Len(blocks) # 0 /\ n \in Nat
      /\ Len(blocks) = n + 1 /\ TopBlock = blocks[n + 1]
      /\ calls \in Seq(CallSet) /\ Len(calls) \in Nat
  BY <1>1, <1>4, BlocksAre
<1>6. /\ bs \in Seq(BlockSet) /\ Len(bs) = Len(blocks)
      /\ \A k \in 1..Len(blocks) :
           bs[k] = IF k = Len(blocks) THEN One(blocks[Len(blocks)]) ELSE blocks[k]
  BY <1>1, <1>3, CountedBlocks DEF One, TopBlock
<1>7. IsDiag(diag) /\ Rooted(blocks) /\ seen \subseteq {"tag", "text_"}
      /\ (diag.aborted => seen = {"tag", "text_"})
  BY <1>1 DEF Logs
<1>8. /\ ds \in Seq(BlockSet) /\ Len(ds) = Len(blocks) + 1 /\ Rooted(ds) /\ ds[Len(ds)] = b
      /\ \A k \in 1..Len(blocks) : ds[k] = bs[k]
      /\ \A k \in 1..Len(blocks) - 1 : k \in BlockKeys(blocks) <=> k \in BlockKeys(ds)
      /\ Len(blocks) \notin BlockKeys(ds)
  <2>1. ds = Append(bs, b) /\ b \in BlockSet /\ b.type \in ItemTypes /\ b.num_items = 0
    BY <1>3, <1>4
  <2>2. PICK bs0 : bs0 = blocks
    OBVIOUS
  <2>3. BlockEntered(bs0, bs, b, ds)
    BY <1>5, <1>6, <1>7, <2>1, <2>2 DEF BlockEntered
  <2>4. /\ ds \in Seq(BlockSet) /\ Len(ds) = Len(bs0) + 1 /\ Rooted(ds) /\ ds[Len(ds)] = b
        /\ \A k \in 1..Len(bs0) : ds[k] = bs[k]
        /\ \A k \in 1..Len(bs0) - 1 : k \in BlockKeys(bs0) <=> k \in BlockKeys(ds)
        /\ Len(bs0) \notin BlockKeys(ds)
    BY ONLY <2>3, KeysEntered, Zenon
  <2> QED BY <2>2, <2>4
<1>9. Inner' = n + 1
  <2>1. Len(ds) - 1 = n + 1
    BY <1>5, <1>8
  <2> QED BY <1>4, <2>1 DEF Inner
<1>10. /\ IsDiag(e) /\ e.eol_on_next_raw /\ ~Pending(e) /\ e.aborted = diag.aborted
       /\ Text(e) = ReadSymbol(Text(h), x)
       /\ Current(e).indent_level = Current(diag).indent_level + 1
  <2>1. PICK d : d = diag
    OBVIOUS
  <2>2. /\ IsDiag(d) /\ Kept(d, h) /\ x \in Symbols
        /\ e = BeginLine(h, x)
    BY <1>3, <1>4, <1>7, <2>1
  <2>3. /\ IsDiag(e) /\ e.eol_on_next_raw /\ ~Pending(e) /\ e.aborted = d.aborted
        /\ Text(e) = ReadSymbol(Text(h), x)
        /\ Current(e).indent_level = Current(d).indent_level + 1
    BY ONLY <2>2, BeginLogged
  <2> QED BY <2>1, <2>3
<1>11. /\ "text_" \notin seen => Deep(diag, n, BlockKeys(blocks), seen = {})
       /\ "tag" \notin seen =>
            /\ Len(calls) = n /\ LoopsAt(blocks, calls, n, FALSE, FALSE)
            /\ Deep(diag, n, LoopKeys(calls, n, FALSE), FALSE)
       /\ seen = {} =>
            /\ Tracks(Text(diag), blocks, FALSE) /\ Text(diag).tokens = nread
            /\ Pending(diag) <=> LastIn(TopBlock, FALSE) = "value"
            /\ Current(diag).cbor = <<>> \/ diag.eol_on_next_raw
            /\ \A k \in 1..Len(blocks) : k < Len(blocks) => blocks[k].num_items # 0
  BY <1>2, <1>4, ItemDeep
<1>12. Logs'
  BY <1>2, <1>4, <1>7, <1>8, <1>10 DEF Logs
<1>13. BlocksDeep'
  <2> SUFFICES ASSUME "text_" \notin seen PROVE Deep(e, n + 1, BlockKeys(ds), seen = {})
    BY <1>2, <1>4, <1>9 DEF BlocksDeep
  <2>1. PICK exact : exact = (seen = {})
    OBVIOUS
  <2>2. Deep(diag, n, BlockKeys(blocks), exact)
    BY <1>11, <2>1
  <2>3. PICK K, L : K = BlockKeys(blocks) /\ L = BlockKeys(ds)
    OBVIOUS
  <2>4. (\A k \in 1..n : k \in K <=> k \in L) /\ n + 1 \notin L
    BY <1>5, <1>8, <2>3
  <2>5. Deep(e, n + 1, L, exact)
    BY <1>5, <1>7, <1>10, <2>2, <2>3, <2>4, DeepEntered
  <2> QED BY <2>1, <2>3, <2>5
<1>14. CallsDeep'
  <2>1. PICK no \in BOOLEAN : no = FALSE
    OBVIOUS
  <2>2. ASSUME "tag" \notin seen
        PROVE  /\ Len(es) = n + 1 /\ LoopsAt(ds, es, n + 1, FALSE, FALSE)
               /\ Deep(e, n + 1, LoopKeys(es, n + 1, FALSE), FALSE)
    <3>1. /\ Len(calls) = n /\ LoopsAt(blocks, calls, n, FALSE, FALSE)
          /\ Deep(diag, n, LoopKeys(calls, n, FALSE), FALSE)
      BY <1>11, <2>2
    <3>2. ds = Append(bs, b) /\ es = Append(calls, c)
      BY <1>3, <1>4
    <3>3. /\ LoopsAt(ds, es, n + 1, FALSE, FALSE) /\ Len(es) = n + 1
          /\ \A k \in 1..n : k \in LoopKeys(calls, n, FALSE) <=> k \in LoopKeys(es, n + 1, FALSE)
          /\ n + 1 \notin LoopKeys(es, n + 1, FALSE)
      <4>1. PICK bs0, cs0 : bs0 = blocks /\ cs0 = calls
        OBVIOUS
      <4>2. LoopsAt(bs0, cs0, n, FALSE, FALSE)
        BY <3>1, <4>1, Zenon
      <4>3. LoopEntered(n, bs0, bs, b, ds, cs0, c, es)
        BY <1>3, <1>5, <1>6, <1>7, <3>1, <3>2, <4>1, <4>2 DEF LoopEntered
      <4>4. /\ LoopsAt(ds, es, n + 1, FALSE, FALSE) /\ Len(es) = n + 1
            /\ \A k \in 1..n : k \in LoopKeys(cs0, n, FALSE) <=> k \in LoopKeys(es, n + 1, FALSE)
            /\ n + 1 \notin LoopKeys(es, n + 1, FALSE)
        BY ONLY <4>3, LoopsBegun, Zenon
      <4> QED BY <4>1, <4>4, Zenon
    <3>4. PICK K, L : K = LoopKeys(calls, n, FALSE) /\ L = LoopKeys(es, n + 1, FALSE)
      OBVIOUS
    <3>5. (\A k \in 1..n : k \in K <=> k \in L) /\ n + 1 \notin L
      BY <3>3, <3>4, Zenon
    <3>6. Deep(diag, n, K, no)
      BY <2>1, <3>1, <3>4, Zenon
    <3>7. Deep(e, n + 1, L, no)
      BY <1>5, <1>7, <1>10, <3>5, <3>6, DeepEntered
    <3>8. Deep(e, n + 1, LoopKeys(es, n + 1, FALSE), FALSE)
      BY <2>1, <3>4, <3>7, Zenon
    <3> QED BY <3>3, <3>8
  <2>3. no <=> at' = "return"
    BY <1>2, <2>1
  <2>4. "tag" \notin seen' =>
           /\ Len(calls') = Inner' + IF at' = "chunks" THEN 1 ELSE 0
           /\ LoopsAt(blocks', calls', Inner', no, no)
           /\ Deep(diag', Inner', LoopKeys(calls', Inner', no), FALSE)
    <3>1. Len(es) = n + 1 => Len(calls') = Inner' + IF at' = "chunks" THEN 1 ELSE 0
      BY <1>2, <1>4, <1>5, <1>9
    <3>2. "tag" \notin seen =>
            /\ LoopsAt(blocks', calls', Inner', no, no)
            /\ Deep(diag', Inner', LoopKeys(calls', Inner', no), FALSE)
      BY <1>4, <1>9, <2>1, <2>2, Zenon
    <3> QED BY <1>2, <2>2, <3>1, <3>2
  <2> QED BY <2>1, <2>3, <2>4, CallsWillBe
<1>15. Reading'
  <2> SUFFICES ASSUME seen = {}
               PROVE  /\ Tracks(Text(e), ds, FALSE) /\ Text(e).tokens = nread + 1
                      /\ LastIn(b, FALSE) # "value"
                      /\ \A k \in 1..Len(ds) : k < Len(ds) => ds[k].num_items # 0
    <3>1. TopBlock' = b
      BY <1>4, <1>8 DEF TopBlock
    <3> QED BY <1>2, <1>4, <1>10, <3>1 DEF Reading, WholeText
  <2>1. /\ Tracks(Text(diag), blocks, FALSE) /\ Text(diag).tokens = nread
        /\ Pending(diag) <=> LastIn(TopBlock, FALSE) = "value"
        /\ Current(diag).cbor = <<>> \/ diag.eol_on_next_raw
        /\ \A k \in 1..Len(blocks) : k < Len(blocks) => blocks[k].num_items # 0
    BY <1>11
  <2>2. Text(h) = Commaed(diag) /\ TopBlock = blocks[Len(blocks)] /\ IsDiag(h)
    BY <1>3, <1>5, <2>1 DEF Kept
  <2>3. PICK d, bs0 : d = diag /\ bs0 = blocks
    OBVIOUS
  <2>4. BlockLogged(d, h, bs0, bs, x, b, e)
    BY <1>3, <1>5, <1>6, <1>7, <1>10, <2>1, <2>2, <2>3 DEF BlockLogged
  <2>5. Tracks(Text(e), Append(bs, b), FALSE) /\ Text(e).tokens = Text(d).tokens + 1
    BY <2>4, BlockOpened, Zenon
  <2>6. ds = Append(bs, b)
    BY <1>3, <1>4
  <2>7. LastIn(b, FALSE) # "value"
    BY <1>3 DEF LastIn
  <2>8. ASSUME NEW k \in 1..Len(ds), k < Len(ds) PROVE ds[k].num_items # 0
    <3>1. k \in 1..Len(blocks)
      BY <1>5, <1>8, <2>8
    <3>2. CASE k = Len(blocks)
      <4>1. blocks[Len(blocks)] \in BlockSet
        BY <1>5, <3>1, <3>2, ElementOf
      <4> QED BY <1>6, <1>8, <3>1, <3>2, <4>1, OneMore
    <3>3. CASE k # Len(blocks)
      <4>1. k < Len(blocks)
        BY <1>5, <3>1, <3>3
      <4> QED BY <1>6, <1>8, <2>1, <3>1, <3>3, <4>1
    <3> QED BY <3>2, <3>3
  <2> QED BY <2>1, <2>3, <2>5, <2>6, <2>7, <2>8
<1>16. Printed'
  BY <1>2 DEF Printed
<1> QED BY <1>12, <1>13, <1>14, <1>15, <1>16 DEF Logging

\* An error ends the process; only that the assertion had not failed is left to say.
\* The item that has been due is finished.
LEMMA FinishedIn ==
  ASSUME NEW d, IsDiag(d), NEW f, Kept(d, f), ~Current(f).empty, NEW b \in BlockSet,
         NEW n \in Nat, NEW K, NEW L, Finishes(n, K, L, b), NEW exact, Deep(d, n, K, exact)
  PROVE  FinishItem(f, b).aborted = d.aborted /\ Deep(FinishItem(f, b), n, L, exact)
<1>1. Deep(f, n, K, exact) /\ f.aborted = d.aborted /\ IsDiag(f)
  BY DeepKept DEF Kept
<1> QED BY <1>1, FinishedDepth DEF Finishes

\* decode_item begins a string of indefinite length.
LEMMA StringStep == ASSUME DiagInv, DiagDecodeString PROVE Logging'
<1>1. Logs /\ DecodeTypes /\ DecodeString
  BY DEF DiagInv, Logging, DecodeInv, DiagDecodeString
<1>2. PICK c : c = Call(TypeOf(next), TRUE, 0)
  OBVIOUS
<1>3. /\ at = "item" /\ at' = "chunks" /\ blocks' = Counted /\ calls' = Append(calls, c)
      /\ seen' = seen \cup {"text_"} /\ c \in CallSet
  <2>1. next.kind = "text_" /\ seen' = seen \cup ({next.kind} \cap {"tag", "text_"})
    BY <1>1 DEF DecodeString, DiagDecodeString, Seen
  <2>2. seen' = seen \cup {"text_"} /\ TypeOf(next) = "text"
    BY <2>1 DEF TypeOf
  <2>3. c \in CallSet
    BY <1>2, <2>2 DEF Call, CallSet
  <2> QED BY <1>1, <1>2, <2>2, <2>3 DEF DecodeString
<1>4. PICK n, ds, es, e : n = Inner /\ ds = blocks' /\ es = calls' /\ e = diag'
  OBVIOUS
<1>5. /\ blocks \in Seq(BlockSet) /\ Len(blocks) # 0 /\ n \in Nat /\ Len(blocks) = n + 1
      /\ calls \in Seq(CallSet) /\ Len(calls) \in Nat
  BY <1>1, <1>4, BlocksAre
<1>6. /\ ds \in Seq(BlockSet) /\ Len(ds) = Len(blocks) /\ Inner' = n
      /\ \A k \in 1..Len(blocks) :
           ds[k] = IF k = Len(blocks) THEN One(blocks[Len(blocks)]) ELSE blocks[k]
  BY <1>1, <1>3, <1>4, CountedIs
<1>7. IsDiag(diag) /\ Rooted(blocks) /\ seen \subseteq {"tag", "text_"} /\ ~diag.aborted
  BY <1>1 DEF Logs, DiagDecodeString, Running
<1>8. Kept(diag, e)
  <2>1. PICK no \in BOOLEAN : no = FALSE
    OBVIOUS
  <2>2. e = Predecode(diag, no)
    BY <1>4, <2>1, Zenon DEF DiagDecodeString
  <2> QED BY <1>7, <2>2, PredecodeFacts
<1>9. Rooted(ds)
  BY <1>5, <1>6, <1>7, KeysCounted
<1>10. Logs'
  <2>1. IsDiag(e) /\ ~e.aborted
    BY <1>7, <1>8 DEF Kept
  <2> QED BY <1>3, <1>4, <1>7, <1>9, <2>1 DEF Logs
<1>11. CallsDeep'
  <2>1. PICK yes, no : yes = TRUE /\ no = FALSE
    OBVIOUS
  <2>2. yes \in BOOLEAN /\ no \in BOOLEAN
    BY <2>1
  <2>3. ASSUME "tag" \notin seen
        PROVE  /\ Len(es) = n + 1 /\ LoopsAt(ds, es, n, FALSE, TRUE)
               /\ Deep(e, n, LoopKeys(es, n, FALSE), FALSE)
    <3>1. /\ Len(calls) = n /\ LoopsAt(blocks, calls, n, FALSE, FALSE)
          /\ Deep(diag, n, LoopKeys(calls, n, FALSE), FALSE)
      BY <1>3, <1>4, <2>3, ItemDeep
    <3>2. Len(es) = n + 1 /\ \A k \in 1..n : es[k] = calls[k]
      <4>1. es = Append(calls, c)
        BY <1>3, <1>4
      <4> QED BY <1>3, <1>5, <3>1, <4>1, AppendProperties
    <3>3. PICK bs, cs, K, L : /\ bs = blocks /\ cs = calls
                              /\ K = LoopKeys(calls, n, FALSE) /\ L = LoopKeys(es, n, FALSE)
      OBVIOUS
    <3>4. LoopsAt(bs, cs, n, FALSE, FALSE)
      BY <3>1, <3>3, Zenon
    <3>5. /\ LoopsAt(ds, es, n, FALSE, TRUE)
          /\ \A k \in 1..n : k \in LoopKeys(cs, n, FALSE) <=> k \in LoopKeys(es, n, FALSE)
      BY <1>5, <1>6, <3>2, <3>3, <3>4, LoopsLoosened
    <3>6. \A k \in 1..n : k \in K <=> k \in L
      BY <3>3, <3>5, Zenon
    <3>7. Deep(e, n, K, no)
      <4>1. Deep(diag, n, K, no)
        BY <2>1, <3>1, <3>3, Zenon
      <4> QED BY <1>8, <4>1, DeepKept
    <3>8. Deep(e, n, L, no)
      BY <1>5, <3>6, <3>7, DeepSame
    <3>9. Deep(e, n, LoopKeys(es, n, FALSE), FALSE)
      BY <2>1, <3>3, <3>8, Zenon
    <3> QED BY <3>2, <3>5, <3>9
  <2>4. no <=> at' = "return"
    BY <1>3, <2>1
  <2>5. yes => "text_" \in seen' /\ (at' = "chunks" \/ Stuck')
    BY <1>3
  <2>6. "tag" \notin seen' =>
          /\ Len(calls') = Inner' + IF at' = "chunks" THEN 1 ELSE 0
          /\ LoopsAt(blocks', calls', Inner', no, yes)
          /\ Deep(diag', Inner', LoopKeys(calls', Inner', no), FALSE)
    <3>1. "tag" \notin seen' => "tag" \notin seen
      BY <1>3
    <3>2. "tag" \notin seen =>
            /\ LoopsAt(blocks', calls', Inner', no, yes)
            /\ Deep(diag', Inner', LoopKeys(calls', Inner', no), FALSE)
      BY <1>4, <1>6, <2>1, <2>3, Zenon
    <3>3. "tag" \notin seen => Len(calls') = Inner' + IF at' = "chunks" THEN 1 ELSE 0
      BY <1>3, <1>4, <1>5, <1>6, <2>3
    <3> QED BY <3>1, <3>2, <3>3
  <2> QED BY <2>2, <2>4, <2>5, <2>6, CallsWillBe
<1>12. BlocksDeep' /\ Reading' /\ Printed'
  BY <1>3 DEF BlocksDeep, Reading, Printed, Steady
<1> QED BY <1>10, <1>11, <1>12 DEF Logging

\* decode_item reads a tag and calls itself, or refuses the tag.
LEMMA TagStep == ASSUME DiagInv, DiagDecodeTag PROVE Logging'
<1>1. Logs /\ DecodeTypes /\ DecodeTag
  BY DEF DiagInv, Logging, DecodeInv, DiagDecodeTag
<1>2. /\ at = "item" /\ at' \in {"item", "NB_ERR_RANGE"} /\ blocks' = Counted
      /\ seen' = seen \cup {"tag"} /\ next.kind = "tag"
  <2>1. next.kind = "tag" /\ seen' = seen \cup ({next.kind} \cap {"tag", "text_"})
    BY <1>1 DEF DecodeTag, DiagDecodeTag, Seen
  <2>2. seen' = seen \cup {"tag"}
    BY <2>1
  <2> QED BY <1>1, <2>1, <2>2 DEF DecodeTag
<1>3. PICK n, ds, b : n = Inner /\ ds = blocks' /\ b = ds[Len(ds)]
  OBVIOUS
<1>4. /\ blocks \in Seq(BlockSet) /\ Len(blocks) # 0 /\ n \in Nat /\ Len(blocks) = n + 1
  BY <1>1, <1>3, BlocksAre
<1>5. /\ ds \in Seq(BlockSet) /\ Len(ds) = Len(blocks) /\ Inner' = n
      /\ \A k \in 1..Len(blocks) :
           ds[k] = IF k = Len(blocks) THEN One(blocks[Len(blocks)]) ELSE blocks[k]
      /\ Last(blocks') = b
  BY <1>1, <1>2, <1>3, CountedIs
<1>6. IsDiag(diag) /\ Rooted(blocks) /\ seen \subseteq {"tag", "text_"} /\ ~diag.aborted
  BY <1>1 DEF Logs, DiagDecodeTag, Running
<1>7. Rooted(ds) /\ b \in BlockSet /\ Finishes(n, BlockKeys(blocks), BlockKeys(ds), b)
  <2>1. PICK bs : bs = blocks
    OBVIOUS
  <2>2. Rooted(ds) /\ b \in BlockSet /\ Finishes(Len(bs) - 1, BlockKeys(bs), BlockKeys(ds), b)
    BY <1>3, <1>4, <1>5, <1>6, <2>1, KeysCounted
  <2>3. Len(bs) - 1 = n
    BY <1>4, <2>1
  <2> QED BY <2>1, <2>2, <2>3
<1>8. PICK more \in BOOLEAN : diag' = Logged(diag, next, more, b)
  BY <1>5, Zenon DEF DiagDecodeTag
<1>9. PICK h : h = Predecode(diag, more)
  OBVIOUS
<1>10. Kept(diag, h) /\ ~Current(h).empty /\ IsDiag(h)
  BY <1>6, <1>9, PredecodeFacts DEF Kept
<1>11. diag' = FinishItem(h, b)
  BY <1>2, <1>8, <1>9 DEF Logged
<1>12. IsDiag(diag')
  BY <1>7, <1>10, <1>11, FinishItemFacts
<1>13. ASSUME "text_" \notin seen
       PROVE  ~diag'.aborted /\ Deep(diag', n, BlockKeys(ds), FALSE)
  <2>1. PICK no : no = FALSE
    OBVIOUS
  <2>2. PICK K, L : K = BlockKeys(blocks) /\ L = BlockKeys(ds)
    OBVIOUS
  <2>3. Deep(diag, n, K, no)
    <3>1. Deep(diag, n, K, seen = {})
      BY <1>2, <1>3, <1>13, <2>2, ItemDeep
    <3> QED BY <2>1, <3>1 DEF Deep
  <2>4. Finishes(n, K, L, b)
    BY <1>7, <2>2
  <2>5. diag'.aborted = diag.aborted /\ Deep(diag', n, L, no)
    BY <1>4, <1>6, <1>7, <1>10, <1>11, <2>3, <2>4, FinishedIn
  <2>6. ~diag'.aborted
    BY <1>6, <2>5
  <2> QED BY <2>1, <2>2, <2>5, <2>6, Zenon
<1>14. Logs'
  BY <1>2, <1>3, <1>6, <1>7, <1>12, <1>13 DEF Logs
<1>15. BlocksDeep'
  <2>1. (seen' = {}) = FALSE
    BY <1>2
  <2>2. "text_" \notin seen' => Deep(diag', n, BlockKeys(ds), FALSE)
    BY <1>2, <1>13
  <2>3. "text_" \notin seen' => Deep(diag', n, BlockKeys(ds), seen' = {})
    BY <2>1, <2>2, Zenon
  <2> QED BY <1>3, <1>5, <2>3 DEF BlocksDeep
<1>16. CallsDeep' /\ Reading' /\ Printed'
  BY <1>2 DEF CallsDeep, Reading, Printed
<1> QED BY <1>14, <1>15, <1>16 DEF Logging

\* decode_item gives up.
LEMMA UnsupportedStep == ASSUME DiagInv, DiagDecodeUnsupported PROVE Logging'
<1>1. Logs /\ DecodeTypes /\ at' = "NB_ERR_UNSUP"
  BY DEF DiagInv, Logging, DecodeInv, DiagDecodeUnsupported, DecodeUnsupported
<1>2. IsDiag(diag) /\ Rooted(blocks) /\ seen \subseteq {"tag", "text_"} /\ ~diag.aborted
  BY <1>1 DEF Logs, DiagDecodeUnsupported, Running
<1>3. Rooted(blocks') /\ IsDiag(diag') /\ ~diag'.aborted /\ seen' = seen
  <2>1. CASE next.kind = "other"
    <3>1. blocks' = Counted
      <4>1. ~IsBreak /\ next # Eof
        BY <2>1 DEF IsBreak, Eof, Token
      <4> QED BY <4>1 DEF DiagDecodeUnsupported, DecodeUnsupported
    <3>2. Rooted(blocks')
      BY <1>1, <1>2, <3>1, BlocksAre, CountedIs, KeysCounted
    <3>3. seen' = seen
      <4>1. seen' = seen \cup ({next.kind} \cap {"tag", "text_"})
        BY <2>1 DEF DiagDecodeUnsupported, Seen
      <4> QED BY <2>1, <4>1
    <3>4. PICK yes \in BOOLEAN : yes = TRUE
      OBVIOUS
    <3>5. diag' = Predecode(diag, yes)
      BY <2>1, <3>4, Zenon DEF DiagDecodeUnsupported
    <3>6. Kept(diag, diag')
      BY <1>2, <3>5, PredecodeFacts
    <3> QED BY <1>2, <3>2, <3>3, <3>6 DEF Kept
  <2>2. CASE next.kind # "other"
    <3>1. blocks' = blocks /\ diag' = diag /\ seen' = seen
      BY <2>2 DEF DiagDecodeUnsupported, DecodeUnsupported
    <3> QED BY <1>2, <3>1
  <2> QED BY <2>1, <2>2
<1>4. Logs'
  BY <1>1, <1>2, <1>3 DEF Logs
<1> QED BY <1>1, <1>4, OnlyLogs DEF Steady

\* The decoder goes on without a byte being read or a line being written.
LEMMA NextItemStep == ASSUME DiagInv, DiagNextItem PROVE Logging'
<1>1. Logs /\ BlocksDeep /\ CallsDeep /\ Reading
  BY DEF DiagInv, Logging
<1>2. /\ at = "items" /\ at' \in {"item", "end"} /\ blocks' = blocks /\ calls' = calls
      /\ nread' = nread /\ next' = next /\ seen' = seen /\ diag' = diag
      /\ IsBreak => at' = "end"
  BY DEF DiagNextItem, NextItem, Unread
<1>3. Inner' = Inner /\ WholeText' = WholeText /\ TopBlock' = TopBlock /\ (IsBreak' <=> IsBreak)
  BY <1>2 DEF Inner, WholeText, TopBlock, IsBreak
<1>4. Stuck' <=> Stuck
  BY <1>2, <1>3 DEF Stuck
<1>5. at \in Steady /\ at' \in Steady /\ at # "return" /\ at' # "return" /\ at' # "chunks"
  BY <1>2 DEF Steady
<1>6. Logs'
  BY <1>1, <1>2, <1>5 DEF Logs
<1>7. BlocksDeep'
  BY <1>1, <1>2, <1>3, <1>5 DEF BlocksDeep
<1>8. CallsDeep'
  <2>1. PICK no \in BOOLEAN : no = FALSE
    OBVIOUS
  <2>2. PICK stuck \in BOOLEAN : stuck = ("text_" \in seen /\ (at = "chunks" \/ Stuck))
    OBVIOUS
  <2>3. (at = "return") = no
    BY <1>5, <2>1
  <2>4. ASSUME "tag" \notin seen
        PROVE  /\ Len(calls) = Inner + IF at = "chunks" THEN 1 ELSE 0
               /\ LoopsAt(blocks, calls, Inner, no, stuck)
               /\ (Stuck /\ Inner \in LoopKeys(calls, Inner, no)) \/ Deep(diag, Inner, LoopKeys(calls, Inner, no), FALSE)
    BY <1>1, <1>5, <2>2, <2>3, <2>4, Zenon DEF CallsDeep
  <2>5. no <=> at' = "return"
    BY <1>5, <2>1
  <2>6. stuck => "text_" \in seen' /\ (at' = "chunks" \/ Stuck')
    BY <1>2, <1>4, <2>2
  <2>7. "tag" \notin seen' =>
           /\ Len(calls') = Inner' + IF at' = "chunks" THEN 1 ELSE 0
           /\ LoopsAt(blocks', calls', Inner', no, stuck)
           /\ \/ Stuck' /\ Inner' \in LoopKeys(calls', Inner', no)
              \/ Deep(diag', Inner', LoopKeys(calls', Inner', no), FALSE)
    <3>1. (IF at = "chunks" THEN 1 ELSE 0) = (IF at' = "chunks" THEN 1 ELSE 0)
      BY <1>2
    <3> QED BY <1>2, <1>3, <1>4, <2>4, <3>1, Zenon
  <2> QED BY <2>5, <2>6, <2>7, CallsWillBe
<1>9. Reading'
  BY <1>1, <1>2, <1>3, <1>5 DEF Reading
<1>10. Printed'
  BY <1>2 DEF Printed
<1> QED BY <1>6, <1>7, <1>8, <1>9, <1>10 DEF Logging

\* What has been kept back is printed.
LEMMA FinishStep == ASSUME DiagInv, DiagFinish PROVE Logging'
<1>1. Logs /\ Reading
  BY DEF DiagInv, Logging
<1>2. /\ at = "item" /\ at' = "finished" /\ blocks' = blocks /\ nread' = nread /\ seen' = seen
      /\ diag' = Flush(diag) /\ ~diag.aborted
  BY DEF DiagFinish, Finish, Unread, Running
<1>3. Kept(diag, diag') /\ Text(diag') = Text(diag) /\ diag'.reader = Text(diag)
  BY <1>1, <1>2, FlushFacts DEF Logs
<1>4. Logs'
  BY <1>1, <1>2, <1>3 DEF Logs, Kept
<1>5. Printed'
  <2>1. seen = {} => Tracks(Text(diag), blocks, FALSE) /\ Text(diag).tokens = nread
    BY <1>1, <1>2 DEF Reading, WholeText, Steady
  <2> QED BY <1>2, <1>3, <2>1 DEF Printed, WholeText
<1>6. BlocksDeep' /\ CallsDeep' /\ Reading'
  BY <1>2 DEF BlocksDeep, CallsDeep, Reading, Steady
<1> QED BY <1>4, <1>5, <1>6 DEF Logging

\* cbor_decode_item returns to the stream, behind a tag's item, or to a loop.
LEMMA ReturnIs ==
  ASSUME DiagInv, DiagReturn
  PROVE  /\ at = "return" /\ blocks' = blocks /\ nread' = nread /\ next' = next /\ seen' = seen
         /\ Inner' = Inner /\ TopBlock' = TopBlock /\ (IsBreak' <=> IsBreak)
         /\ Logs /\ BlocksDeep /\ CallsDeep /\ Reading /\ DecodeTypes
         /\ IsDiag(diag) /\ ~Current(diag).empty
<1>1. /\ at = "return" /\ blocks' = blocks /\ nread' = nread /\ next' = next /\ seen' = seen
  BY DEF DiagReturn, Return, Unread
<1>2. Inner' = Inner /\ TopBlock' = TopBlock /\ (IsBreak' <=> IsBreak)
  BY <1>1 DEF Inner, TopBlock, IsBreak
<1>3. Logs /\ BlocksDeep /\ CallsDeep /\ Reading /\ DecodeTypes
  BY DEF DiagInv, Logging, DecodeInv
<1> QED BY <1>1, <1>2, <1>3 DEF Logs

\* The loops when an item has been read.
LEMMA ReturnDeep ==
  ASSUME DiagInv, at = "return", "tag" \notin seen
  PROVE  LET keys == LoopKeys(calls, Inner, TRUE)
         IN  /\ Len(calls) = Inner /\ LoopsAt(blocks, calls, Inner, TRUE, "text_" \in seen /\ IsBreak)
             /\ (IsBreak /\ Inner \in keys) \/ Deep(diag, Inner, keys, FALSE)
<1>1. CallsDeep /\ Inner \in Nat
  BY BlocksAre DEF DiagInv, Logging, DecodeInv
<1>2. at \in Steady /\ at # "chunks" /\ (at = "return") = TRUE /\ (Stuck <=> IsBreak)
  BY DEF Steady, Stuck
<1>3. PICK yes : yes = TRUE
  OBVIOUS
<1>4. (at = "return") = yes
  BY <1>2, <1>3
<1>5. ("text_" \in seen /\ (at = "chunks" \/ Stuck)) = ("text_" \in seen /\ IsBreak)
  BY <1>2
<1>6. /\ Len(calls) = Inner + 0
      /\ LoopsAt(blocks, calls, Inner, yes, "text_" \in seen /\ IsBreak)
      /\ \/ Stuck /\ Inner \in LoopKeys(calls, Inner, yes)
         \/ Deep(diag, Inner, LoopKeys(calls, Inner, yes), FALSE)
  BY <1>1, <1>2, <1>4, <1>5, Zenon DEF CallsDeep
<1>7. Len(calls) = Inner
  BY <1>1, <1>6
<1> QED BY <1>2, <1>3, <1>6, <1>7, Zenon

\* decode_item returns to the loop over the stream.
LEMMA ReturnToStream == ASSUME DiagInv, DiagReturn, calls = <<>> PROVE Logging'
<1>1. /\ at = "return" /\ blocks' = blocks /\ nread' = nread /\ next' = next /\ seen' = seen
      /\ Inner' = Inner /\ TopBlock' = TopBlock
      /\ Logs /\ BlocksDeep /\ Reading /\ DecodeTypes
      /\ IsDiag(diag) /\ ~Current(diag).empty
  BY ReturnIs
<1>2. at' = "item" /\ calls' = <<>> /\ ~diag.aborted
  BY DEF DiagReturn, Return, Running
<1>3. PICK yes \in BOOLEAN : yes = TRUE
  OBVIOUS
<1>4. diag' = Eol(diag, yes)
  BY <1>3, Zenon DEF DiagReturn
<1>5. Kept(diag, diag') /\ Text(diag') = Text(diag) /\ diag'.eol_on_next_raw /\ Pending(diag')
  BY <1>1, <1>3, <1>4, EolFacts
<1>6. Logs'
  BY <1>1, <1>2, <1>5 DEF Logs, Kept
<1>7. BlocksDeep'
  <2>1. "text_" \notin seen => Deep(diag, Inner, BlockKeys(blocks), seen = {})
    BY <1>1 DEF BlocksDeep, Steady
  <2>2. PICK K, exact : K = BlockKeys(blocks) /\ exact = (seen = {})
    OBVIOUS
  <2>3. "text_" \notin seen => Deep(diag', Inner, K, exact)
    <3>1. "text_" \notin seen => Deep(diag, Inner, K, exact)
      BY <2>1, <2>2
    <3> QED BY <1>5, <3>1, DeepKept
  <2> QED BY <1>1, <2>2, <2>3 DEF BlocksDeep
<1>8. ASSUME "tag" \notin seen PROVE Inner = 0 /\ Deep(diag', 0, {}, FALSE)
  <2>1. PICK n, no : n = Inner /\ no = FALSE
    OBVIOUS
  <2>2. Len(calls) = Inner
    BY <1>1, <1>8, ReturnDeep
  <2>3. n = 0
    <3>1. Len(<<>>) = 0
      OBVIOUS
    <3> QED BY <2>1, <2>2, <3>1
  <2>4. Depth(0, {}) = 0
    BY DepthOfNone
  <2>5. Current(diag').indent_level \in Nat
    BY <1>5, Sides DEF Kept, LineSet
  <2> QED BY <2>1, <2>3, <2>4, <2>5 DEF Deep
<1>9. CallsDeep'
  <2>1. PICK no \in BOOLEAN : no = FALSE
    OBVIOUS
  <2>2. no <=> at' = "return"
    BY <1>2, <2>1
  <2>3. "tag" \notin seen' =>
           /\ Len(calls') = Inner' + IF at' = "chunks" THEN 1 ELSE 0
           /\ LoopsAt(blocks', calls', Inner', no, no)
           /\ Deep(diag', Inner', LoopKeys(calls', Inner', no), FALSE)
    <3>1. Len(calls') = 0
      BY <1>2
    <3>2. \A k \in 1..0 : FALSE
      OBVIOUS
    <3>3. LoopsAt(blocks', calls', 0, no, no)
      BY <3>2 DEF LoopsAt
    <3>4. LoopKeys(calls', 0, no) = {}
      BY <3>2 DEF LoopKeys
    <3>5. "tag" \notin seen => Inner' = 0 /\ Deep(diag', 0, LoopKeys(calls', 0, no), FALSE)
      BY <1>1, <1>8, <3>4, Zenon
    <3>6. "tag" \notin seen => Len(calls') = Inner' + IF at' = "chunks" THEN 1 ELSE 0
      BY <1>2, <3>1, <3>5
    <3> QED BY <1>1, <3>3, <3>5, <3>6, Zenon
  <2> QED BY <2>1, <2>2, <2>3, CallsWillBe
<1>10. Reading'
  <2> SUFFICES ASSUME seen = {}
               PROVE  /\ Tracks(Text(diag'), blocks, FALSE) /\ Text(diag').tokens = nread
                      /\ LastIn(TopBlock, FALSE) = "value"
                      /\ \A k \in 1..Len(blocks) : blocks[k].num_items # 0
    BY <1>1, <1>2, <1>5 DEF Reading, WholeText
  <2>1. /\ Tracks(Text(diag), blocks, FALSE) /\ Text(diag).tokens = nread
        /\ \A k \in 1..Len(blocks) : blocks[k].num_items # 0
    BY <1>1 DEF Reading, WholeText, Steady
  <2>2. Inner = 0 /\ Len(blocks) = Inner + 1 /\ TopBlock = blocks[Inner + 1] /\ Rooted(blocks)
    BY <1>1, <1>8, BlocksAre DEF Logs
  <2>3. TopBlock.type = "root" /\ TopBlock.num_items # 0
    <3>1. TopBlock = blocks[1] /\ 1 \in 1..Len(blocks)
      BY <2>2
    <3> QED BY <2>1, <2>2, <3>1 DEF Rooted
  <2>4. LastIn(TopBlock, FALSE) = "value"
    BY <2>3 DEF LastIn, IsKey
  <2> QED BY <1>5, <2>1, <2>4
<1>11. Printed'
  BY <1>2 DEF Printed
<1> QED BY <1>6, <1>7, <1>9, <1>10, <1>11 DEF Logging

\* decode_item returns to the item that is tagged.
LEMMA ReturnFromTag ==
  ASSUME DiagInv, DiagReturn, calls # <<>>, TopCall.type = "tag" PROVE Logging'
<1>1. /\ at = "return" /\ blocks' = blocks /\ nread' = nread /\ seen' = seen
      /\ Inner' = Inner /\ TopBlock' = TopBlock
      /\ Logs /\ BlocksDeep /\ CallsDeep /\ Reading /\ DecodeTypes
  BY ReturnIs
<1>2. at' = "return" /\ diag' = diag
  BY DEF DiagReturn, Return
<1>3. Logs' /\ BlocksDeep' /\ Reading' /\ Printed'
  BY <1>1, <1>2 DEF Logs, BlocksDeep, Reading, WholeText, Printed
<1>4. "tag" \in seen
  <2> SUFFICES ASSUME "tag" \notin seen PROVE FALSE
    OBVIOUS
  <2>1. PICK n : n = Inner
    OBVIOUS
  <2>2. Len(calls) = n /\ LoopsAt(blocks, calls, n, TRUE, "text_" \in seen /\ IsBreak)
    BY <1>1, <2>1, ReturnDeep
  <2>3. n \in Nat /\ n # 0 /\ Len(blocks) = n + 1 /\ Rooted(blocks)
    BY <1>1, <2>1, <2>2, BlocksAre, EmptySeq DEF Logs
  <2>4. n \in 1..n /\ n + 1 \in 2..Len(blocks)
    BY <2>3
  <2>5. blocks[n + 1].type = "tag"
    BY <2>2, <2>4 DEF LoopsAt, TopCall
  <2> QED BY <2>3, <2>4, <2>5 DEF Rooted, ItemTypes
<1>5. CallsDeep'
  BY <1>1, <1>4 DEF CallsDeep
<1> QED BY <1>3, <1>5 DEF Logging

\* decode_item returns to the loop over the items of a block.
LEMMA ReturnToLoop ==
  ASSUME DiagInv, DiagReturn, calls # <<>>, TopCall.type # "tag" PROVE Logging'
<1>1. /\ at = "return" /\ blocks' = blocks /\ nread' = nread /\ seen' = seen
      /\ Inner' = Inner /\ TopBlock' = TopBlock /\ (IsBreak' <=> IsBreak)
      /\ Logs /\ BlocksDeep /\ CallsDeep /\ Reading /\ DecodeTypes
  BY ReturnIs
<1>2. at' = "items" /\ diag' = diag /\ calls' = [calls EXCEPT ![Len(calls)].i = @ + 1]
  BY DEF DiagReturn, Return
<1>3. /\ at \in Steady /\ at' \in Steady
      /\ at' # "return" /\ at' # "chunks" /\ (Stuck' <=> IsBreak)
  BY <1>1, <1>2 DEF Steady, Stuck
<1>4. Logs' /\ BlocksDeep' /\ Reading' /\ Printed'
  BY <1>1, <1>2, <1>3 DEF Logs, BlocksDeep, Reading, WholeText, Printed, Steady
<1>5. PICK n, cs, es : n = Inner /\ cs = calls /\ es = calls'
  OBVIOUS
<1>6. n \in Nat /\ cs \in Seq(CallSet)
  BY <1>1, <1>5, BlocksAre
<1>7. PICK no, stuck \in BOOLEAN : no = FALSE /\ stuck = ("text_" \in seen /\ IsBreak)
  OBVIOUS
<1>8. ASSUME "tag" \notin seen
      PROVE  /\ Len(es) = n /\ LoopsAt(blocks, es, n, FALSE, stuck)
             /\ (IsBreak /\ n \in LoopKeys(es, n, FALSE)) \/ Deep(diag, n, LoopKeys(es, n, FALSE), FALSE)
  <2>1. /\ Len(cs) = n /\ LoopsAt(blocks, cs, n, TRUE, stuck)
        /\ (IsBreak /\ n \in LoopKeys(cs, n, TRUE)) \/ Deep(diag, n, LoopKeys(cs, n, TRUE), FALSE)
    BY <1>1, <1>5, <1>7, <1>8, ReturnDeep, Zenon
  <2>2. n # 0
    BY <1>5, <1>6, <2>1, EmptySeq
  <2>3. Len(es) = n /\ \A k \in 1..n : es[k] = IF k = n THEN [cs[n] EXCEPT !.i = @ + 1] ELSE cs[k]
    BY <1>2, <1>5, <1>6, <2>1, ElementOf
  <2>4. PICK bs : bs = blocks
    OBVIOUS
  <2>5. LoopsAt(bs, cs, n, TRUE, stuck)
    BY <2>1, <2>4
  <2>6. /\ LoopsAt(bs, es, n, FALSE, stuck)
        /\ \A k \in 1..n : k \in LoopKeys(cs, n, TRUE) <=> k \in LoopKeys(es, n, FALSE)
    BY <1>6, <2>1, <2>2, <2>3, <2>5, LoopsAdvanced
  <2>7. PICK K, L : K = LoopKeys(cs, n, TRUE) /\ L = LoopKeys(es, n, FALSE)
    OBVIOUS
  <2>8. \A k \in 1..n : k \in K <=> k \in L
    BY <2>6, <2>7, Zenon
  <2>9. (IsBreak /\ n \in K) \/ Deep(diag, n, K, no)
    BY <1>7, <2>1, <2>7, Zenon
  <2>10. (IsBreak /\ n \in L) \/ Deep(diag, n, L, no)
    <3>1. n \in 1..n
      BY <1>6, <2>2
    <3> QED BY <1>6, <2>8, <2>9, <3>1, DeepSame
  <2> QED BY <1>7, <2>3, <2>4, <2>6, <2>7, <2>10, Zenon
<1>9. CallsDeep'
  <2>1. no \in BOOLEAN /\ (no <=> at' = "return")
    BY <1>3, <1>7
  <2>2. stuck => "text_" \in seen' /\ (at' = "chunks" \/ Stuck')
    BY <1>1, <1>3, <1>7
  <2>3. "tag" \notin seen' =>
           /\ Len(calls') = Inner' + IF at' = "chunks" THEN 1 ELSE 0
           /\ LoopsAt(blocks', calls', Inner', no, stuck)
           /\ \/ Stuck' /\ Inner' \in LoopKeys(calls', Inner', no)
              \/ Deep(diag', Inner', LoopKeys(calls', Inner', no), FALSE)
    <3>1. "tag" \notin seen => Len(calls') = Inner' + IF at' = "chunks" THEN 1 ELSE 0
      BY <1>1, <1>3, <1>5, <1>6, <1>8
    <3>2. "tag" \notin seen =>
            /\ LoopsAt(blocks', calls', Inner', no, stuck)
            /\ \/ Stuck' /\ Inner' \in LoopKeys(calls', Inner', no)
               \/ Deep(diag', Inner', LoopKeys(calls', Inner', no), FALSE)
      BY <1>1, <1>2, <1>3, <1>5, <1>7, <1>8, Zenon
    <3> QED BY <1>1, <3>1, <3>2
  <2> QED BY <2>1, <2>2, <2>3, CallsWillBe
<1> QED BY <1>4, <1>9 DEF Logging

\* decode_item returns.
LEMMA ReturnStep == ASSUME DiagInv, DiagReturn PROVE Logging'
  BY ReturnToStream, ReturnFromTag, ReturnToLoop

\* As FinishedIn, for what the loops have been through in place of what was counted.
LEMMA FinishedLoose ==
  ASSUME NEW d, IsDiag(d), ~Current(d).empty, NEW b \in BlockSet, NEW n \in Nat,
         n = 0 => b.type # "map", NEW K, NEW L, \A k \in 1..n : k # n => (k \in K <=> k \in L),
         n # 0 => (n \in L <=> b.type = "map" /\ n \notin K), n # 0 /\ n \in K => b.type = "map",
         NEW no, no = FALSE, Deep(d, n, K, no)
  PROVE  /\ FinishItem(d, b).aborted = d.aborted
         /\ (n # 0 /\ n \in L) \/ Deep(FinishItem(d, b), n, L, no)
<1>1. PICK e, x, y : e = FinishItem(d, b) /\ x = Current(d).indent_level /\ y = Current(e).indent_level
  OBVIOUS
<1>2. x \in Nat /\ x >= Depth(n, K)
  <2>1. x \in Nat
    BY <1>1, Sides DEF LineSet
  <2> QED BY <1>1, <2>1 DEF Deep
<1>3. n # 0 => x # 0
  BY <1>1, DeepEnough
<1>4. /\ IsDiag(e)
      /\ b.type # "map" \/ IsKey(b) \/ x # 0 => e.aborted = d.aborted
      /\ b.type # "map" => y = x
      /\ IsKey(b) => y = x + 1
      /\ b.type = "map" /\ ~IsKey(b) /\ x # 0 => y = x - 1
  BY <1>1, FinishItemFacts
<1>5. e.aborted = d.aborted
  BY <1>3, <1>4
<1>6. y \in Nat
  BY <1>1, <1>4, Sides DEF LineSet
<1>7. ASSUME n = 0 \/ n \notin L PROVE Deep(e, n, L, no)
  <2>1. CASE b.type # "map"
    <3>1. \A k \in 1..n : k \in K <=> k \in L
      BY <2>1
    <3>2. Depth(n, K) = Depth(n, L)
      BY <3>1, DepthOfSame
    <3> QED BY <1>1, <1>2, <1>4, <2>1, <3>2 DEF Deep
  <2>2. CASE b.type = "map"
    <3>1. n # 0 /\ n \in K /\ n \notin L
      BY <1>7, <2>2
    <3>2. PICK m \in Nat : n = m + 1
      BY <3>1
    <3>3. Depth(m + 1, K) = Depth(m, K) + 2 /\ Depth(m + 1, L) = Depth(m, L) + 1
      BY <3>1, <3>2, DepthOfNext
    <3>4. Depth(m, K) = Depth(m, L) /\ Depth(m, K) \in Nat
      <4>1. \A k \in 1..m : k \in 1..n /\ k # n
        BY <3>2
      <4>2. \A k \in 1..m : k \in K <=> k \in L
        BY <4>1
      <4> QED BY <4>2, DepthOfSame, DepthBounds
    <3>5. x >= Depth(m, L) + 2
      BY <1>2, <3>2, <3>3, <3>4
    <3>6. y = x - 1 \/ y = x + 1
      BY <1>3, <1>4, <2>2, <3>1
    <3>7. Depth(n, L) = Depth(m, L) + 1
      BY <3>2, <3>3
    <3>8. y >= Depth(n, L)
      BY <1>2, <3>4, <3>5, <3>6, <3>7
    <3> QED BY <1>1, <3>8 DEF Deep
  <2> QED BY <2>1, <2>2
<1> QED BY <1>1, <1>5, <1>7

\* Where a string of indefinite length is read.
LEMMA ChunkIs ==
  ASSUME DiagInv, DiagChunk
  PROVE  /\ Logs /\ DecodeTypes /\ Chunk /\ at = "chunks" /\ "text_" \in seen /\ ~diag.aborted
         /\ IsDiag(diag) /\ Rooted(blocks) /\ seen \subseteq {"tag", "text_"} /\ calls # <<>>
         /\ blocks \in Seq(BlockSet) /\ Len(blocks) # 0 /\ Inner \in Nat /\ Len(blocks) = Inner + 1
         /\ TopBlock = blocks[Inner + 1] /\ TopBlock \in BlockSet
         /\ TopBlock.type = "map" => Inner # 0
<1>1. Logs /\ DecodeTypes /\ Chunk /\ at = "chunks" /\ ~diag.aborted /\ WhereItIs
  BY DEF DiagInv, Logging, DecodeInv, DiagChunk, Chunk, Running
<1>2. /\ "text_" \in seen /\ IsDiag(diag) /\ Rooted(blocks) /\ seen \subseteq {"tag", "text_"}
      /\ calls # <<>>
  BY <1>1 DEF Logs, WhereItIs
<1>3. /\ blocks \in Seq(BlockSet) /\ Len(blocks) # 0 /\ Inner \in Nat /\ Len(blocks) = Inner + 1
      /\ TopBlock = blocks[Inner + 1] /\ TopBlock \in BlockSet
  BY <1>1, BlocksAre
<1>4. TopBlock.type = "map" => Inner # 0
  <2>1. Inner = 0 => TopBlock = blocks[1]
    BY <1>3
  <2> QED BY <1>2, <2>1 DEF Rooted
<1> QED BY <1>1, <1>2, <1>3, <1>4

\* The loops while a string of indefinite length is read.
LEMMA ChunkDeep ==
  ASSUME DiagInv, at = "chunks", "text_" \in seen, "tag" \notin seen
  PROVE  /\ Len(calls) = Inner + 1 /\ LoopsAt(blocks, calls, Inner, FALSE, TRUE)
         /\ Deep(diag, Inner, LoopKeys(calls, Inner, FALSE), FALSE)
<1>1. PICK no, yes : no = FALSE /\ yes = TRUE
  OBVIOUS
<1>2. (at = "return") = no /\ ~Stuck /\ at \in Steady \cup {"chunks"}
  BY <1>1 DEF Stuck
<1>3. ("text_" \in seen /\ (at = "chunks" \/ Stuck)) = yes
  BY <1>1
<1>4. CallsDeep
  BY DEF DiagInv, Logging
<1>5. /\ Len(calls) = Inner + IF at = "chunks" THEN 1 ELSE 0
      /\ LoopsAt(blocks, calls, Inner, no, yes)
      /\ Deep(diag, Inner, LoopKeys(calls, Inner, no), FALSE)
  BY <1>2, <1>3, <1>4, Zenon DEF CallsDeep
<1>6. Len(calls) = Inner + 1
  BY <1>5
<1> QED BY <1>1, <1>5, <1>6, Zenon

\* The break of the string is peeked at.
LEMMA ChunkEnds == ASSUME DiagInv, DiagChunk, IsBreak PROVE Logging'
<1>1. PICK n, es, e, b : n = Inner /\ es = calls' /\ e = diag' /\ b = TopBlock
  OBVIOUS
<1>2. /\ Logs /\ DecodeTypes /\ Chunk /\ at = "chunks" /\ "text_" \in seen /\ ~diag.aborted
      /\ IsDiag(diag) /\ Rooted(blocks) /\ seen \subseteq {"tag", "text_"} /\ calls # <<>>
      /\ blocks \in Seq(BlockSet) /\ Len(blocks) # 0 /\ n \in Nat /\ Len(blocks) = n + 1
      /\ b = blocks[n + 1] /\ b \in BlockSet
      /\ b.type = "map" => n # 0
  BY <1>1, ChunkIs
<1>3. /\ at' \in {"return", "crashed"} /\ blocks' = blocks /\ seen' = seen /\ next' = next
      /\ calls' = CallerOf(calls)
      /\ e = IF at' = "crashed" THEN diag ELSE FinishItem(LogCbor(diag, "v"), b)
  <2>1. next # Eof
    BY DEF IsBreak, Eof, Token
  <2> QED BY <1>1, <2>1 DEF DiagChunk, Chunk, Unread
<1>4. CASE at' = "crashed"
  <2>1. Logs'
    BY <1>1, <1>2, <1>3, <1>4 DEF Logs
  <2> QED BY <1>4, <2>1, OnlyLogs DEF Steady
<1>5. CASE at' = "return"
  <2>1. PICK f : f = LogCbor(diag, "v")
    OBVIOUS
  <2>2. Kept(diag, f) /\ IsDiag(f) /\ ~Current(f).empty /\ e = FinishItem(f, b)
    <3>1. "v" \in Symbols
      BY DEF Symbols
    <3> QED BY <1>2, <1>3, <1>5, <2>1, <3>1, LogCborFacts DEF Kept
  <2>3. IsDiag(e) /\ ~Current(e).empty
    BY <1>2, <2>2, FinishItemFacts
  <2>4. Inner' = n /\ Stuck'
    BY <1>1, <1>3, <1>5 DEF Inner, Stuck, IsBreak
  <2>5. PICK yes \in BOOLEAN : yes = TRUE
    OBVIOUS
  <2>6. PICK no \in BOOLEAN : no = FALSE
    OBVIOUS
  <2>7. ASSUME "tag" \notin seen
        PROVE  /\ ~e.aborted /\ Len(es) = n /\ LoopsAt(blocks, es, n, TRUE, TRUE)
               /\ n \in LoopKeys(es, n, TRUE) \/ Deep(e, n, LoopKeys(es, n, TRUE), FALSE)
    <3>1. /\ Len(calls) = n + 1 /\ LoopsAt(blocks, calls, n, FALSE, TRUE)
          /\ Deep(diag, n, LoopKeys(calls, n, FALSE), FALSE)
      BY <1>1, <1>2, <2>7, ChunkDeep
    <3>2. Len(es) = n /\ \A k \in 1..n : es[k] = calls[k]
      <4>1. calls \in Seq(CallSet) /\ es = SubSeq(calls, 1, Len(calls) - 1) /\ (n + 1) - 1 = n
        BY <1>1, <1>2, <1>3, BlocksAre DEF CallerOf
      <4> QED BY <1>2, <3>1, <4>1, AllButLast
    <3>3. PICK bs, cs, K, L : /\ bs = blocks /\ cs = calls
                              /\ K = LoopKeys(calls, n, FALSE) /\ L = LoopKeys(es, n, TRUE)
      OBVIOUS
    <3>4. LoopsAt(bs, cs, n, FALSE, TRUE)
      BY <3>1, <3>3, Zenon
    <3>5. /\ LoopsAt(bs, es, n, TRUE, TRUE)
          /\ \A k \in 1..n : k # n => (k \in LoopKeys(cs, n, FALSE) <=> k \in LoopKeys(es, n, TRUE))
          /\ n # 0 => (n \in LoopKeys(es, n, TRUE) <=> cs[n].type = "map" /\ n \notin LoopKeys(cs, n, FALSE))
      <4>1. n \in Nat /\ \A k \in 1..n : es[k] = cs[k]
        BY <1>2, <3>2, <3>3
      <4> QED BY ONLY <4>1, <3>4, LoopsTightened, Zenon
    <3>6. /\ \A k \in 1..n : k # n => (k \in K <=> k \in L)
          /\ n # 0 => (n \in L <=> cs[n].type = "map" /\ n \notin K)
      BY <3>3, <3>5, Zenon
    <3>7. n # 0 => b.type = cs[n].type
      <4>1. n # 0 => n \in 1..n
        BY <1>2
      <4> QED BY <1>2, <3>3, <3>4, <4>1 DEF LoopsAt
    <3>8. n # 0 /\ n \in K => b.type = "map"
      <4>1. n \in K => cs[n].type = "map"
        BY <3>3 DEF LoopKeys
      <4> QED BY <3>7, <4>1
    <3>9. Deep(f, n, K, no)
      <4>1. Deep(diag, n, K, no)
        BY <2>6, <3>1, <3>3, Zenon
      <4> QED BY <2>2, <4>1, DeepKept
    <3>10. e.aborted = f.aborted /\ ((n # 0 /\ n \in L) \/ Deep(e, n, L, no))
      BY <1>2, <2>2, <2>6, <3>6, <3>7, <3>8, <3>9, FinishedLoose
    <3>11. ~e.aborted
      BY <1>2, <2>2, <3>10 DEF Kept
    <3> QED BY <2>6, <3>2, <3>3, <3>5, <3>10, <3>11, Zenon
  <2>8. Logs'
    BY <1>1, <1>2, <1>3, <1>5, <2>3, <2>7 DEF Logs
  <2>9. CallsDeep'
    <3>1. yes <=> at' = "return"
      BY <1>5, <2>5
    <3>2. yes => "text_" \in seen' /\ (at' = "chunks" \/ Stuck')
      BY <1>2, <1>3, <2>4
    <3>3. "tag" \notin seen' =>
             /\ Len(calls') = Inner' + IF at' = "chunks" THEN 1 ELSE 0
             /\ LoopsAt(blocks', calls', Inner', yes, yes)
             /\ \/ Stuck' /\ Inner' \in LoopKeys(calls', Inner', yes)
                \/ Deep(diag', Inner', LoopKeys(calls', Inner', yes), FALSE)
      <4>1. "tag" \notin seen => Len(calls') = Inner' + IF at' = "chunks" THEN 1 ELSE 0
        BY <1>1, <1>2, <1>5, <2>4, <2>7
      <4>2. "tag" \notin seen =>
              /\ LoopsAt(blocks', calls', Inner', yes, yes)
              /\ \/ Stuck' /\ Inner' \in LoopKeys(calls', Inner', yes)
                 \/ Deep(diag', Inner', LoopKeys(calls', Inner', yes), FALSE)
        BY <1>1, <1>3, <2>4, <2>5, <2>7, Zenon
      <4> QED BY <1>3, <4>1, <4>2
    <3> QED BY <3>1, <3>2, <3>3, CallsWillBe
  <2>10. BlocksDeep' /\ Reading' /\ Printed'
    BY <1>2, <1>3 DEF BlocksDeep, Reading, Printed
  <2> QED BY <2>8, <2>9, <2>10 DEF Logging
<1> QED BY <1>3, <1>4, <1>5

\* The stream ends in a string of indefinite length.
LEMMA ChunkMissing == ASSUME DiagInv, DiagChunk, next = Eof PROVE Logging'
<1>1. Logs /\ ~IsBreak
  BY DEF DiagInv, Logging, IsBreak, Eof, Token
<1>2. at' = "NB_ERR_EOF" /\ UNCHANGED <<blocks, diag, seen>>
  BY <1>1 DEF DiagChunk, Chunk, Read
<1>3. Logs'
  BY <1>1, <1>2 DEF Logs, DiagChunk, Running
<1> QED BY <1>2, <1>3, OnlyLogs DEF Steady

\* What is logged for a chunk, or for what stands in its place.
LEMMA ChunkLogged ==
  ASSUME DiagInv, DiagChunk, ~IsBreak, next # Eof
  PROVE  /\ blocks' = Counted /\ calls' = [calls EXCEPT ![Len(calls)].i = @ + 1]
         /\ seen' = seen \cup ({next.kind} \cap {"tag", "text_"})
         /\ \/ at' = "chunks" /\ next.kind = "text"
            \/ at' \in Errors
         /\ \E more \in BOOLEAN : \E header :
              /\ header = IF at' = "NB_ERR_RANGE" THEN Predecode(diag, more)
                          ELSE Logged(diag, next, more, Last(blocks'))
              /\ diag' = IF at' = "chunks" THEN LogRaw(header) ELSE header
<1>1. /\ Chunk /\ at = "chunks" /\ TopCall.type = "text" /\ Seen
  BY DEF DiagInv, DecodeInv, WhereItIs, DiagChunk, Chunk
<1>2. /\ blocks' = Counted /\ calls' = [calls EXCEPT ![Len(calls)].i = @ + 1]
      /\ at' \in IF next.kind = TopCall.type THEN {at} ELSE Errors
  BY <1>1 DEF Chunk, Errors
<1>3. \/ at' = "chunks" /\ next.kind = "text"
      \/ at' \in Errors
  BY <1>1, <1>2
<1>4. PICK more \in IF Indefinite(next) THEN {FALSE} ELSE BOOLEAN :
        diag' = IF at' = "NB_ERR_RANGE" THEN Predecode(diag, more)
                ELSE IF at' = "chunks" THEN LogRaw(Logged(diag, next, more, Last(blocks')))
                ELSE Logged(diag, next, more, Last(blocks'))
  BY Zenon DEF DiagChunk
<1>5. more \in BOOLEAN
  OBVIOUS
<1>6. PICK header : header = IF at' = "NB_ERR_RANGE" THEN Predecode(diag, more)
                             ELSE Logged(diag, next, more, Last(blocks'))
  OBVIOUS
<1>7. at' = "chunks" => at' # "NB_ERR_RANGE"
  OBVIOUS
<1>8. diag' = IF at' = "chunks" THEN LogRaw(header) ELSE header
  BY <1>4, <1>6, <1>7
<1> QED BY <1>1, <1>2, <1>3, <1>5, <1>6, <1>8, Zenon DEF Seen

\* A chunk is read, which is counted and printed as an item of the block around it.
LEMMA ChunkRead == ASSUME DiagInv, DiagChunk, ~IsBreak, next # Eof PROVE Logging'
<1>1. PICK n, ds, es, e, b : n = Inner /\ ds = blocks' /\ es = calls' /\ e = diag' /\ b = ds[Len(ds)]
  OBVIOUS
<1>2. /\ Logs /\ DecodeTypes /\ Chunk /\ at = "chunks" /\ "text_" \in seen /\ ~diag.aborted
      /\ IsDiag(diag) /\ Rooted(blocks) /\ seen \subseteq {"tag", "text_"} /\ calls # <<>>
      /\ blocks \in Seq(BlockSet) /\ Len(blocks) # 0 /\ n \in Nat /\ Len(blocks) = n + 1
  BY <1>1, ChunkIs
<1>3. /\ ds \in Seq(BlockSet) /\ Len(ds) = Len(blocks) /\ Inner' = n
      /\ \A k \in 1..Len(blocks) :
           ds[k] = IF k = Len(blocks) THEN One(blocks[Len(blocks)]) ELSE blocks[k]
      /\ Last(blocks') = b
  BY <1>1, <1>2, ChunkLogged, CountedIs
<1>4. Rooted(ds) /\ b \in BlockSet
  BY <1>1, <1>2, <1>3, KeysCounted
<1>5. b.type = "map" => n # 0
  <2>1. n = 0 => b = ds[1]
    BY <1>1, <1>2, <1>3
  <2> QED BY <1>4, <2>1 DEF Rooted
<1>0. PICK more \in BOOLEAN :
        \E header : /\ header = IF at' = "NB_ERR_RANGE" THEN Predecode(diag, more)
                                ELSE Logged(diag, next, more, b)
                    /\ e = IF at' = "chunks" THEN LogRaw(header) ELSE header
  BY <1>1, <1>3, ChunkLogged, Zenon
<1>6. PICK header : /\ header = IF at' = "NB_ERR_RANGE" THEN Predecode(diag, more)
                                ELSE Logged(diag, next, more, b)
                    /\ e = IF at' = "chunks" THEN LogRaw(header) ELSE header
  BY <1>0
<1>7. PICK h : h = Predecode(diag, more)
  OBVIOUS
<1>8. Kept(diag, h) /\ ~Current(h).empty /\ IsDiag(h)
  BY <1>2, <1>7, PredecodeFacts DEF Kept
<1>9. CASE at' = "chunks" /\ next.kind = "text"
  <2>1. header = h
    BY <1>6, <1>7, <1>9 DEF Logged
  <2>2. Kept(diag, e)
    BY <1>6, <1>8, <1>9, <2>1, LogRawFacts DEF Kept
  <2>3. seen' = seen
    <3>1. seen' = seen \cup ({next.kind} \cap {"tag", "text_"})
      BY ChunkLogged
    <3> QED BY <1>9, <3>1
  <2>4. Logs'
    BY <1>1, <1>2, <1>4, <1>9, <2>2, <2>3 DEF Logs, Kept
  <2>5. PICK no \in BOOLEAN : no = FALSE
    OBVIOUS
  <2>6. PICK yes \in BOOLEAN : yes = TRUE
    OBVIOUS
  <2>7. ASSUME "tag" \notin seen
        PROVE  /\ Len(es) = n + 1 /\ LoopsAt(ds, es, n, FALSE, TRUE)
               /\ Deep(e, n, LoopKeys(es, n, FALSE), FALSE)
    <3>1. /\ Len(calls) = n + 1 /\ LoopsAt(blocks, calls, n, FALSE, TRUE)
          /\ Deep(diag, n, LoopKeys(calls, n, FALSE), FALSE)
      BY <1>1, <1>2, <2>7, ChunkDeep
    <3>2. Len(es) = n + 1 /\ \A k \in 1..n : es[k] = calls[k]
      <4>1. calls \in Seq(CallSet) /\ es = [calls EXCEPT ![Len(calls)].i = @ + 1]
        BY <1>1, <1>2, ChunkLogged, BlocksAre
      <4>2. \A k \in 1..n : k \in 1..Len(calls) /\ k # Len(calls)
        BY <1>2, <3>1
      <4>3. Len(es) = n + 1
        BY <3>1, <4>1
      <4>4. \A k \in 1..n : es[k] = calls[k]
        BY <4>1, <4>2
      <4> QED BY <4>3, <4>4
    <3>3. PICK bs, cs, K, L : /\ bs = blocks /\ cs = calls
                              /\ K = LoopKeys(calls, n, FALSE) /\ L = LoopKeys(es, n, FALSE)
      OBVIOUS
    <3>4. LoopsAt(bs, cs, n, FALSE, yes)
      BY <2>6, <3>1, <3>3, Zenon
    <3>5. /\ LoopsAt(ds, es, n, FALSE, TRUE)
          /\ \A k \in 1..n : k \in LoopKeys(cs, n, FALSE) <=> k \in LoopKeys(es, n, FALSE)
      BY <1>2, <1>3, <3>2, <3>3, <3>4, LoopsLoosened
    <3>6. \A k \in 1..n : k \in K <=> k \in L
      BY <3>3, <3>5, Zenon
    <3>7. Deep(e, n, K, no)
      <4>1. Deep(diag, n, K, no)
        BY <2>5, <3>1, <3>3, Zenon
      <4> QED BY <2>2, <4>1, DeepKept
    <3>8. Deep(e, n, L, no)
      BY <1>2, <3>6, <3>7, DeepSame
    <3> QED BY <2>5, <3>2, <3>3, <3>5, <3>8, Zenon
  <2>8. CallsDeep'
    <3>1. no <=> at' = "return"
      BY <1>9, <2>5
    <3>2. yes => "text_" \in seen' /\ (at' = "chunks" \/ Stuck')
      BY <1>2, <1>9, <2>3
    <3>3. "tag" \notin seen' =>
            /\ Len(calls') = Inner' + IF at' = "chunks" THEN 1 ELSE 0
            /\ LoopsAt(blocks', calls', Inner', no, yes)
            /\ Deep(diag', Inner', LoopKeys(calls', Inner', no), FALSE)
      <4>1. "tag" \notin seen => Len(calls') = Inner' + IF at' = "chunks" THEN 1 ELSE 0
        BY <1>1, <1>2, <1>3, <1>9, <2>7
      <4>2. "tag" \notin seen =>
              /\ LoopsAt(blocks', calls', Inner', no, yes)
              /\ Deep(diag', Inner', LoopKeys(calls', Inner', no), FALSE)
        BY <1>1, <1>3, <2>5, <2>6, <2>7, Zenon
      <4> QED BY <2>3, <4>1, <4>2
    <3> QED BY <3>1, <3>2, <3>3, CallsWillBe
  <2>9. BlocksDeep' /\ Reading' /\ Printed'
    BY <1>2, <2>3 DEF BlocksDeep, Reading, Printed
  <2> QED BY <2>4, <2>8, <2>9 DEF Logging
<1>10. CASE at' \in Errors
  <2>1. seen' = seen \cup ({next.kind} \cap {"tag", "text_"}) /\ at' # "chunks" /\ e = header
    BY <1>6, <1>10, ChunkLogged DEF Errors
  <2>2. seen' \subseteq {"tag", "text_"} /\ "text_" \in seen'
    BY <1>2, <2>1
  <2>3. next.kind # "break"
    BY DEF IsBreak
  <2>4. IsDiag(e) /\ (e.aborted => "tag" \in seen')
    <3>0. CASE at' = "NB_ERR_RANGE"
      <4>1. e = h
        BY <1>6, <1>7, <2>1, <3>0
      <4> QED BY <1>2, <1>8, <4>1 DEF Kept
    <3>1. CASE at' # "NB_ERR_RANGE" /\ next.kind = "uint"
      <4>1. PICK f : f = LogCbor(h, "v")
        OBVIOUS
      <4>2. Kept(h, f) /\ ~Current(f).empty /\ IsDiag(f) /\ e = FinishItem(f, b)
        <5>1. "v" \in Symbols
          BY DEF Symbols
        <5>2. e = FinishItem(f, b)
          BY <1>6, <1>7, <2>1, <3>1, <4>1 DEF Logged
        <5> QED BY <1>8, <4>1, <5>1, <5>2, LogCborFacts DEF Kept
      <4>3. IsDiag(e) /\ (b.type # "map" \/ IsKey(b) \/ Current(f).indent_level # 0 => e.aborted = f.aborted)
        BY <1>4, <4>2, FinishItemFacts
      <4>4. "tag" \notin seen /\ n # 0 => Current(f).indent_level # 0
        <5> SUFFICES ASSUME "tag" \notin seen, n # 0 PROVE Current(f).indent_level # 0
          OBVIOUS
        <5>1. PICK K, no : K = LoopKeys(calls, n, FALSE) /\ no = FALSE
          OBVIOUS
        <5>2. Deep(diag, n, K, no)
          BY <1>1, <1>2, <5>1, ChunkDeep, Zenon
        <5>3. Current(diag).indent_level # 0
          BY <1>2, <5>2, DeepEnough
        <5> QED BY <1>8, <4>2, <5>3 DEF Kept
      <4>5. ~f.aborted
        BY <1>2, <1>8, <4>2 DEF Kept
      <4> QED BY <1>5, <2>1, <4>3, <4>4, <4>5
    <3>2. CASE at' # "NB_ERR_RANGE" /\ next.kind = "tag"
      <4>1. e = FinishItem(h, b)
        BY <1>6, <1>7, <2>1, <3>2 DEF Logged
      <4>2. IsDiag(e)
        BY <1>4, <1>8, <4>1, FinishItemFacts
      <4> QED BY <2>1, <3>2, <4>2
    <3>3. CASE at' # "NB_ERR_RANGE" /\ next.kind \notin {"uint", "tag"}
      <4>1. e = h
        BY <1>6, <1>7, <2>1, <2>3, <3>3 DEF Logged
      <4> QED BY <1>2, <1>8, <4>1 DEF Kept
    <3> QED BY <3>0, <3>1, <3>2, <3>3
  <2>5. e.aborted => seen' = {"tag", "text_"}
    BY <2>2, <2>4
  <2>6. Logs'
    BY <1>1, <1>4, <1>10, <2>2, <2>4, <2>5 DEF Logs, Errors
  <2> QED BY <1>10, <2>6, OnlyLogs DEF Steady, Errors
<1> QED BY <1>9, <1>10, ChunkLogged

\* A chunk or the break of a string of indefinite length.
LEMMA ChunkStep == ASSUME DiagInv, DiagChunk PROVE Logging'
  BY ChunkEnds, ChunkMissing, ChunkRead

\* What is logged where a block ends.
LEMMA BlockEndIs ==
  ASSUME DiagInv, DiagBlockEnd, at' = "return"
  PROVE  /\ at = "end" /\ Len(blocks) > 1 /\ calls # <<>> /\ ~IsOdd(TopCall)
         /\ blocks' = SubSeq(blocks, 1, Len(blocks) - 1)
         /\ calls' = SubSeq(calls, 1, Len(calls) - 1) /\ seen' = seen
         /\ nread' = IF TopBlock.indefinite THEN nread + 1 ELSE nread
         /\ \E line : /\ line = IF TopBlock.indefinite THEN LogRaw(diag) ELSE DumpLine(diag)
                      /\ diag' = FinishItem(LogCbor(Dedent(line), Ending(TopBlock)), Last(blocks'))
<1>1. BlockEnd /\ at = "end" /\ DecodeTypes /\ WhereItIs /\ LoopsAndBlocksAgree
  BY DEF DiagInv, DecodeInv, DiagBlockEnd, BlockEnd
<1>2. calls # <<>> /\ TopCall.type \in ItemTypes /\ seen' = seen
  BY <1>1 DEF WhereItIs, DiagBlockEnd
<1>3. Len(calls) \in 1..Len(calls) /\ Len(blocks) \in Nat
  BY <1>1, <1>2, BlocksAre, EmptySeq
<1>4. \E k \in 1..Len(blocks) - 1 : TRUE
  BY <1>1, <1>2, <1>3 DEF LoopsAndBlocksAgree, TopCall
<1>5. Len(blocks) > 1
  BY <1>3, <1>4
<1>6. /\ ~(TopCall.type = "map" /\ TopCall.i % 2 = 1)
      /\ IF TopBlock.indefinite THEN Read ELSE Unread
      /\ blocks' = SubSeq(blocks, 1, Len(blocks) - 1) /\ calls' = CallerOf(calls)
  BY <1>1 DEF BlockEnd
<1>7. nread' = IF TopBlock.indefinite THEN nread + 1 ELSE nread
  BY <1>6 DEF Read, Unread
<1>8. PICK line : line = IF TopBlock.indefinite THEN LogRaw(diag) ELSE DumpLine(diag)
  OBVIOUS
<1>9. diag' = FinishItem(LogCbor(Dedent(line), Ending(TopBlock)), Last(blocks'))
  BY <1>8, Zenon DEF DiagBlockEnd, Ending
<1> QED BY <1>1, <1>2, <1>5, <1>6, <1>7, <1>8, <1>9 DEF IsOdd, CallerOf

\* The line on which a block ends, before the item it is is finished.
LEMMA EndLogged ==
  ASSUME NEW d, IsDiag(d), NEW indefinite, NEW x \in Symbols,
         NEW l, l = IF indefinite THEN LogRaw(d) ELSE DumpLine(d),
         NEW f, f = LogCbor(Dedent(l), x)
  PROVE  /\ IsDiag(f) /\ ~Current(f).empty /\ Text(f) = ReadSymbol(Text(d), x)
         /\ Current(d).indent_level # 0 =>
              /\ f.aborted = d.aborted
              /\ Current(f).indent_level = Current(d).indent_level - 1
<1>1. Kept(d, l) /\ Text(l) = Text(d)
  BY LogRawFacts, DumpLineFacts
<1>2. PICK g : g = Dedent(l)
  OBVIOUS
<1>3. /\ IsDiag(g) /\ Text(g) = Text(l)
      /\ Current(l).indent_level # 0 =>
           g.aborted = l.aborted /\ Current(g).indent_level = Current(l).indent_level - 1
  BY <1>1, <1>2, DedentFacts DEF Kept, SameText
<1>4. Kept(g, f) /\ Text(f) = ReadSymbol(Text(g), x) /\ ~Current(f).empty
  BY <1>2, <1>3, LogCborFacts
<1> QED BY <1>1, <1>3, <1>4 DEF Kept

\* The text of the end of a block, and of what finishes it.
EndRead(d, f, bs, ds, e) ==
  /\ bs \in Seq(BlockSet) /\ Len(bs) > 1 /\ Tracks(Text(d), bs, FALSE)
  /\ ~IsKey(bs[Len(bs)]) /\ bs[Len(bs)].type \in ItemTypes
  /\ IsDiag(f) /\ ~Current(f).empty /\ Text(f) = ReadSymbol(Text(d), Ending(bs[Len(bs)]))
  /\ ds = SubSeq(bs, 1, Len(bs) - 1) /\ ds \in Seq(BlockSet) /\ Len(ds) # 0
  /\ ds[Len(ds)] \in BlockSet /\ ds[Len(ds)].num_items # 0
  /\ e = FinishItem(f, ds[Len(ds)])

\* The closing bracket is printed: the reader is back in the block around it.
LEMMA BlockFinished ==
  ASSUME NEW d, NEW f, NEW bs, NEW ds, NEW e, EndRead(d, f, bs, ds, e)
  PROVE  /\ Tracks(Text(e), ds, FALSE)
         /\ Text(e).tokens = Text(d).tokens + IF bs[Len(bs)].indefinite THEN 1 ELSE 0
         /\ Pending(e) <=> LastIn(ds[Len(ds)], FALSE) = "value"
<1>1. PICK r, a, x, b : r = Text(d) /\ a = Text(f) /\ x = Ending(bs[Len(bs)]) /\ b = ds[Len(ds)]
  OBVIOUS
<1>2. /\ Tracks(a, ds, TRUE)
      /\ a.tokens = r.tokens + IF bs[Len(bs)].indefinite THEN 1 ELSE 0
  <2>1. /\ bs \in Seq(BlockSet) /\ Len(bs) > 1 /\ Tracks(r, bs, FALSE)
        /\ ~IsKey(bs[Len(bs)]) /\ bs[Len(bs)].type \in ItemTypes
        /\ a = ReadSymbol(r, x) /\ ds = SubSeq(bs, 1, Len(bs) - 1)
    BY <1>1 DEF EndRead
  <2>2. x = Ending(bs[Len(bs)])
    BY <1>1
  <2>3. LET g == ReadSymbol(r, x)
        IN  /\ Tracks(g, SubSeq(bs, 1, Len(bs) - 1), TRUE)
            /\ g.tokens = r.tokens + IF bs[Len(bs)].indefinite THEN 1 ELSE 0
    BY ONLY <2>1, <2>2, ClosingRead
  <2> QED BY <2>1, <2>3, Zenon
<1>3. /\ ds \in Seq(BlockSet) /\ Len(ds) # 0 /\ b \in BlockSet /\ b.num_items # 0
      /\ IsDiag(f) /\ ~Current(f).empty /\ e = FinishItem(f, b)
  BY <1>1 DEF EndRead
<1>4. /\ Pending(e) <=> ~IsKey(b)
      /\ Text(e) = IF IsKey(b) THEN ReadSymbol(a, ":") ELSE a
  BY <1>1, <1>3, FinishItemFacts
<1>5. /\ Tracks(Text(e), ds, FALSE) /\ Text(e).tokens = a.tokens
      /\ LastIn(b, FALSE) = "value" <=> ~IsKey(b)
  BY <1>1, <1>2, <1>3, <1>4, FinishedRead
<1> QED BY <1>1, <1>2, <1>4, <1>5

\* The end of a block is refused.
LEMMA BlockEndFails == ASSUME DiagInv, DiagBlockEnd, at' # "return" PROVE Logging'
<1>1. /\ Logs /\ blocks' = blocks /\ seen' = seen /\ diag' = diag /\ at' \in Errors
  BY DEF DiagInv, Logging, DiagBlockEnd, BlockEnd, Errors
<1>2. Logs'
  BY <1>1 DEF Logs, Errors
<1> QED BY <1>1, <1>2, OnlyLogs DEF Steady, Errors

\* The loops and blocks where the innermost ends: its items are complete.
LEMMA EndDeep ==
  ASSUME DiagInv, at = "end", Len(blocks) > 1, calls # <<>>, ~IsOdd(TopCall)
  PROVE  /\ "tag" \notin seen =>
              /\ Len(calls) = Inner
              /\ LoopsAt(blocks, calls, Inner, FALSE, "text_" \in seen /\ Stuck)
              /\ Inner \notin LoopKeys(calls, Inner, FALSE)
              /\ Deep(diag, Inner, LoopKeys(calls, Inner, FALSE), FALSE)
         /\ "text_" \notin seen => Deep(diag, Inner, BlockKeys(blocks), seen = {})
         /\ seen = {} => Inner \notin BlockKeys(blocks) /\ ~IsKey(TopBlock)
<1>1. DecodeTypes /\ CallsDeep /\ BlocksDeep
  BY DEF DiagInv, Logging, DecodeInv
<1>2. /\ blocks \in Seq(BlockSet) /\ calls \in Seq(CallSet) /\ Inner \in Nat
      /\ Len(blocks) = Inner + 1 /\ TopBlock = blocks[Inner + 1]
  BY <1>1, BlocksAre
<1>3. PICK n, bs, cs : n = Inner /\ bs = blocks /\ cs = calls
  OBVIOUS
<1>4. PICK no \in BOOLEAN : no = FALSE
  OBVIOUS
<1>5. n \in 1..n
  BY <1>2, <1>3
<1>6. at \in Steady /\ at # "chunks" /\ (at = "return") = no
  BY <1>4 DEF Steady
<1>7. "text_" \notin seen => Deep(diag, Inner, BlockKeys(blocks), seen = {})
  BY <1>1, <1>6 DEF BlocksDeep
<1>8. ASSUME "tag" \notin seen
      PROVE  /\ Len(calls) = Inner
             /\ LoopsAt(blocks, calls, Inner, FALSE, "text_" \in seen /\ Stuck)
             /\ Inner \notin LoopKeys(calls, Inner, FALSE)
             /\ Deep(diag, Inner, LoopKeys(calls, Inner, FALSE), FALSE)
  <2>1. ("text_" \in seen /\ (at = "chunks" \/ Stuck)) = ("text_" \in seen /\ Stuck)
    BY <1>6
  <2>2. /\ Len(calls) = Inner + IF at = "chunks" THEN 1 ELSE 0
        /\ LoopsAt(blocks, calls, Inner, no, "text_" \in seen /\ Stuck)
        /\ \/ Stuck /\ Inner \in LoopKeys(calls, Inner, no)
           \/ Deep(diag, Inner, LoopKeys(calls, Inner, no), FALSE)
    BY <1>1, <1>6, <1>8, <2>1, Zenon DEF CallsDeep
  <2>3. Len(calls) = Inner
    BY <1>2, <1>6, <2>2
  <2>4. n \notin LoopKeys(calls, n, FALSE)
    <3>1. TopCall = cs[n]
      BY <1>3, <2>3 DEF TopCall
    <3>2. n \in LoopKeys(cs, n, FALSE) <=> IsOdd(cs[n])
      BY <1>2, <1>3, <1>5, OddLoops
    <3> QED BY <1>3, <3>1, <3>2, Zenon
  <2> QED BY <1>3, <1>4, <2>2, <2>3, <2>4, Zenon
<1>9. ASSUME seen = {} PROVE Inner \notin BlockKeys(blocks) /\ ~IsKey(TopBlock)
  <2>1. /\ Len(cs) = n /\ LoopsAt(bs, cs, n, no, no) /\ n \notin LoopKeys(cs, n, no)
    <3>1. ("text_" \in seen /\ Stuck) = no
      BY <1>4, <1>9
    <3> QED BY <1>3, <1>4, <1>8, <1>9, <3>1, Zenon
  <2>2. LoopsAt(bs, cs, n, no, FALSE)
    BY <1>4, <2>1, Zenon
  <2>3. n \in BlockKeys(bs) <=> n \in LoopKeys(cs, n, no)
    BY <1>2, <1>3, <1>5, <2>1, <2>2, SameKeys
  <2>4. n \in BlockKeys(bs) <=> bs[n + 1].type = "map" /\ IsKey(bs[n + 1])
    <3>1. Len(bs) - 1 = n
      BY <1>2, <1>3
    <3> QED BY <1>5, <3>1 DEF BlockKeys
  <2>5. ~IsKey(bs[n + 1])
    BY <2>1, <2>3, <2>4 DEF IsKey
  <2> QED BY <1>2, <1>3, <2>1, <2>3, <2>5
<1> QED BY <1>7, <1>8, <1>9

\* A block ends.
LEMMA BlockEnds == ASSUME DiagInv, DiagBlockEnd, at' = "return" PROVE Logging'
<1>1. /\ at = "end" /\ Len(blocks) > 1 /\ calls # <<>> /\ ~IsOdd(TopCall)
      /\ blocks' = SubSeq(blocks, 1, Len(blocks) - 1)
      /\ calls' = SubSeq(calls, 1, Len(calls) - 1) /\ seen' = seen
      /\ nread' = IF TopBlock.indefinite THEN nread + 1 ELSE nread
  BY BlockEndIs
<1>2. Logs /\ DecodeTypes /\ Reading /\ ~diag.aborted
  BY DEF DiagInv, Logging, DecodeInv, DiagBlockEnd, Running
<1>3. IsDiag(diag) /\ Rooted(blocks) /\ seen \subseteq {"tag", "text_"}
  BY <1>2 DEF Logs
<1>4. PICK bs, cs, ds, es, e : /\ bs = blocks /\ cs = calls /\ ds = blocks' /\ es = calls' /\ e = diag'
  OBVIOUS
<1>5. PICK n \in Nat : n = Inner - 1
  BY <1>1, <1>2, BlocksAre
<1>6. /\ bs \in Seq(BlockSet) /\ Len(bs) = n + 2 /\ Len(bs) > 1 /\ cs \in Seq(CallSet)
      /\ Inner = n + 1 /\ TopBlock = bs[Len(bs)] /\ Len(bs) - 1 = n + 1
  BY <1>1, <1>2, <1>4, <1>5, BlocksAre
<1>7. PICK b : b = ds[Len(ds)]
  OBVIOUS
<1>8. /\ ds \in Seq(BlockSet) /\ Len(ds) = n + 1 /\ Len(ds) # 0 /\ Rooted(ds)
      /\ b = bs[n + 1] /\ b \in BlockSet /\ \A k \in 1..n + 1 : ds[k] = bs[k]
      /\ Finishes(n, BlockKeys(bs), BlockKeys(ds), b)
  <2>1. /\ ds \in Seq(BlockSet) /\ Len(ds) = Len(bs) - 1 /\ Len(ds) # 0 /\ Rooted(ds)
        /\ ds[Len(ds)] = bs[Len(bs) - 1] /\ ds[Len(ds)] \in BlockSet
        /\ \A k \in 1..Len(ds) : ds[k] = bs[k]
        /\ Finishes(Len(ds) - 1, BlockKeys(bs), BlockKeys(ds), ds[Len(ds)])
    <3>1. Rooted(bs) /\ ds = SubSeq(bs, 1, Len(bs) - 1)
      BY <1>1, <1>3, <1>4
    <3> QED BY <1>6, <3>1, KeysLeft
  <2>2. Len(ds) = n + 1 /\ Len(ds) - 1 = n
    BY <1>6, <2>1
  <2> QED BY <1>6, <1>7, <2>1, <2>2
<1>9. Inner' = n /\ TopBlock' = b /\ Last(blocks') = b
  BY <1>4, <1>7, <1>8 DEF Inner, TopBlock, Last
<1>10. PICK line : /\ line = IF TopBlock.indefinite THEN LogRaw(diag) ELSE DumpLine(diag)
                   /\ e = FinishItem(LogCbor(Dedent(line), Ending(TopBlock)), b)
  BY <1>4, <1>9, BlockEndIs
<1>11. PICK x, f : x = Ending(TopBlock) /\ f = LogCbor(Dedent(line), x)
  OBVIOUS
<1>12. /\ IsDiag(f) /\ ~Current(f).empty /\ Text(f) = ReadSymbol(Text(diag), x)
       /\ Current(diag).indent_level # 0 =>
            /\ f.aborted = diag.aborted
            /\ Current(f).indent_level = Current(diag).indent_level - 1
       /\ e = FinishItem(f, b)
  <2>1. x \in Symbols
    <3>1. "}" \in Symbols /\ "]" \in Symbols
      BY Zenon DEF Symbols
    <3> QED BY <1>11, <3>1, Zenon DEF Ending
  <2>2. e = FinishItem(f, b)
    BY <1>10, <1>11
  <2> QED BY <1>3, <1>10, <1>11, <2>1, <2>2, EndLogged
<1>13. IsDiag(e) /\ ~Current(e).empty /\ e.eol_on_next_raw
  BY <1>8, <1>12, FinishItemFacts
<1>14. ASSUME NEW K, NEW L, Finishes(n, K, L, b), NEW exact, exact => n + 1 \notin K,
              Deep(diag, n + 1, K, exact)
       PROVE  ~e.aborted /\ Deep(e, n, L, exact)
  <2>1. /\ Current(diag).indent_level # 0
        /\ \A g : Current(g).indent_level = Current(diag).indent_level - 1 => Deep(g, n, K, exact)
    BY <1>3, <1>14, DeepLeft
  <2>2. f.aborted = diag.aborted /\ Deep(f, n, K, exact)
    BY <1>12, <2>1
  <2>3. Kept(f, f)
    BY <1>12 DEF Kept
  <2>4. e.aborted = f.aborted /\ Deep(e, n, L, exact)
    BY <1>8, <1>12, <1>14, <2>2, <2>3, FinishedIn
  <2> QED BY <1>2, <2>2, <2>4
<1>15. /\ "tag" \notin seen =>
            /\ Len(calls) = Inner
            /\ LoopsAt(blocks, calls, Inner, FALSE, "text_" \in seen /\ Stuck)
            /\ Inner \notin LoopKeys(calls, Inner, FALSE)
            /\ Deep(diag, Inner, LoopKeys(calls, Inner, FALSE), FALSE)
       /\ "text_" \notin seen => Deep(diag, Inner, BlockKeys(blocks), seen = {})
       /\ seen = {} => Inner \notin BlockKeys(blocks) /\ ~IsKey(TopBlock)
  BY <1>1, EndDeep
<1>16. ASSUME "text_" \notin seen PROVE ~e.aborted /\ Deep(e, n, BlockKeys(ds), seen = {})
  <2>1. PICK K, L, exact : K = BlockKeys(bs) /\ L = BlockKeys(ds) /\ exact = (seen = {})
    OBVIOUS
  <2>2. Deep(diag, n + 1, K, exact) /\ (exact => n + 1 \notin K) /\ Finishes(n, K, L, b)
    BY <1>4, <1>6, <1>8, <1>15, <1>16, <2>1
  <2>3. ~e.aborted /\ Deep(e, n, L, exact)
    BY <1>14, <2>2
  <2> QED BY <2>1, <2>3
<1>17. ASSUME "tag" \notin seen
       PROVE  /\ ~e.aborted /\ Len(es) = n /\ LoopsAt(ds, es, n, TRUE, FALSE)
              /\ Deep(e, n, LoopKeys(es, n, TRUE), FALSE)
  <2>1. PICK loose : loose = ("text_" \in seen /\ Stuck)
    OBVIOUS
  <2>2. PICK no : no = FALSE
    OBVIOUS
  <2>3. /\ Len(cs) = n + 1 /\ LoopsAt(bs, cs, n + 1, FALSE, loose)
        /\ n + 1 \notin LoopKeys(cs, n + 1, FALSE)
        /\ Deep(diag, n + 1, LoopKeys(cs, n + 1, FALSE), no)
    BY <1>4, <1>6, <1>15, <1>17, <2>1, <2>2, Zenon
  <2>4. /\ LoopsAt(ds, es, n, TRUE, FALSE) /\ Len(es) = n
        /\ Finishes(n, LoopKeys(cs, n + 1, FALSE), LoopKeys(es, n, TRUE), b)
    <3>1. /\ Rooted(bs) /\ ds = SubSeq(bs, 1, Len(bs) - 1) /\ es = SubSeq(cs, 1, Len(cs) - 1)
      BY <1>1, <1>3, <1>4
    <3>2. LoopLeft(n, bs, ds, cs, es, loose)
      BY <1>6, <2>3, <3>1 DEF LoopLeft
    <3>3. /\ LoopsAt(ds, es, n, TRUE, FALSE) /\ Len(es) = n
          /\ Finishes(n, LoopKeys(cs, n + 1, FALSE), LoopKeys(es, n, TRUE), ds[Len(ds)])
      BY ONLY <3>2, LoopsEnded, Zenon
    <3> QED BY <1>7, <3>3, Zenon
  <2>5. PICK K, L : K = LoopKeys(cs, n + 1, FALSE) /\ L = LoopKeys(es, n, TRUE)
    OBVIOUS
  <2>6. Finishes(n, K, L, b) /\ (no => n + 1 \notin K) /\ Deep(diag, n + 1, K, no)
    BY <2>2, <2>3, <2>4, <2>5, Zenon
  <2>7. ~e.aborted /\ Deep(e, n, L, no)
    BY <1>14, <2>6
  <2> QED BY <2>2, <2>4, <2>5, <2>7, Zenon
<1>18. Logs'
  <2>1. diag'.aborted => seen = {"tag", "text_"}
    BY <1>3, <1>4, <1>16, <1>17
  <2> QED BY <1>1, <1>3, <1>4, <1>8, <1>13, <2>1 DEF Logs
<1>19. BlocksDeep'
  BY <1>1, <1>4, <1>9, <1>16 DEF BlocksDeep
<1>20. CallsDeep'
  <2>1. PICK yes \in BOOLEAN : yes = TRUE
    OBVIOUS
  <2>2. PICK no \in BOOLEAN : no = FALSE
    OBVIOUS
  <2>3. (yes <=> at' = "return") /\ ~no
    BY <2>1, <2>2
  <2>4. "tag" \notin seen' =>
           /\ Len(calls') = Inner' + IF at' = "chunks" THEN 1 ELSE 0
           /\ LoopsAt(blocks', calls', Inner', yes, no)
           /\ Deep(diag', Inner', LoopKeys(calls', Inner', yes), FALSE)
    <3>1. "tag" \notin seen => Len(calls') = Inner' + IF at' = "chunks" THEN 1 ELSE 0
      BY <1>4, <1>9, <1>17
    <3>2. "tag" \notin seen =>
             /\ LoopsAt(blocks', calls', Inner', yes, no)
             /\ Deep(diag', Inner', LoopKeys(calls', Inner', yes), FALSE)
      BY <1>4, <1>9, <1>17, <2>1, <2>2, Zenon
    <3> QED BY <1>1, <3>1, <3>2
  <2> QED BY <2>3, <2>4, CallsWillBe
<1>21. Reading'
  <2> SUFFICES ASSUME seen = {}
               PROVE  /\ Tracks(Text(e), ds, FALSE) /\ Text(e).tokens = nread'
                      /\ Pending(e) <=> LastIn(b, FALSE) = "value"
                      /\ \A k \in 1..Len(ds) : ds[k].num_items # 0
    BY <1>1, <1>4, <1>9, <1>13 DEF Reading, WholeText
  <2>1. /\ Tracks(Text(diag), bs, FALSE) /\ Text(diag).tokens = nread
        /\ \A k \in 1..Len(bs) : k < Len(bs) => bs[k].num_items # 0
    BY <1>1, <1>2, <1>4 DEF Reading, WholeText, Steady
  <2>2. \A k \in 1..Len(ds) : ds[k].num_items # 0
    <3>1. \A k \in 1..n + 1 : k \in 1..Len(bs) /\ k < Len(bs)
      BY <1>6
    <3> QED BY <1>8, <2>1, <3>1
  <2>3. ~IsKey(bs[Len(bs)]) /\ bs[Len(bs)].type \in ItemTypes
    <3>1. Len(bs) \in 2..Len(bs)
      BY <1>6
    <3> QED BY <1>3, <1>4, <1>6, <1>15, <3>1 DEF Rooted
  <2>4. PICK d : d = diag
    OBVIOUS
  <2>5. ds[Len(ds)].num_items # 0
    <3>1. Len(ds) \in 1..Len(ds)
      BY <1>8
    <3> QED BY <2>2, <3>1
  <2>6. EndRead(d, f, bs, ds, e)
    BY <1>1, <1>4, <1>6, <1>7, <1>8, <1>11, <1>12, <2>1, <2>3, <2>4, <2>5 DEF EndRead
  <2>7. /\ Tracks(Text(e), ds, FALSE)
        /\ Text(e).tokens = Text(d).tokens + IF bs[Len(bs)].indefinite THEN 1 ELSE 0
        /\ Pending(e) <=> LastIn(ds[Len(ds)], FALSE) = "value"
    BY <2>6, BlockFinished, Zenon
  <2>8. Text(e).tokens = nread'
    <3>1. Text(d).tokens = nread /\ nread \in Nat
      BY <2>1, <2>4 DEF Tracks, IsReader
    <3> QED BY <1>1, <1>6, <2>7, <3>1
  <2> QED BY <1>7, <2>2, <2>7, <2>8
<1>22. Printed'
  BY DEF Printed
<1> QED BY <1>18, <1>19, <1>20, <1>21, <1>22 DEF Logging

\* The end of a block.
LEMMA BlockEndStep == ASSUME DiagInv, DiagBlockEnd PROVE Logging'
  BY BlockEndFails, BlockEnds

\* Nothing happens.
LEMMA StutterStep == ASSUME DiagInv, UNCHANGED diagVars PROVE Logging'
<1>1. /\ blocks' = blocks /\ calls' = calls /\ at' = at /\ nread' = nread /\ next' = next
      /\ diag' = diag /\ seen' = seen
  BY DEF diagVars, vars
<1>2. Logs /\ BlocksDeep /\ CallsDeep /\ Reading /\ Printed
  BY DEF DiagInv, Logging
<1>3. /\ Inner' = Inner /\ WholeText' = WholeText /\ TopBlock' = TopBlock /\ (Stuck' <=> Stuck)
  BY <1>1 DEF Inner, WholeText, TopBlock, Stuck, IsBreak
<1>4. Logs' /\ BlocksDeep' /\ Reading' /\ Printed'
  BY <1>1, <1>2, <1>3 DEF Logs, BlocksDeep, Reading, Printed
<1>5. CallsDeep'
  <2>1. CallsDeep' = CallsDeep
    BY <1>1, Zenon DEF CallsDeep, Inner, Stuck, IsBreak
  <2> QED BY <1>2, <2>1
<1> QED BY <1>4, <1>5 DEF Logging

\* An empty stream, and nothing printed.
LEMMA LoggingInit == DiagInit => Logging
<1> SUFFICES ASSUME DiagInit PROVE Logging
  OBVIOUS
<1>1. PICK no \in BOOLEAN : no = FALSE
  OBVIOUS
<1>2. /\ blocks = Root /\ calls = <<>> /\ at = "item" /\ nread = 0 /\ seen = {} /\ diag = NewDiag
  BY DEF DiagInit, Init
<1>3. PICK b : b = [type |-> "root", indefinite |-> TRUE, len |-> 0, num_items |-> 0]
  OBVIOUS
<1>4. /\ blocks = <<b>> /\ b \in BlockSet /\ b.type = "root" /\ b.num_items = 0
  BY <1>2, <1>3 DEF Root, Block, BlockSet
<1>5. Len(blocks) = 1 /\ Inner = 0 /\ TopBlock = b /\ blocks[1] = b
  BY <1>4 DEF Inner, TopBlock
<1>6. /\ IsDiag(diag) /\ Current(diag).indent_level = 0 /\ Current(diag).cbor = <<>>
      /\ Other(diag).cbor = <<>> /\ diag.reader = NewReader /\ ~diag.aborted /\ ~Pending(diag)
  <2>1. PICK l : l = NewLine
    OBVIOUS
  <2>2. /\ l \in LineSet /\ l.cbor = <<>> /\ l.indent_level = 0 /\ ~l.cbor_comma /\ Tidy(l)
    <3>1. <<>> \in Seq(Symbols)
      OBVIOUS
    <3> QED BY <2>1, <3>1 DEF NewLine, LineSet, Tidy
  <2>3. PICK ls : ls = <<l, l>>
    OBVIOUS
  <2>4. ls \in [1..2 -> LineSet] /\ ls[1] = l /\ ls[2] = l /\ \A k \in 1..2 : Tidy(ls[k])
    BY <2>2, <2>3
  <2>5. diag = [lines |-> ls, line |-> 1, eol_on_next_raw |-> no, reader |-> NewReader, aborted |-> no]
    BY <1>1, <1>2, <2>1, <2>3, Zenon DEF NewDiag
  <2>6. /\ IsDiag(diag) /\ diag.lines = ls /\ diag.line = 1 /\ OtherLine(diag) = 2
        /\ diag.eol_on_next_raw = no /\ diag.reader = NewReader /\ diag.aborted = no
    BY <2>4, <2>5, Remade
  <2>7. Current(diag) = l /\ Other(diag) = l
    BY <2>4, <2>6 DEF Current, Other
  <2> QED BY <1>1, <2>2, <2>6, <2>7 DEF Pending
<1>7. Text(diag) = NewReader /\ WholeText = NewReader
  BY <1>6, TextIs, ReadNothing DEF WholeText
<1>8. Tracks(NewReader, blocks, FALSE) /\ NewReader.tokens = 0
  <2>1. PICK r, l : r = NewReader /\ l = [type |-> "root", indefinite |-> no, last |-> "begin"]
    OBVIOUS
  <2>2. r = [levels |-> <<l>>, tokens |-> 0, ok |-> TRUE]
    BY <1>1, <2>1, Zenon DEF NewReader, ReaderLevel
  <2>3. l \in LevelSet /\ l.type = "root" /\ l.last = "begin"
    BY <2>1 DEF LevelSet
  <2>4. r.levels = <<l>> /\ r.tokens = 0 /\ r.ok = TRUE
    BY <2>2
  <2>5. r.levels \in Seq(LevelSet) /\ Len(r.levels) = 1 /\ r.levels[1] = l
    BY <2>3, <2>4
  <2>6. IsReader(r)
    BY <2>2, <2>4, <2>5 DEF IsReader
  <2>7. \A k \in 1..Len(blocks) : LevelIs(r.levels[k], blocks[k], k < Len(blocks) \/ FALSE)
    <3> SUFFICES ASSUME NEW k \in 1..Len(blocks)
                 PROVE  LevelIs(r.levels[k], blocks[k], k < Len(blocks) \/ FALSE)
      OBVIOUS
    <3>1. k = 1 /\ ~(k < Len(blocks) \/ FALSE)
      BY <1>5
    <3>2. LastIn(b, k < Len(blocks) \/ FALSE) = "begin"
      BY <1>4, <3>1 DEF LastIn
    <3> QED BY <1>4, <1>5, <2>3, <2>5, <3>1, <3>2 DEF LevelIs
  <2> QED BY <1>5, <2>1, <2>4, <2>5, <2>6, <2>7 DEF Tracks
<1>9. \A K, exact : Deep(diag, 0, K, exact)
  BY <1>6, DepthOfNone DEF Deep
<1>10. \A k \in 1..0 : FALSE
  OBVIOUS
<1>11. Logs
  <2>1. Rooted(blocks)
    <3>1. \A k \in 2..Len(blocks) : FALSE
      BY <1>5
    <3> QED BY <1>4, <1>5, <3>1 DEF Rooted
  <2> QED BY <1>2, <1>6, <2>1 DEF Logs
<1>12. BlocksDeep
  BY <1>5, <1>9 DEF BlocksDeep
<1>13. CallsDeep
  <2>1. Len(calls) = Inner + IF at = "chunks" THEN 1 ELSE 0
    BY <1>2, <1>5
  <2>2. \A returned, loose : LoopsAt(blocks, calls, Inner, returned, loose)
    BY <1>5, <1>10 DEF LoopsAt
  <2>3. \A K : Deep(diag, Inner, K, FALSE)
    BY <1>5, <1>9
  <2> QED BY <2>1, <2>2, <2>3, Zenon DEF CallsDeep
<1>14. Reading
  <2>1. LastIn(TopBlock, FALSE) # "value"
    BY <1>4, <1>5 DEF LastIn
  <2>2. \A k \in 1..Len(blocks) : ~(k < Len(blocks) \/ at = "return")
    BY <1>2, <1>5
  <2> QED BY <1>2, <1>6, <1>7, <1>8, <2>1, <2>2 DEF Reading
<1>15. Printed
  BY <1>2 DEF Printed
<1> QED BY <1>11, <1>12, <1>13, <1>14, <1>15 DEF Logging

\* Every step keeps both invariants.
LEMMA DiagInvAlways == DiagSpec => []DiagInv
<1>1. DiagInit => DiagInv
  BY DecodeInvInit, LoggingInit DEF DiagInit, DiagInv
<1>2. DiagInv /\ [DiagNext]_diagVars => DiagInv'
  <2> SUFFICES ASSUME DiagInv, [DiagNext]_diagVars PROVE DiagInv'
    OBVIOUS
  <2>1. [Next]_vars
    BY DEF DiagNext, diagVars, Next, DiagFinish, DiagDecodeScalar, DiagDecodeTag, DiagDecodeBegin,
           DiagDecodeString, DiagDecodeUnsupported, DiagChunk, DiagNextItem, DiagReturn, DiagBlockEnd
  <2>2. DecodeInv'
    BY <2>1, TypesStep, WhereStep, AgreeStep, FollowedStep, RejectsStep DEF DiagInv, DecodeInv
  <2>3. Logging'
    BY FinishStep, ScalarStep, TagStep, BeginStep, StringStep, UnsupportedStep, ChunkStep,
       NextItemStep, ReturnStep, BlockEndStep, StutterStep DEF DiagNext
  <2> QED BY <2>2, <2>3 DEF DiagInv
<1> QED BY <1>1, <1>2, PTL DEF DiagSpec

\* What diag.c prints is diagnostic notation and accounts for every token read, for
\* streams of any length and depth, unless there are tags or strings of indefinite
\* length among them; and when the stream has ended all of it has been printed.
THEOREM PrintsWhatItReadsAlways == DiagSpec => []PrintsWhatItReads
<1>1. DiagInv => PrintsWhatItReads
  <2> SUFFICES ASSUME DiagInv, seen = {}, at \notin Errors
               PROVE  /\ WholeText.ok /\ WholeText.tokens = nread
                      /\ [i \in 1..Len(WholeText.levels) |-> WholeText.levels[i].type]
                           = [i \in 1..Len(blocks) |-> blocks[i].type]
                      /\ at = "finished" => diag.reader = WholeText
    BY DEF PrintsWhatItReads
  <2>1. Logs /\ Reading /\ Printed /\ at \in Places
    BY DEF DiagInv, Logging, DecodeInv, DecodeTypes
  <2>2. at \in Steady \cup {"finished"}
    BY <2>1 DEF Logs, Places, Steady
  <2>3. PICK r, bs : r = WholeText /\ bs = blocks
    OBVIOUS
  <2>4. Tracks(r, bs, FALSE) /\ r.tokens = nread /\ (at = "finished" => diag.reader = r)
    BY <2>1, <2>2, <2>3 DEF Reading, Printed, Steady
  <2>5. r.ok /\ Len(r.levels) = Len(bs) /\ \A i \in 1..Len(bs) : r.levels[i].type = bs[i].type
    BY <2>4 DEF Tracks, IsReader, LevelIs
  <2>6. [i \in 1..Len(r.levels) |-> r.levels[i].type] = [i \in 1..Len(bs) |-> bs[i].type]
    BY <2>5
  <2> QED BY <2>3, <2>4, <2>5, <2>6
<1> QED BY DiagInvAlways, <1>1, PTL

\* Between two items the lines are indented as deep as the item stands, and the
\* assertion of isbuf_dedent fails for no stream without both a tag and a string of
\* indefinite length.
THEOREM IndentationIsDepthAlways == DiagSpec => []IndentationIsDepth
<1>1. DiagInv => IndentationIsDepth
  <2> SUFFICES ASSUME DiagInv PROVE IndentationIsDepth
    OBVIOUS
  <2>1. diag.aborted => seen = {"tag", "text_"}
    BY DEF DiagInv, Logging, Logs
  <2>2. ASSUME seen = {}, at \in {"item", "items", "end"}
        PROVE  diag.lines[diag.line].indent_level =
                 Len(calls) + Cardinality({k \in 1..Len(calls) : calls[k].type = "map" /\ calls[k].i % 2 = 1})
    <3>1. DecodeTypes /\ BlocksDeep /\ CallsDeep
      BY DEF DiagInv, Logging, DecodeInv
    <3>2. PICK n, bs, cs : n = Inner /\ bs = blocks /\ cs = calls
      OBVIOUS
    <3>3. n \in Nat /\ bs \in Seq(BlockSet) /\ Len(bs) = n + 1 /\ cs \in Seq(CallSet)
      BY <3>1, <3>2, BlocksAre
    <3>4. PICK no \in BOOLEAN : no = FALSE
      OBVIOUS
    <3>5. at \in Steady /\ at # "chunks" /\ (at = "return") = no
      BY <2>2, <3>4 DEF Steady
    <3>6. ("text_" \in seen /\ (at = "chunks" \/ Stuck)) = no
      BY <2>2, <3>4
    <3>7. Len(cs) = n + (IF at = "chunks" THEN 1 ELSE 0) /\ LoopsAt(bs, cs, n, no, FALSE)
      <4>1. "tag" \notin seen
        BY <2>2
      <4> QED BY <3>1, <3>2, <3>4, <3>5, <3>6, <4>1, Zenon DEF CallsDeep
    <3>8. Len(cs) = n
      BY <3>3, <3>5, <3>7
    <3>9. \A k \in 1..n : k \in BlockKeys(bs) <=> k \in LoopKeys(cs, n, no)
      BY <3>3, <3>7, <3>8, SameKeys
    <3>10. Current(diag).indent_level = Depth(n, BlockKeys(bs))
      BY <2>2, <3>1, <3>2, <3>5 DEF BlocksDeep, Deep
    <3>11. BlockKeys(bs) \cap (1..n) = {k \in 1..n : cs[k].type = "map" /\ cs[k].i % 2 = 1}
      <4>1. \A k \in 1..n : k \in LoopKeys(cs, n, FALSE) <=> IsOdd(cs[k])
        BY <3>3, OddLoops
      <4>2. \A k \in 1..n : k \in BlockKeys(bs) <=> IsOdd(cs[k])
        BY <3>4, <3>9, <4>1, Zenon
      <4> QED BY <4>2 DEF IsOdd
    <3> QED BY <3>2, <3>8, <3>10, <3>11 DEF Depth, Current
  <2> QED BY <2>1, <2>2 DEF IndentationIsDepth
<1> QED BY DiagInvAlways, <1>1, PTL

=============================================================================
