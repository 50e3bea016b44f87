--------------------------- MODULE CborHeadProofs ---------------------------
(***************************************************************************)
(* A number arrives, or is rightly refused, whatever the calls at the two  *)
(* ends, the number of values of a byte and the room in the header: the    *)
(* properties of CborHead.  What the decoder makes of the bytes of an item *)
(* is the item the encoder meant (ReadsWhatIsWritten, from the division by *)
(* powers of Base in EveryDigit), and a part of them is none; the rest is  *)
(* about the ranges of the types.                                          *)
(***************************************************************************)
EXTENDS CborHead, SequenceTheorems, TLAPS

-----------------------------------------------------------------------------
(* Powers and digits.                                                      *)

\* There is such a function as Power.
LEMMA PowerStep == \A n \in 0..8 : Power[n] = IF n = 0 THEN 1 ELSE Power[n - 1] * Base
<1> DEFINE Rest(f) == [n \in 0..8 |-> IF n = 0 THEN 1 ELSE f[n - 1] * Base]
           p1 == Base
           p2 == p1 * Base
           p3 == p2 * Base
           p4 == p3 * Base
           p5 == p4 * Base
           p6 == p5 * Base
           p7 == p6 * Base
           p8 == p7 * Base
           f == [n \in 0..8 |-> IF n = 0 THEN 1 ELSE IF n = 1 THEN p1 ELSE IF n = 2 THEN p2
                                ELSE IF n = 3 THEN p3 ELSE IF n = 4 THEN p4 ELSE IF n = 5 THEN p5
                                ELSE IF n = 6 THEN p6 ELSE IF n = 7 THEN p7 ELSE p8]
<1>1. /\ f[0] = 1 /\ f[1] = p1 /\ f[2] = p2 /\ f[3] = p3 /\ f[4] = p4 /\ f[5] = p5
      /\ f[6] = p6 /\ f[7] = p7 /\ f[8] = p8
  OBVIOUS
<1>2. p1 = 1 * Base
  BY BaseAssumption
<1>3. ASSUME NEW n \in 0..8 PROVE f[n] = Rest(f)[n]
  <2> HIDE DEF f
  <2>1. n = 0 \/ n = 1 \/ n = 2 \/ n = 3 \/ n = 4 \/ n = 5 \/ n = 6 \/ n = 7 \/ n = 8
    OBVIOUS
  <2>2. Rest(f)[n] = IF n = 0 THEN 1 ELSE f[n - 1] * Base
    OBVIOUS
  <2>3. 1 - 1 = 0 /\ 2 - 1 = 1 /\ 3 - 1 = 2 /\ 4 - 1 = 3 /\ 5 - 1 = 4 /\ 6 - 1 = 5 /\ 7 - 1 = 6 /\ 8 - 1 = 7
    OBVIOUS
  <2> HIDE DEF p1
  <2> QED BY <1>1, <1>2, <2>1, <2>2, <2>3, Zenon
<1>4. f = Rest(f)
  BY <1>3
<1> HIDE DEF f
<1>5. Power = Rest(Power)
  BY <1>4 DEF Power
<1>6. \A n \in 0..8 : Rest(Power)[n] = IF n = 0 THEN 1 ELSE Power[n - 1] * Base
  OBVIOUS
<1> HIDE DEF Rest
<1> QED BY <1>5, <1>6

\* One power after the other.
LEMMA Powers ==
  /\ Power[0] = 1 /\ Power[1] = Base /\ Power[2] = Power[1] * Base
  /\ Power[3] = Power[2] * Base /\ Power[4] = Power[3] * Base
  /\ Power[5] = Power[4] * Base /\ Power[6] = Power[5] * Base
  /\ Power[7] = Power[6] * Base /\ Power[8] = Power[7] * Base
  /\ \A n \in 0..8 : Power[n] \in Nat \ {0}
<1>1. /\ Power[0] = 1 /\ Power[1] = Power[0] * Base /\ Power[2] = Power[1] * Base
      /\ Power[3] = Power[2] * Base /\ Power[4] = Power[3] * Base
      /\ Power[5] = Power[4] * Base /\ Power[6] = Power[5] * Base
      /\ Power[7] = Power[6] * Base /\ Power[8] = Power[7] * Base
  BY PowerStep
<1>2. \A a, b \in Nat \ {0} : a * b \in Nat \ {0} /\ 1 * b = b
  OBVIOUS
<1>3. Base \in Nat \ {0}
  BY BaseAssumption
<1>4. Power[1] = Base /\ Power[1] \in Nat \ {0} /\ Power[2] \in Nat \ {0}
  BY <1>1, <1>2, <1>3
<1>5. Power[3] \in Nat \ {0} /\ Power[4] \in Nat \ {0} /\ Power[5] \in Nat \ {0}
  BY <1>1, <1>2, <1>3, <1>4
<1>6. Power[6] \in Nat \ {0} /\ Power[7] \in Nat \ {0} /\ Power[8] \in Nat \ {0}
  BY <1>1, <1>2, <1>3, <1>5
<1>7. Power[0] \in Nat \ {0}
  BY <1>1
<1>8. \A n \in 0..8 : n = 0 \/ n = 1 \/ n = 2 \/ n = 3 \/ n = 4 \/ n = 5 \/ n = 6 \/ n = 7 \/ n = 8
  OBVIOUS
<1>9. \A n \in 0..8 : Power[n] \in Nat \ {0}
  BY <1>4, <1>5, <1>6, <1>7, <1>8, Zenon
<1> QED BY <1>1, <1>4, <1>9

\* The limits of the integer types, from the widest to the narrowest, and their halves.
LEMMA Limits ==
  /\ Direct \in Nat /\ Direct <= Power[1] - 2
  /\ Power[1] <= Power[2] /\ Power[2] <= Power[4] /\ Power[4] <= Power[8]
  /\ \A w \in {1, 2, 4, 8} : Power[w] \in Nat \ {0} /\ Power[w] \div 2 \in Nat
                               /\ Power[w] = 2 * (Power[w] \div 2)
<1>1. \A a \in Nat, b \in Nat \ {0} : a <= a * b /\ a * b \in Nat
  OBVIOUS
<1>2. Base \in Nat \ {0}
  BY BaseAssumption
<1>3. ASSUME NEW n \in 1..8 PROVE Power[n - 1] <= Power[n] /\ Power[n] \in Nat
  <2>1. Power[n] = Power[n - 1] * Base /\ n - 1 \in 0..8 /\ n \in 0..8
    BY PowerStep
  <2>2. Power[n - 1] \in Nat
    BY <2>1, Powers
  <2> QED BY <1>1, <1>2, <2>1, <2>2
<1>4. /\ Power[1] <= Power[2] /\ Power[2] <= Power[3] /\ Power[3] <= Power[4]
      /\ Power[4] <= Power[5] /\ Power[5] <= Power[6] /\ Power[6] <= Power[7] /\ Power[7] <= Power[8]
      /\ Power[1] \in Nat /\ Power[2] \in Nat /\ Power[3] \in Nat /\ Power[4] \in Nat
      /\ Power[5] \in Nat /\ Power[6] \in Nat /\ Power[7] \in Nat /\ Power[8] \in Nat
  <2>1. /\ 2 - 1 = 1 /\ 3 - 1 = 2 /\ 4 - 1 = 3 /\ 5 - 1 = 4 /\ 6 - 1 = 5 /\ 7 - 1 = 6 /\ 8 - 1 = 7
        /\ 1 \in 1..8 /\ 2 \in 1..8 /\ 3 \in 1..8 /\ 4 \in 1..8 /\ 5 \in 1..8 /\ 6 \in 1..8
        /\ 7 \in 1..8 /\ 8 \in 1..8
    OBVIOUS
  <2> QED BY <1>3, <2>1, Zenon
<1>5. Power[2] <= Power[4] /\ Power[4] <= Power[8]
  BY <1>4
<1>6. PICK h \in Nat : Base = 2 * h
  <2>1. Base = 2 * (Base \div 2) /\ Base \div 2 \in Nat
    BY BaseAssumption
  <2> QED BY <2>1
<1>7. ASSUME NEW a \in Nat PROVE (a * Base) \div 2 \in Nat /\ a * Base = 2 * ((a * Base) \div 2)
  <2>1. PICK k : k = a * h OBVIOUS
  <2>2. k \in Nat /\ a * (2 * h) = 2 * k
    BY <2>1
  <2>3. (2 * k) \div 2 = k
    BY <2>2
  <2> QED BY <1>6, <2>2, <2>3
<1>8. ASSUME NEW w \in {1, 2, 4, 8}
      PROVE  Power[w] \in Nat \ {0} /\ Power[w] \div 2 \in Nat /\ Power[w] = 2 * (Power[w] \div 2)
  <2>1. w \in 0..8 /\ w - 1 \in 0..8 /\ w # 0
    OBVIOUS
  <2>2. Power[w] = Power[w - 1] * Base /\ Power[w - 1] \in Nat
    BY <2>1, PowerStep, Powers
  <2> QED BY <1>7, <2>1, <2>2, Powers
<1> QED BY <1>4, <1>5, <1>8, Powers, BaseAssumption, DirectAssumption

\* Up to the i-th, the digits of u are u without its last n - i digits.
LEMMA EveryDigit ==
  ASSUME NEW u \in Nat, NEW n \in 0..7
  PROVE  /\ u \div Power[n] \in Nat /\ (u \div Power[n]) % Base \in Nat
         /\ u \div Power[n] = (u \div Power[n + 1]) * Base + ((u \div Power[n]) % Base)
<1>1. PICK p, b : p = Power[n] /\ b = Base
  OBVIOUS
<1>2. Power[n + 1] = p * b /\ p \in Nat \ {0} /\ b \in Nat \ {0}
  <2>1. n \in 0..8 /\ n + 1 \in 0..8 /\ n + 1 # 0 /\ (n + 1) - 1 = n
    OBVIOUS
  <2> QED BY <1>1, <2>1, PowerStep, Powers, BaseAssumption
<1>3. ASSUME NEW x \in Nat, NEW p2 \in Nat \ {0}, NEW b2 \in Nat \ {0}
      PROVE  /\ x \div p2 \in Nat /\ x \div (p2 * b2) = (x \div p2) \div b2
  OBVIOUS
<1>4. ASSUME NEW x \in Nat, NEW b2 \in Nat \ {0}
      PROVE  x % b2 \in Nat /\ x = (x \div b2) * b2 + (x % b2)
  OBVIOUS
<1>5. u \div p \in Nat /\ u \div (p * b) = (u \div p) \div b
  BY <1>2, <1>3
<1>6. (u \div p) % b \in Nat /\ u \div p = ((u \div p) \div b) * b + ((u \div p) % b)
  BY <1>2, <1>4, <1>5
<1> QED BY <1>1, <1>2, <1>5, <1>6

\* The bytes written for a number.
LEMMA BigEndianBytes ==
  ASSUME NEW n \in {1, 2, 4, 8}, NEW u \in Nat
  PROVE  /\ BigEndian(u, n) \in Seq(Nat) /\ Len(BigEndian(u, n)) = n
         /\ \A i \in 1..n : BigEndian(u, n)[i] = (u \div Power[n - i]) % Base
<1> DEFINE d == BigEndian(u, n)
<1>1. d = [i \in 1..n |-> (u \div Power[n - i]) % Base]
  BY DEF BigEndian
<1>2. \A i \in 1..n : n - i \in 0..7
  OBVIOUS
<1>3. \A i \in 1..n : (u \div Power[n - i]) % Base \in Nat
  BY <1>2, EveryDigit
<1>4. d \in [1..n -> Nat]
  BY <1>1, <1>3
<1>5. n \in Nat
  OBVIOUS
<1> HIDE DEF d
<1>6. d \in Seq(Nat) /\ Len(d) = n
  BY <1>4, <1>5, SeqDef, LenProperties
<1> QED BY <1>1, <1>6 DEF d

\* The digits of a number that has no more of them are put together to it again.
LEMMA DigitsJoin ==
  ASSUME NEW n \in {1, 2, 4, 8}, NEW u \in 0..Power[n] - 1
  PROVE  FromBigEndian(BigEndian(u, n)) = u
<1> DEFINE d == BigEndian(u, n)
           Rest(f) == [i \in 0..n |-> IF i = 0 THEN 0 ELSE f[i - 1] * Base + d[i]]
           F == [i \in 0..n |-> u \div Power[n - i]]
           sum == CHOOSE f : f = Rest(f)
<1>1. n \in 1..8 /\ u \in Nat /\ Base \in Nat \ {0} /\ Power[n] \in Nat \ {0} /\ Power[0] = 1
  BY Powers, BaseAssumption
<1>2. Len(d) = n /\ \A i \in 1..n : d[i] = (u \div Power[n - i]) % Base
  BY <1>1, BigEndianBytes
<1>3. FromBigEndian(d) = sum[n]
  BY <1>2 DEF FromBigEndian
<1> HIDE DEF d
<1>4. F[0] = 0 /\ F[n] = u /\ \A i \in 0..n : F[i] \in Nat
  <2>1. u \div Power[n] = 0
    <3>1. \A p \in Nat \ {0} : \A x \in 0..p - 1 : x \div p = 0
      OBVIOUS
    <3> QED BY <1>1, <3>1
  <2>2. u \div Power[0] = u
    BY <1>1
  <2>3. \A i \in 0..n : n - i \in 0..8 /\ n - 0 = n /\ n - n = 0 /\ n \in 0..n /\ 0 \in 0..n
    BY <1>1
  <2>4. \A p \in Nat \ {0} : u \div p \in Nat
    BY <1>1
  <2>5. \A i \in 0..n : u \div Power[n - i] \in Nat
    BY <2>3, <2>4, Powers
  <2>6. \A i \in 0..n : F[i] = u \div Power[n - i]
    OBVIOUS
  <2> HIDE DEF F
  <2> QED BY <2>1, <2>2, <2>3, <2>5, <2>6
<1>5. ASSUME NEW i \in 1..n PROVE F[i] = F[i - 1] * Base + d[i]
  <2>1. n - i \in 0..7 /\ n - i + 1 = n - (i - 1) /\ i \in 0..n /\ i - 1 \in 0..n
    BY <1>1
  <2>2. u \div Power[n - i] = (u \div Power[n - (i - 1)]) * Base + ((u \div Power[n - i]) % Base)
    BY <1>1, <2>1, EveryDigit
  <2> QED BY <1>2, <2>1, <2>2
<1>6. F = Rest(F)
  <2> DEFINE G == Rest(F)
  <2>1. ASSUME NEW i \in 0..n PROVE F[i] = G[i]
    <3>1. G[i] = IF i = 0 THEN 0 ELSE F[i - 1] * Base + d[i]
      OBVIOUS
    <3>2. i = 0 \/ i \in 1..n
      BY <1>1
    <3> HIDE DEF F, G
    <3> QED BY <1>4, <1>5, <3>1, <3>2
  <2>2. G = [i \in 0..n |-> G[i]] /\ F = [i \in 0..n |-> F[i]]
    OBVIOUS
  <2> QED BY <2>1, <2>2
<1> HIDE DEF F
<1>7. sum = Rest(sum)
  BY <1>6
<1> HIDE DEF sum
<1>8. sum[0] = F[0] /\ \A i \in 1..n : sum[i - 1] = F[i - 1] => sum[i] = F[i]
  <2> DEFINE G == Rest(sum)
  <2>1. G[0] = 0 /\ \A i \in 1..n : G[i] = sum[i - 1] * Base + d[i]
    <3>1. \A i \in 0..n : G[i] = IF i = 0 THEN 0 ELSE sum[i - 1] * Base + d[i]
      OBVIOUS
    <3>2. 0 \in 0..n /\ \A i \in 1..n : i \in 0..n /\ i # 0
      BY <1>1
    <3> HIDE DEF G
    <3> QED BY <3>1, <3>2
  <2> HIDE DEF G
  <2>2. sum = G
    BY <1>7 DEF G
  <2> HIDE DEF Rest
  <2> QED BY <1>4, <1>5, <2>1, <2>2
<1>9. sum[n] = F[n]
  <2>1. /\ 1 \in 1..n => sum[1] = F[1]
        /\ 2 \in 1..n => (sum[1] = F[1] => sum[2] = F[2])
        /\ 3 \in 1..n => (sum[2] = F[2] => sum[3] = F[3])
        /\ 4 \in 1..n => (sum[3] = F[3] => sum[4] = F[4])
        /\ 5 \in 1..n => (sum[4] = F[4] => sum[5] = F[5])
        /\ 6 \in 1..n => (sum[5] = F[5] => sum[6] = F[6])
        /\ 7 \in 1..n => (sum[6] = F[6] => sum[7] = F[7])
        /\ 8 \in 1..n => (sum[7] = F[7] => sum[8] = F[8])
    <3>1. /\ 1 - 1 = 0 /\ 2 - 1 = 1 /\ 3 - 1 = 2 /\ 4 - 1 = 3 /\ 5 - 1 = 4 /\ 6 - 1 = 5
          /\ 7 - 1 = 6 /\ 8 - 1 = 7
      OBVIOUS
    <3> QED BY <1>8, <3>1, Zenon
  <2>2. CASE n = 1
    BY <2>1, <2>2
  <2>3. CASE n = 2
    BY <2>1, <2>3
  <2>4. CASE n = 4
    BY <2>1, <2>4
  <2>5. CASE n = 8
    BY <2>1, <2>5
  <2> QED BY <2>2, <2>3, <2>4, <2>5
<1> QED BY <1>3, <1>4, <1>9 DEF d

-----------------------------------------------------------------------------
(* One item.                                                               *)

\* A header and the bytes it announces are read as one item, and a part of them
\* as the end of the stream.
LEMMA HeaderRead ==
  ASSUME NEW h, h.lbits \in Nat, NEW d \in Seq(Nat),
         Len(d) = IF h.lbits <= Direct THEN 0 ELSE NumBytes(h.lbits)
  PROVE  /\ Predecode(<<h>> \o d)
              = Item(h.major, IF h.lbits <= Direct THEN h.lbits ELSE FromBigEndian(d), <<>>)
         /\ \A n \in 0..Len(<<h>> \o d) - 1 :
              Predecode(SubSeq(<<h>> \o d, 1, n)).u64 = Ended
<1> DEFINE S == Nat \cup {h}
           s == <<h>> \o d
           used == IF h.lbits <= Direct THEN 0 ELSE NumBytes(h.lbits)
<1>1. Len(d) \in Nat /\ Len(d) = used
  BY LenProperties
<1>2. s \in Seq(S) /\ Len(s) = 1 + Len(d) /\ s[1] = h /\ \A i \in 1..Len(d) : s[1 + i] = d[i]
  <2>1. <<h>> \in Seq(S) /\ d \in Seq(S) /\ Len(<<h>>) = 1 /\ <<h>>[1] = h
    OBVIOUS
  <2>2. /\ s \in Seq(S) /\ Len(s) = 1 + Len(d)
        /\ \A i \in 1..1 + Len(d) : s[i] = IF i <= 1 THEN <<h>>[i] ELSE d[i - 1]
    BY <2>1, ConcatProperties
  <2>3. 1 \in 1..1 + Len(d) /\ \A i \in 1..Len(d) : 1 + i \in 1..1 + Len(d) /\ ~(1 + i <= 1) /\ (1 + i) - 1 = i
    BY <1>1
  <2> HIDE DEF s
  <2> QED BY <2>1, <2>2, <2>3
<1> HIDE DEF s
<1>3. s # <<>> /\ Head(s) = h /\ Tail(s) \in Seq(S) /\ Len(Tail(s)) = Len(d)
  <2>1. s # <<>>
    BY <1>1, <1>2, EmptySeq
  <2>2. Tail(s) \in Seq(S) /\ Len(Tail(s)) = Len(s) - 1
    BY <1>2, <2>1, HeadTailProperties
  <2>3. Head(s) = h
    BY <1>2, <2>1
  <2> QED BY <1>1, <1>2, <2>1, <2>2, <2>3
<1>4. Tail(s) = d
  <2>1. \A i \in 1..Len(d) : Tail(s)[i] = d[i]
    BY <1>2, <1>3, HeadTailProperties
  <2> QED BY <1>3, <2>1, SeqEqual
<1>5. SubSeq(s, 2 + used, Len(s)) = <<>>
  <2>1. 2 + used > Len(s)
    BY <1>1, <1>2
  <2> QED BY <1>1, <1>2, <2>1, SubSeqEmpty
<1>6. Predecode(s) = Item(h.major, IF h.lbits <= Direct THEN h.lbits ELSE FromBigEndian(d), <<>>)
  <2>1. SubSeq(d, 1, Len(d)) = d
    BY SubSeqFull
  <2>2. DecodeU64(h.lbits, d) = IF h.lbits <= Direct THEN h.lbits ELSE FromBigEndian(d)
    <3>1. CASE h.lbits <= Direct
      BY <3>1 DEF DecodeU64
    <3>2. CASE ~(h.lbits <= Direct)
      <4>1. Len(d) = NumBytes(h.lbits) /\ ~(Len(d) < NumBytes(h.lbits))
        BY <1>1, <3>2
      <4> QED BY <2>1, <3>2, <4>1 DEF DecodeU64
    <3> QED BY <3>1, <3>2
  <2> QED BY <1>3, <1>4, <1>5, <2>2 DEF Predecode
<1>7. ASSUME NEW n \in 0..Len(s) - 1 PROVE Predecode(SubSeq(s, 1, n)).u64 = Ended
  <2> DEFINE c == SubSeq(s, 1, n)
  <2>1. c \in Seq(S) /\ Len(c) = n /\ (n > 0 => c[1] = h)
    <3>1. n \in Nat /\ n <= Len(s) /\ Len(s) \in Nat
      BY <1>1, <1>2
    <3>2. \A i \in 1..n : s[i] \in S
      BY <1>2, <3>1
    <3> QED BY <1>2, <3>1, <3>2, SubSeqProperties
  <2> HIDE DEF c
  <2>2. CASE c = <<>>
    BY <2>2 DEF Predecode, Item, c
  <2>3. CASE c # <<>>
    <3>1. n > 0 /\ Head(c) = h /\ Len(Tail(c)) = n - 1
      BY <2>1, <2>3, EmptySeq, HeadTailProperties
    <3>2. ~(h.lbits <= Direct) /\ Len(Tail(c)) < NumBytes(h.lbits)
      BY <1>1, <1>2, <3>1
    <3>3. DecodeU64(h.lbits, Tail(c)) = Ended
      BY <3>2 DEF DecodeU64
    <3> QED BY <2>3, <3>1, <3>3 DEF Predecode, Item, c
  <2> QED BY <2>2, <2>3
<1> QED BY <1>6, <1>7 DEF s

\* The form chosen for a number is one the decoder knows, and has room for it.
LEMMA WidthsFit ==
  ASSUME NEW u \in 0..Power[8] - 1
  PROVE  /\ Widths(u).len \in {1, 2, 4, 8} /\ u \in 0..Power[Widths(u).len] - 1
         /\ Widths(u).lbits \in Nat /\ Widths(u).lbits > Direct
         /\ NumBytes(Widths(u).lbits) = Widths(u).len
<1>1. Direct \in Nat /\ Power[1] \in Nat /\ Power[2] \in Nat /\ Power[4] \in Nat /\ Power[8] \in Nat
  BY Limits
<1>2. /\ LBITS_1B = Direct + 1 /\ LBITS_2B = Direct + 2 /\ LBITS_4B = Direct + 3 /\ LBITS_8B = Direct + 4
  BY DEF LBITS_1B, LBITS_2B, LBITS_4B, LBITS_8B
<1>3. /\ NumBytes(LBITS_1B) = 1 /\ NumBytes(LBITS_2B) = 2
      /\ NumBytes(LBITS_4B) = 4 /\ NumBytes(LBITS_8B) = 8
  BY <1>1, <1>2 DEF NumBytes
<1>4. CASE u <= UintMax(1)
  <2>1. Widths(u) = [len |-> 1, lbits |-> LBITS_1B]
    BY <1>4 DEF Widths
  <2> QED BY <1>1, <1>2, <1>3, <1>4, <2>1 DEF UintMax
<1>5. CASE ~(u <= UintMax(1)) /\ u <= UintMax(2)
  <2>1. Widths(u) = [len |-> 2, lbits |-> LBITS_2B]
    BY <1>5 DEF Widths
  <2> QED BY <1>1, <1>2, <1>3, <1>5, <2>1 DEF UintMax
<1>6. CASE ~(u <= UintMax(1)) /\ ~(u <= UintMax(2)) /\ u <= UintMax(4)
  <2>1. Widths(u) = [len |-> 4, lbits |-> LBITS_4B]
    BY <1>6 DEF Widths
  <2> QED BY <1>1, <1>2, <1>3, <1>6, <2>1 DEF UintMax
<1>7. CASE ~(u <= UintMax(1)) /\ ~(u <= UintMax(2)) /\ ~(u <= UintMax(4))
  <2>1. Widths(u) = [len |-> 8, lbits |-> LBITS_8B]
    BY <1>7 DEF Widths
  <2> QED BY <1>1, <1>2, <1>3, <1>7, <2>1
<1> QED BY <1>4, <1>5, <1>6, <1>7

\* The bytes of s are those of the item with this type and number: read whole they
\* are that item, cut short they are the end of the stream.
IsWritten(s, type, u) ==
  /\ Predecode(s) = Item(type, u, <<>>)
  /\ \A n \in 0..Len(s) - 1 : Predecode(SubSeq(s, 1, n)).u64 = Ended

\* What write_hdr_u64 writes, decode_u64 reads.
LEMMA ReadsWhatIsWritten ==
  ASSUME NEW major, NEW u \in 0..Power[8] - 1
  PROVE  IsWritten(WriteHdrU64(major, u), major, u)
<1>1. CASE u <= Direct
  <2>1. PICK h, d : h = Header(major, u) /\ d = <<>>
    OBVIOUS
  <2>2. h.lbits = u /\ h.major = major /\ u \in Nat
    BY <2>1, Limits DEF Header
  <2>3. d \in Seq(Nat) /\ Len(d) = 0
    BY <2>1
  <2>4. WriteHdrU64(major, u) = <<h>> \o d
    <3>1. <<h>> \in Seq({h})
      OBVIOUS
    <3> QED BY <1>1, <2>1, <3>1, ConcatEmptySeq DEF WriteHdrU64
  <2>5. Len(d) = IF h.lbits <= Direct THEN 0 ELSE NumBytes(h.lbits)
    BY <1>1, <2>2, <2>3
  <2>6. IsWritten(<<h>> \o d, h.major, IF h.lbits <= Direct THEN h.lbits ELSE FromBigEndian(d))
    BY <2>2, <2>3, <2>5, HeaderRead DEF IsWritten
  <2> QED BY <1>1, <2>2, <2>4, <2>6
<1>2. CASE ~(u <= Direct)
  <2> DEFINE w == Widths(u)
             d == BigEndian(u, w.len)
             h == Header(major, w.lbits)
  <2>1. w.len \in {1, 2, 4, 8} /\ u \in 0..Power[w.len] - 1 /\ w.lbits \in Nat
        /\ w.lbits > Direct /\ NumBytes(w.lbits) = w.len /\ Direct \in Nat
    BY WidthsFit, Limits
  <2>2. h.lbits = w.lbits /\ h.major = major
    BY DEF Header
  <2>3. WriteHdrU64(major, u) = <<h>> \o d
    BY <1>2 DEF WriteHdrU64
  <2> HIDE DEF w, h
  <2>4. FromBigEndian(d) = u
    BY <2>1, DigitsJoin
  <2>5. d \in Seq(Nat) /\ Len(d) = w.len
    <3>1. PICK len : len = w.len
      OBVIOUS
    <3>2. u \in Nat
      BY Limits
    <3> QED BY <2>1, <3>1, <3>2, BigEndianBytes
  <2> HIDE DEF d
  <2>6. ~(w.lbits <= Direct)
    BY <2>1
  <2> QED BY <2>1, <2>2, <2>3, <2>4, <2>5, <2>6, HeaderRead DEF IsWritten
<1> QED BY <1>1, <1>2

-----------------------------------------------------------------------------
(* One number at both ends.                                                *)

\* The calls.
LEMMA CallIs ==
  ASSUME NEW call \in Calls
  PROVE  /\ call = Call(call.type, call.width) /\ call # Call("none", 0)
         /\ call.width \in {1, 2, 4, 8}
         /\ call.type \in {"uint", "int", "tag", "sval"}
         /\ call.type = "tag" => call.width = 4
         /\ call.type = "sval" => call.width = 1
  BY DEF Calls, Call

\* The ranges of the types.
LEMMA Ranges ==
  /\ Direct \in Nat /\ Direct < UintMax(1) /\ UintMax(1) <= UintMax(4)
  /\ \A w \in {1, 2, 4, 8} :
       /\ UintMax(w) \in Nat /\ UintMax(w) <= UintMax(8) /\ UintMax(w) = 2 * IntMax(w) + 1
       /\ IntMax(w) \in Int /\ IntMin(w) = -IntMax(w) - 1 /\ IntMax(w) <= IntMax(8)
<1>1. \A w \in {1, 2, 4, 8} : Power[w] <= Power[8] /\ Power[w] \in Nat \ {0} /\ Power[w] \div 2 \in Nat
                              /\ Power[w] = 2 * (Power[w] \div 2)
  BY Limits
<1>2. ASSUME NEW w \in {1, 2, 4, 8}
      PROVE  /\ UintMax(w) \in Nat /\ UintMax(w) <= UintMax(8) /\ UintMax(w) = 2 * IntMax(w) + 1
             /\ IntMax(w) \in Int /\ IntMin(w) = -IntMax(w) - 1 /\ IntMax(w) <= IntMax(8)
  <2>1. PICK p, h, p8, h8 : p = Power[w] /\ h = Power[w] \div 2 /\ p8 = Power[8] /\ h8 = Power[8] \div 2
    OBVIOUS
  <2>2. /\ p \in Nat \ {0} /\ h \in Nat /\ p = 2 * h /\ p <= p8
        /\ p8 \in Nat \ {0} /\ h8 \in Nat /\ p8 = 2 * h8
    BY <1>1, <2>1
  <2>3. /\ UintMax(w) = p - 1 /\ IntMax(w) = h - 1 /\ IntMin(w) = -h
        /\ UintMax(8) = p8 - 1 /\ IntMax(8) = h8 - 1
    BY <2>1 DEF UintMax, IntMax, IntMin
  <2> QED BY <2>2, <2>3
<1> QED BY <1>1, <1>2, Limits DEF UintMax

\* The item a call makes of a value.
TypeSent(call, v) ==
  CASE call.type = "int" -> IF v >= 0 THEN "uint" ELSE "negint"
    [] call.type = "sval" -> "7"
    [] OTHER -> call.type
NumberSent(call, v) ==
  IF call = Call("uint", 8) /\ v > Direct THEN v % Power[4]
  ELSE IF call.type = "int" /\ v < 0 THEN -(v + 1) ELSE v

\* A simple value has the form of a number of one byte.
LEMMA SvalIsHeader ==
  ASSUME NEW v \in 0..UintMax(1) PROVE EncodeSval(v) = WriteHdrU64("7", v)
<1>1. CASE v <= Direct
  BY <1>1 DEF EncodeSval, WriteHdrU64
<1>2. CASE ~(v <= Direct)
  <2>1. Widths(v) = [len |-> 1, lbits |-> LBITS_1B]
    BY DEF Widths
  <2>2. v \in Nat /\ v < Power[1] /\ Power[1] = Base /\ Base \in Nat \ {0} /\ Power[0] = 1
    BY Powers, BaseAssumption, Ranges DEF UintMax
  <2>3. (v \div 1) % Base = v
    BY <2>2
  <2>4. BigEndian(v, 1) = <<v>>
    <3>1. BigEndian(v, 1) \in Seq(Nat) /\ Len(BigEndian(v, 1)) = 1
          /\ BigEndian(v, 1)[1] = (v \div Power[1 - 1]) % Base
      BY <2>2, BigEndianBytes
    <3>2. BigEndian(v, 1)[1] = v
      BY <2>2, <2>3, <3>1
    <3> QED BY <3>1, <3>2
  <2>5. EncodeSval(v) = <<Header("7", LBITS_1B), v>>
    BY <1>2 DEF EncodeSval, CBOR_MINOR_SVAL
  <2>6. WriteHdrU64("7", v) = <<Header("7", LBITS_1B)>> \o <<v>>
    <3>1. Widths(v).lbits = LBITS_1B /\ BigEndian(v, Widths(v).len) = <<v>>
      BY <2>1, <2>4
    <3> QED BY <1>2, <3>1 DEF WriteHdrU64
  <2> QED BY <2>5, <2>6
<1> QED BY <1>1, <1>2

LEMMA SentIsWritten ==
  ASSUME NEW call \in Calls, NEW v \in Int, Fits(call, v)
  PROVE  /\ NumberSent(call, v) \in Nat
         /\ IsWritten(Encoded(call, v), TypeSent(call, v), NumberSent(call, v))
<1>1. /\ Power[4] \in Nat \ {0} /\ Power[8] \in Nat \ {0} /\ Power[4] <= Power[8]
      /\ UintMax(8) = Power[8] - 1
  BY Limits DEF UintMax
<1>2. call.width \in {1, 2, 4, 8} /\ call.type \in {"uint", "int", "tag", "sval"}
  BY CallIs
<1>3. ASSUME call.type # "int" PROVE v \in 0..UintMax(call.width) /\ v \in 0..Power[8] - 1
  BY <1>1, <1>2, <1>3, Ranges DEF Fits
<1>4. CASE call = Call("uint", 8)
  <2>1. call.type = "uint" /\ call.width = 8
    BY <1>4 DEF Call
  <2>2. TypeSent(call, v) = "uint" /\ Encoded(call, v) = EncodeUint64(v)
    <3>1. ~(call.width < 8)
      BY <2>1
    <3>2. Encoded(call, v) = EncodeUint64(v)
      BY <1>4, <2>1, <3>1, Zenon DEF Encoded
    <3> QED BY <2>1, <3>2 DEF TypeSent
  <2>3. PICK u : u = NumberSent(call, v)
    OBVIOUS
  <2>4. v \in Nat /\ Direct \in Nat
    BY <1>3, <2>1, Ranges
  <2>5. u = IF v <= Direct THEN v ELSE v % Power[4]
    BY <1>4, <2>1, <2>3, <2>4 DEF NumberSent
  <2>6. u \in 0..Power[8] - 1
    <3>1. v % Power[4] \in 0..Power[4] - 1
      BY <1>1, <2>4
    <3> QED BY <1>1, <1>3, <2>1, <2>5, <3>1
  <2>7. EncodeUint64(v) = WriteHdrU64("uint", u)
    BY <2>5 DEF EncodeUint64
  <2> QED BY <2>2, <2>3, <2>6, <2>7, ReadsWhatIsWritten
<1>5. CASE call.type = "uint" /\ call # Call("uint", 8)
  <2>1. call.width < 8
    BY <1>2, <1>5, CallIs
  <2>2. TypeSent(call, v) = "uint" /\ NumberSent(call, v) = v
    BY <1>5 DEF TypeSent, NumberSent
  <2>3. Encoded(call, v) = WriteHdrU64("uint", v)
    BY <1>5, <2>1 DEF Encoded, Call
  <2> QED BY <1>3, <1>5, <2>2, <2>3, ReadsWhatIsWritten
<1>6. CASE call.type = "int"
  <2>1. call # Call("uint", 8)
    BY <1>6 DEF Call
  <2>2. Encoded(call, v) = EncodeInt(v)
    BY <1>6, <2>1 DEF Encoded
  <2>3. CASE v >= 0
    <3>1. v \in 0..Power[8] - 1
      BY <1>1, <1>2, <1>6, <2>3, Ranges DEF Fits
    <3>2. TypeSent(call, v) = "uint" /\ NumberSent(call, v) = v
      BY <1>6, <2>1, <2>3 DEF TypeSent, NumberSent
    <3> QED BY <2>2, <2>3, <3>1, <3>2, ReadsWhatIsWritten DEF EncodeInt
  <2>4. CASE ~(v >= 0)
    <3>1. -(v + 1) \in 0..Power[8] - 1
      BY <1>1, <1>2, <1>6, <2>4, Ranges DEF Fits
    <3>2. TypeSent(call, v) = "negint" /\ NumberSent(call, v) = -(v + 1)
      BY <1>6, <2>1, <2>4 DEF TypeSent, NumberSent
    <3>3. EncodeInt(v) = WriteHdrU64("negint", -(v + 1))
      BY <2>4 DEF EncodeInt, I64ToU64
    <3> QED BY <2>2, <3>1, <3>2, <3>3, ReadsWhatIsWritten
  <2> QED BY <2>3, <2>4
<1>7. CASE call.type = "tag"
  <2>1. call # Call("uint", 8)
    BY <1>7 DEF Call
  <2>2. TypeSent(call, v) = "tag" /\ NumberSent(call, v) = v /\ Encoded(call, v) = WriteHdrU64("tag", v)
    BY <1>7, <2>1 DEF TypeSent, NumberSent, Encoded
  <2> QED BY <1>3, <1>7, <2>2, ReadsWhatIsWritten
<1>8. CASE call.type = "sval"
  <2>1. call # Call("uint", 8) /\ call.width = 1
    BY <1>8, CallIs DEF Call
  <2>2. TypeSent(call, v) = "7" /\ NumberSent(call, v) = v /\ Encoded(call, v) = EncodeSval(v)
    BY <1>8, <2>1 DEF TypeSent, NumberSent, Encoded
  <2>3. v \in 0..UintMax(1) /\ v \in 0..Power[8] - 1
    BY <1>3, <1>8, <2>1
  <2> QED BY <2>2, <2>3, SvalIsHeader, ReadsWhatIsWritten
<1> QED BY <1>2, <1>4, <1>5, <1>6, <1>7, <1>8

\* What a call makes of an item, and a value sent by sc and received by gc.
Received(gc, item) == IF gc.type = "int" THEN I64Of(item) ELSE item.u64
Alike(sc, gc) ==
  \/ sc.type \in {"uint", "int"} /\ gc.type \in {"uint", "int"}
  \/ sc.type = gc.type
Lost(sc, v) == v > UintMax(4) /\ sc = Call("uint", 8)

\* The number on the wire is in the range of its kind; it is the value sent but where
\* the encoder loses some of it, which leaves a smaller one.
InRange(sc, v, type, u) ==
  /\ type \in {"uint", "negint", "tag", "7"}
  /\ type = "uint" => sc.type \in {"uint", "int"} /\ u <= v /\ (~Lost(sc, v) => u = v)
  /\ type = "negint" => sc.type = "int" /\ v < 0 /\ u = -v - 1 /\ u <= IntMax(8)
  /\ type = "tag" => sc.type = "tag" /\ u = v /\ v <= UintMax(4)
  /\ type = "7" => sc.type = "sval" /\ u = v /\ v <= UintMax(1)
  /\ (sc.type = "tag" => type = "tag") /\ (sc.type = "sval" => type = "7")
  /\ u \in Nat
LEMMA NumberRange ==
  ASSUME NEW sc \in Calls, NEW v \in Int, Fits(sc, v)
  PROVE  InRange(sc, v, TypeSent(sc, v), NumberSent(sc, v))
<1> DEFINE u == NumberSent(sc, v)
<1>1. /\ sc.width \in {1, 2, 4, 8} /\ sc.type \in {"uint", "int", "tag", "sval"}
      /\ (sc.type = "tag" => sc.width = 4) /\ (sc.type = "sval" => sc.width = 1)
  BY CallIs
<1>2. u \in Nat
  BY SentIsWritten
<1>3. Power[4] \in Nat \ {0} /\ UintMax(4) = Power[4] - 1
  BY Limits DEF UintMax
<1>4. CASE sc = Call("uint", 8)
  <2>1. sc.type = "uint" /\ TypeSent(sc, v) = "uint"
    BY <1>4 DEF TypeSent, Call
  <2>2. v \in Nat /\ Direct \in Nat
    BY <1>1, <2>1, Ranges DEF Fits
  <2>3. u = IF v > Direct THEN v % Power[4] ELSE v
    BY <1>4, <2>1 DEF NumberSent
  <2>4. \A p \in Nat \ {0} : v % p <= v /\ (v <= p - 1 => v % p = v)
    BY <2>2
  <2>5. v % Power[4] <= v /\ (v <= UintMax(4) => v % Power[4] = v)
    BY <1>3, <2>4
  <2>6. u <= v /\ (~Lost(sc, v) => u = v)
    BY <1>3, <1>4, <2>2, <2>3, <2>5 DEF Lost
  <2> QED BY <1>2, <2>1, <2>6 DEF InRange
<1>5. CASE sc # Call("uint", 8)
  <2>1. u = IF sc.type = "int" /\ v < 0 THEN -(v + 1) ELSE v
    BY <1>5 DEF NumberSent
  <2>2. CASE sc.type = "int"
    <3>1. -v - 1 <= IntMax(8)
      BY <1>1, <2>2, Ranges DEF Fits
    <3>2. TypeSent(sc, v) = IF v >= 0 THEN "uint" ELSE "negint"
      BY <2>2 DEF TypeSent
    <3> QED BY <1>2, <2>1, <2>2, <3>1, <3>2 DEF InRange
  <2>3. CASE sc.type = "uint"
    <3>1. TypeSent(sc, v) = "uint" /\ u = v
      BY <2>1, <2>3 DEF TypeSent
    <3> QED BY <1>2, <2>3, <3>1 DEF InRange
  <2>4. CASE sc.type = "tag"
    <3>1. TypeSent(sc, v) = "tag" /\ u = v /\ v <= UintMax(4)
      BY <1>1, <2>1, <2>4 DEF TypeSent, Fits
    <3> QED BY <1>2, <2>4, <3>1 DEF InRange
  <2>5. CASE sc.type = "sval"
    <3>1. TypeSent(sc, v) = "7" /\ u = v /\ v <= UintMax(1)
      BY <1>1, <2>1, <2>5 DEF TypeSent, Fits
    <3> QED BY <1>2, <2>5, <3>1 DEF InRange
  <2> QED BY <1>1, <2>2, <2>3, <2>4, <2>5
<1> QED BY <1>4, <1>5

\* A value of any call, received by any call: it arrives, or is refused because the
\* receiver's type is too small for it, or because the two ends disagree on its kind.
LEMMA ReceivedRight ==
  ASSUME NEW sc \in Calls, NEW v \in Int, Fits(sc, v), NEW gc \in Calls,
         NEW item, item = Item(TypeSent(sc, v), NumberSent(sc, v), <<>>)
  PROVE  /\ Result(gc, item) \notin {"none", "NB_ERR_EOF"}
         /\ Result(gc, item) = "ok" =>
              /\ Fits(gc, Received(gc, item))
              /\ Alike(sc, gc) /\ ~Lost(sc, v) /\ ~(v < 0 /\ gc.type = "uint") =>
                   Received(gc, item) = v
         /\ Result(gc, item) # "ok" /\ Alike(sc, gc) =>
              Result(gc, item) = "NB_ERR_RANGE" /\ ~Fits(gc, v)
<1> DEFINE u == NumberSent(sc, v)
           type == TypeSent(sc, v)
<1>1. /\ gc.width \in {1, 2, 4, 8} /\ gc.type \in {"uint", "int", "tag", "sval"}
      /\ (gc.type = "tag" => gc.width = 4) /\ (gc.type = "sval" => gc.width = 1)
  BY CallIs
<1>2. InRange(sc, v, type, u)
  BY NumberRange
<1>3. item.type = type /\ item.u64 = u
  BY DEF Item
<1> HIDE DEF u, type
<1> USE DEF InRange
<1>4. /\ UintMax(gc.width) \in Nat /\ IntMax(gc.width) \in Int
      /\ IntMin(gc.width) = -IntMax(gc.width) - 1 /\ IntMax(gc.width) <= IntMax(8)
      /\ IntMax(8) \in Int
  BY <1>1, Ranges
<1>5. u # Ended /\ ~(type = "negint" /\ u > IntMax(8))
  BY <1>2, <1>4 DEF Ended
<1>6. Result(gc, item) = CASE gc.type = "uint" -> UintResult(gc, item)
                           [] gc.type = "int"  -> IntResult(gc, item)
                           [] OTHER            -> OtherResult(gc, item)
  BY <1>3, <1>5 DEF Result
<1>7. CASE gc.type = "uint"
  <2>1. Result(gc, item) = IF u > UintMax(gc.width) THEN "NB_ERR_RANGE" ELSE "ok"
    BY <1>3, <1>6, <1>7 DEF UintResult
  <2>2. Received(gc, item) = u
    BY <1>3, <1>7 DEF Received
  <2>3. \A x : Fits(gc, x) <=> 0 <= x /\ x <= UintMax(gc.width)
    BY <1>7 DEF Fits
  <2>4. Alike(sc, gc) => sc.type \in {"uint", "int"}
    BY <1>7 DEF Alike
  <2>5. Alike(sc, gc) => type \in {"uint", "negint"}
    BY <1>2, <2>4
  <2>6. CASE u > UintMax(gc.width)
    <3>1. type = "uint" => ~Fits(gc, v)
      BY <1>2, <1>4, <2>3, <2>6
    <3>2. type = "negint" => ~Fits(gc, v)
      BY <1>2, <2>3
    <3> QED BY <2>1, <2>5, <2>6, <3>1, <3>2
  <2>7. CASE ~(u > UintMax(gc.width))
    <3>1. Fits(gc, u)
      BY <1>2, <1>4, <2>3, <2>7
    <3>2. Alike(sc, gc) /\ ~Lost(sc, v) /\ ~(v < 0) => u = v
      BY <1>2, <2>5
    <3> QED BY <1>7, <2>1, <2>2, <2>7, <3>1, <3>2
  <2> QED BY <2>6, <2>7
<1>8. CASE gc.type = "int"
  <2>1. Received(gc, item) = I64Of(item)
    BY <1>8 DEF Received
  <2>2. I64Of(item) = IF type = "negint" THEN -u - 1 ELSE u
    BY <1>3 DEF I64Of
  <2>3. Result(gc, item) =
          IF type \notin {"uint", "negint"} THEN "NB_ERR_ITEM"
          ELSE IF u > IntMax(8) THEN "NB_ERR_RANGE"
          ELSE IF Fits(gc, I64Of(item)) THEN "ok" ELSE "NB_ERR_RANGE"
    BY <1>3, <1>6, <1>8 DEF IntResult
  <2>4. \A x : Fits(gc, x) <=> IntMin(gc.width) <= x /\ x <= IntMax(gc.width)
    BY <1>8 DEF Fits
  <2>5. Alike(sc, gc) => type \in {"uint", "negint"}
    BY <1>2, <1>8 DEF Alike
  <2>6. CASE type \notin {"uint", "negint"}
    BY <2>3, <2>5, <2>6
  <2>7. CASE type = "negint"
    <3>1. I64Of(item) = v /\ ~(u > IntMax(8))
      BY <1>2, <1>4, <2>2, <2>7
    <3> QED BY <2>1, <2>3, <2>7, <3>1
  <2>8. CASE type = "uint"
    <3>1. I64Of(item) = u /\ u <= v /\ (~Lost(sc, v) => u = v) /\ u \in Nat
      BY <1>2, <2>2, <2>8
    <3>2. ~Fits(gc, u) \/ u > IntMax(8) => ~Fits(gc, v)
      <4>1. u > IntMax(gc.width) => ~Fits(gc, v)
        BY <1>4, <2>4, <3>1
      <4>2. ~(u > IntMax(gc.width)) => Fits(gc, u) /\ ~(u > IntMax(8))
        BY <1>4, <2>4, <3>1
      <4> QED BY <4>1, <4>2
    <3>3. type \in {"uint", "negint"}
      BY <2>8
    <3> QED BY <2>1, <2>3, <3>1, <3>2, <3>3
  <2> QED BY <1>2, <2>6, <2>7, <2>8
<1>9. CASE gc.type \in {"tag", "sval"}
  <2>1. Received(gc, item) = u
    BY <1>3, <1>9 DEF Received
  <2>2. Result(gc, item) =
          IF type # (IF gc.type = "tag" THEN "tag" ELSE "7") THEN "NB_ERR_ITEM"
          ELSE IF gc.type = "tag" /\ u > UintMax(4) THEN "NB_ERR_RANGE" ELSE "ok"
    BY <1>3, <1>6, <1>9 DEF OtherResult
  <2>3. \A x : Fits(gc, x) <=> 0 <= x /\ x <= UintMax(gc.width)
    BY <1>9 DEF Fits
  <2>4. Alike(sc, gc) => sc.type = gc.type
    BY <1>9 DEF Alike
  <2>5. CASE gc.type = "tag"
    <3>1. type = "tag" => u = v /\ Fits(gc, u) /\ ~(u > UintMax(4))
      BY <1>1, <1>2, <1>4, <2>3, <2>5
    <3> QED BY <1>2, <2>1, <2>2, <2>4, <2>5, <3>1
  <2>6. CASE gc.type = "sval"
    <3>1. type = "7" => u = v /\ Fits(gc, u)
      BY <1>1, <1>2, <2>3, <2>6
    <3> QED BY <1>2, <2>1, <2>2, <2>4, <2>6, <3>1
  <2> QED BY <1>9, <2>5, <2>6
<1> QED BY <1>1, <1>7, <1>8, <1>9

-----------------------------------------------------------------------------
(* The specification.                                                      *)

\* Nothing happens before a value is sent; then its item is in the stream, whole or cut
\* short, until it is received.
Waiting ==
  IF sent = None THEN bytes = <<>> /\ got = None /\ cut = FALSE
  ELSE /\ sent.call \in Calls /\ sent.value \in Int /\ Fits(sent.call, sent.value)
       /\ got = None =>
            IF cut THEN Predecode(bytes).u64 = Ended
            ELSE bytes = Encoded(sent.call, sent.value)

HeadInv ==
  Waiting /\ cut \in BOOLEAN /\ NumberArrives /\ RefusedOnlyOutOfRange /\ CutIsReported /\ InStep

\* A call that has sent or received is none.
LEMMA ValueIsSome ==
  ASSUME NEW call \in Calls, NEW res, NEW v
  PROVE  /\ Value(call, res, v) # None /\ Value(call, res, v).call = call
         /\ Value(call, res, v).res = res /\ Value(call, res, v).value = v
<1>1. call # Call("none", 0)
  BY CallIs
<1> QED BY <1>1 DEF Value, None

\* As long as nothing is received there is nothing to be wrong.
LEMMA NothingReceived ==
  got = None => NumberArrives /\ RefusedOnlyOutOfRange /\ CutIsReported /\ InStep
<1> SUFFICES ASSUME got = None
             PROVE  NumberArrives /\ RefusedOnlyOutOfRange /\ CutIsReported /\ InStep
  OBVIOUS
<1>1. got.res = "none"
  BY DEF None
<1> QED BY <1>1 DEF NumberArrives, RefusedOnlyOutOfRange, CutIsReported, InStep

LEMMA HeadInit == Init => HeadInv
  BY NothingReceived DEF Init, HeadInv, Waiting

LEMMA SendKeeps ==
  ASSUME HeadInv, NEW call \in Calls, NEW v \in Int, Send(call, v)
  PROVE  HeadInv'
<1>1. /\ sent = None /\ Fits(call, v) /\ bytes' = Encoded(call, v) /\ sent' = Value(call, "ok", v)
      /\ got' = got /\ cut' = cut /\ got = None /\ cut = FALSE
  BY DEF Send, HeadInv, Waiting
<1>2. sent' # None /\ sent'.call = call /\ sent'.value = v
  BY <1>1, ValueIsSome
<1>3. Waiting'
  BY <1>1, <1>2 DEF Waiting
<1>4. (NumberArrives /\ RefusedOnlyOutOfRange /\ CutIsReported /\ InStep)'
  <2>1. (got = None)'
    BY <1>1
  <2> QED BY <2>1, NothingReceived, PTL
<1> QED BY <1>1, <1>3, <1>4 DEF HeadInv

LEMMA CutKeeps ==
  ASSUME HeadInv, Cut
  PROVE  HeadInv'
<1>1. PICK n \in 0..(Len(bytes) - 1) : bytes' = SubSeq(bytes, 1, n)
  BY DEF Cut
<1>2. sent # None /\ got = None /\ ~cut /\ cut' = TRUE /\ sent' = sent /\ got' = got
  BY DEF Cut
<1>3. /\ sent.call \in Calls /\ sent.value \in Int /\ Fits(sent.call, sent.value)
      /\ bytes = Encoded(sent.call, sent.value)
  BY <1>2 DEF HeadInv, Waiting
<1>4. Predecode(bytes').u64 = Ended
  <2>1. \A m \in 0..Len(bytes) - 1 : Predecode(SubSeq(bytes, 1, m)).u64 = Ended
    BY <1>3, SentIsWritten DEF IsWritten
  <2> QED BY <1>1, <2>1
<1>5. Waiting'
  BY <1>2, <1>3, <1>4 DEF Waiting
<1>6. (NumberArrives /\ RefusedOnlyOutOfRange /\ CutIsReported /\ InStep)'
  <2>1. (got = None)'
    BY <1>2
  <2> QED BY <2>1, NothingReceived, PTL
<1> QED BY <1>2, <1>5, <1>6 DEF HeadInv

LEMMA ReceiveKeeps ==
  ASSUME HeadInv, NEW call \in Calls, Receive(call)
  PROVE  HeadInv'
<1> DEFINE item == Predecode(bytes)
           res == Result(call, item)
           value == IF res # "ok" THEN 0 ELSE Received(call, item)
<1>1. /\ sent # None /\ got = None /\ sent' = sent /\ cut' = cut /\ cut \in BOOLEAN
      /\ got' = Value(call, res, value) /\ bytes' = IF res = "ok" THEN item.rest ELSE bytes
  BY DEF Receive, Received, HeadInv
<1>2. /\ sent.call \in Calls /\ sent.value \in Int /\ Fits(sent.call, sent.value)
      /\ IF cut THEN item.u64 = Ended ELSE bytes = Encoded(sent.call, sent.value)
  BY <1>1 DEF HeadInv, Waiting
<1>3. got' # None /\ got'.call = call /\ got'.res = res /\ got'.value = value
  BY <1>1, ValueIsSome
<1>4. Waiting'
  BY <1>1, <1>2, <1>3 DEF Waiting
<1>5. CASE cut
  <2>1. res = "NB_ERR_EOF"
    BY <1>2, <1>5 DEF Result
  <2> HIDE DEF res, value
  <2>2. got'.res = "NB_ERR_EOF" /\ cut'
    BY <1>1, <1>3, <1>5, <2>1
  <2>3. (NumberArrives /\ RefusedOnlyOutOfRange /\ CutIsReported /\ InStep)'
    BY <2>2 DEF NumberArrives, RefusedOnlyOutOfRange, CutIsReported, InStep
  <2> QED BY <1>1, <1>4, <2>3 DEF HeadInv
<1>6. CASE ~cut
  <2>1. PICK sc, v : sc = sent.call /\ v = sent.value
    OBVIOUS
  <2>2. sc \in Calls /\ v \in Int /\ Fits(sc, v) /\ bytes = Encoded(sc, v)
    BY <1>2, <1>6, <2>1
  <2>3. item = Item(TypeSent(sc, v), NumberSent(sc, v), <<>>)
    BY <2>2, SentIsWritten DEF IsWritten
  <2>4. item.rest = <<>>
    BY <2>3 DEF Item
  <2> HIDE DEF item
  <2>5. /\ res \notin {"none", "NB_ERR_EOF"}
        /\ res = "ok" =>
             /\ Fits(call, Received(call, item))
             /\ Alike(sc, call) /\ ~Lost(sc, v) /\ ~(v < 0 /\ call.type = "uint") =>
                  Received(call, item) = v
        /\ res # "ok" /\ Alike(sc, call) => res = "NB_ERR_RANGE" /\ ~Fits(call, v)
    BY <2>2, <2>3, ReceivedRight
  <2>6. res = "ok" => value = Received(call, item)
    OBVIOUS
  <2> HIDE DEF res, value
  <2>7. /\ SameKind' <=> Alike(sc, call)
        /\ Truncated' <=> Lost(sc, v)
        /\ NegativeAsUnsigned' <=> v < 0 /\ call.type = "uint"
    BY <1>1, <1>3, <2>1 DEF SameKind, Alike, Truncated, Lost, NegativeAsUnsigned
  <2>8. NumberArrives'
    BY <1>3, <1>1, <2>1, <2>5, <2>6, <2>7 DEF NumberArrives
  <2>9. RefusedOnlyOutOfRange'
    BY <1>3, <1>1, <2>1, <2>5, <2>7 DEF RefusedOnlyOutOfRange
  <2>10. CutIsReported' /\ InStep'
    BY <1>1, <1>3, <1>6, <2>4 DEF CutIsReported, InStep
  <2> QED BY <1>1, <1>4, <2>8, <2>9, <2>10 DEF HeadInv
<1> QED BY <1>5, <1>6

LEMMA HeadStep == HeadInv /\ [Next]_vars => HeadInv'
<1> SUFFICES ASSUME HeadInv, [Next]_vars PROVE HeadInv'
  OBVIOUS
<1>1. ASSUME NEW call \in Calls, NEW v \in Samples, Send(call, v) \/ Send(call, -v)
      PROVE  HeadInv'
  <2>1. v \in Int /\ -v \in Int
    <3>1. v \in Nat
      BY SamplesAssumption, Powers
    <3> QED BY <3>1
  <2> QED BY <1>1, <2>1, SendKeeps
<1>2. ASSUME NEW call \in Calls, Receive(call) PROVE HeadInv'
  BY <1>2, ReceiveKeeps
<1>3. ASSUME Cut PROVE HeadInv'
  BY <1>3, CutKeeps
<1>4. ASSUME UNCHANGED vars PROVE HeadInv'
  BY <1>4 DEF vars, HeadInv, Waiting, NumberArrives, RefusedOnlyOutOfRange, CutIsReported, InStep,
              SameKind, Truncated, NegativeAsUnsigned
<1> QED BY <1>1, <1>2, <1>3, <1>4 DEF Next

LEMMA HeadAlways == Spec => []HeadInv
<1> QED BY HeadInit, HeadStep, PTL DEF Spec

\* What the receiver's variable holds is the number sent, whatever the widths and signs
\* of the types at the two ends, but for what cbor_encode_uint64 loses and what
\* decode_uint takes for an unsigned number.
THEOREM NumberArrivesAlways == Spec => []NumberArrives
<1>1. HeadInv => NumberArrives
  BY DEF HeadInv
<1> QED BY HeadAlways, <1>1, PTL

\* decode_uint, decode_int and the other calls refuse only what does not fit their type.
THEOREM RefusedAlways == Spec => []RefusedOnlyOutOfRange
<1>1. HeadInv => RefusedOnlyOutOfRange
  BY DEF HeadInv
<1> QED BY HeadAlways, <1>1, PTL

\* decode_u64 never makes a number of a part of its bytes.
THEOREM CutReportedAlways == Spec => []CutIsReported
<1>1. HeadInv => CutIsReported
  BY DEF HeadInv
<1> QED BY HeadAlways, <1>1, PTL

\* The decoder reads as many bytes as write_hdr_u64 wrote for every number.
THEOREM InStepAlways == Spec => []InStep
<1>1. HeadInv => InStep
  BY DEF HeadInv
<1> QED BY HeadAlways, <1>1, PTL
=============================================================================
