--------------------------- MODULE NetbufsProofs ----------------------------
(***************************************************************************)
(* The receiver is told what the sender said, for every schema, numbering  *)
(* of the names, value, nesting, delay and number of restarts.             *)
(*                                                                         *)
(* 1. Each end by itself: every open group and array of the client has its *)
(*    block, with the items counted in it that the client has dealt with   *)
(*    (SenderInv, ReceiverInv).  Hence the types, the active groups and    *)
(*    that the sender is never refused.  All this also holds for a receiver*)
(*    that takes over a stream in progress.                                *)
(* 2. The names: each pid in the stream stands for the name meant by it,   *)
(*    by the last definition before it or by what is learnt (NamesInv).    *)
(* 3. Both ends: the items in the stream lead the receiver from where it   *)
(*    is to where the sender is, and what is pending is what it is told on *)
(*    that way (InSynch).  The sender makes the way longer at its end, the *)
(*    receiver shorter at its beginning, a crash cuts it.  A receiver that *)
(*    takes over a stream has not learnt the names the way relies on, so   *)
(*    these theorems are about one that is there from the beginning.       *)
(* 4. The refinement: the pids among the items are the messages of         *)
(*    NbDictionary, and every step is one of its steps or none             *)
(*    (ExchangesNamesAlways).                                              *)
(***************************************************************************)
EXTENDS Netbufs, SequenceTheorems, WellFoundedInduction, TLAPS

\* A sequence, of anything.
IsSeq(s) == \E S : s \in Seq(S)

-----------------------------------------------------------------------------
(* One end: where the client is, the open blocks and the active group.     *)

BlockSet == [type : {"root", "map", "array"}, len : Nat, num_items : Nat,
             group : Groups \cup {NoGroup}]
ProperBlocks(blocks) ==
  /\ IsSeq(blocks) /\ blocks # <<>> /\ blocks[1] = Block("root", 0, NoGroup)
  /\ \A i \in 1..Len(blocks) : blocks[i] \in BlockSet
  /\ \A i \in 2..Len(blocks) : blocks[i].type # "root"

\* An attribute or array is open inside a group, and nothing inside an attribute.
ProperFrame(f) ==
  /\ f = Frame(f.kind, f.group, f.type, f.left)
  /\ f.kind \in {"group", "attr", "array"} /\ f.left \in Nat
  /\ f.kind = "group" => f.group \in Groups /\ f.left = 0
  /\ f.kind = "attr" => f.left = 1
  /\ f.kind = "array" => f.type.kind # "array"
ProperFrames(todo) ==
  /\ IsSeq(todo)
  /\ \A i \in 1..Len(todo) :
       /\ ProperFrame(todo[i])
       /\ todo[i].kind = "attr" => i = Len(todo)
       /\ todo[i].kind # "group" => i > 1 /\ todo[i - 1].kind = "group"

\* Each open group or array has a block, and what is left of an array and what was
\* counted are what was announced.
InAttr(todo) == todo # <<>> /\ Top(todo).kind = "attr"
InArray(todo) == todo # <<>> /\ Top(todo).kind = "array"
Opened(todo) == IF InAttr(todo) THEN Len(todo) - 1 ELSE Len(todo)
BlockOf(f, b, below) ==
  /\ f.kind = "group" => b.type = "map" /\ b.group = f.group
  /\ f.kind = "array" => /\ b.type = "array" /\ b.group = below.group
                         /\ b.num_items + f.left = b.len
Follow(blocks, todo) ==
  /\ Len(blocks) = Opened(todo) + 1
  /\ \A i \in 1..Opened(todo) : BlockOf(todo[i], blocks[i + 1], blocks[i])

EndOK(todo, blocks, active) ==
  /\ ProperFrames(todo) /\ ProperBlocks(blocks) /\ Follow(blocks, todo)
  /\ active = Top(blocks).group

\* Only a map whose attribute is due holds an odd number of items.
EvenMaps(todo, blocks) ==
  \A i \in 2..Len(blocks) :
    blocks[i].type = "map" =>
      blocks[i].num_items = IF i = Len(blocks) /\ InAttr(todo) THEN 1 ELSE 0

SenderInv ==
  /\ EndOK(stodo, sblocks, sactive) /\ EvenMaps(stodo, sblocks)
  /\ closed # "failed" /\ (closed = "cleanly" => stodo = <<>>)

\* The receiver's call in progress.  On its way to the ID of a group the map of the
\* group is open already, on its way to that of an attribute nothing is; the map of
\* the keys lies on top.
Idle == [at |-> "client", want |-> NoGroup, use |-> "none", name |-> NoName, pid |-> 0]
IsCall(call) ==
  /\ call = [at |-> call.at, want |-> call.want, use |-> call.use, name |-> call.name,
             pid |-> call.pid]
  /\ call.at \in Calls /\ call.want \in Groups \cup {NoGroup}
  /\ call.use \in {"none", "key 0", "group", "attr"} /\ call.pid \in Nat
AskOK(use, want, todo, blocks, active) ==
  /\ use \in {"key 0", "group", "attr"}
  /\ use # "attr" =>
       /\ want \in Groups /\ GroupOf(want) \in Due(todo)
       /\ ProperBlocks(blocks) /\ Len(blocks) > 1 /\ Top(blocks).type = "map"
       /\ EndOK(Begun(todo), Popped(blocks), active) /\ ~InAttr(Begun(todo))
  /\ use = "attr" => InGroup(todo) /\ EndOK(todo, blocks, active)
InKeys == {"keys name", "keys pid", "keys end"}
ReceiverOK(call, todo, blocks, active) ==
  /\ IsCall(call) /\ ProperBlocks(blocks) /\ active \in Groups \cup {NoGroup}
  /\ call.at = "client" => call = Idle
  /\ call.at \in {"client", "group", "group end"} => EndOK(todo, blocks, active)
  /\ call.at = "group" => call.want \in Groups /\ GroupOf(call.want) \in Due(todo)
  /\ call.at = "group end" => InGroup(todo)
  /\ call.at \in {"id", "keys map"} => AskOK(call.use, call.want, todo, blocks, active)
  /\ call.at \in InKeys =>
       /\ Len(blocks) > 1 /\ Top(blocks).type = "map"
       /\ AskOK(call.use, call.want, todo, Popped(blocks), active)
ReceiverInv == ReceiverOK(rcall, rtodo, rblocks, ractive)

\* The types of the rest.
NatItems(s) == IsSeq(s) /\ \A i \in 1..Len(s) : s[i].n \in Nat
StreamOK == NatItems(stream) /\ IsSeq(pending)
PidsOK ==
  /\ pid = [ns \in Namespaces |-> pid[ns]] /\ max_pid = [ns \in Namespaces |-> max_pid[ns]]
  /\ \A ns \in Namespaces : pid[ns] \in [NamesIn(ns) -> Nat] /\ max_pid[ns] \in Nat
LidsOK ==
  /\ pid_to_lid = [ns \in Namespaces |-> pid_to_lid[ns]]
  /\ \A ns \in Namespaces : pid_to_lid[ns] \in Seq(0..Len(RLids[ns]) - 1)

\* A block with n items more.
CountedBlock(b, n) ==
  CASE b.type = "root"  -> b
    [] b.type = "map"   -> [b EXCEPT !.num_items = (b.num_items + n) % 2]
    [] b.type = "array" -> [b EXCEPT !.num_items = b.num_items + n]

-----------------------------------------------------------------------------
(* Sequences of anything.                                                  *)

\* A sequence is a function on the numbers up to its length.
LEMMA SeqFacts ==
  ASSUME NEW s, IsSeq(s)
  PROVE  /\ Len(s) \in Nat
         /\ s # <<>> <=> Len(s) > 0
         /\ DOMAIN s = 1..Len(s)
         /\ s = [i \in 1..Len(s) |-> s[i]]
<1>1. PICK S : s \in Seq(S)
  BY DEF IsSeq
<1>2. Len(s) \in Nat /\ s \in [1..Len(s) -> S]
  BY <1>1, LenProperties
<1>3. s # <<>> => Len(s) > 0
  BY <1>1, EmptySeq
<1>4. s = <<>> => Len(s) = 0
  BY EmptySeq
<1>5. s = [i \in 1..Len(s) |-> s[i]]
  BY <1>2
<1> QED BY <1>2, <1>3, <1>4, <1>5

\* And every such function is a sequence.
LEMMA FunctionIsSeq ==
  ASSUME NEW n \in Nat, NEW s, s = [i \in 1..n |-> s[i]]
  PROVE  IsSeq(s) /\ Len(s) = n
<1> DEFINE S == {s[i] : i \in 1..n}
<1>1. s \in [1..n -> S]
  <2>1. \A i \in 1..n : s[i] \in S
    OBVIOUS
  <2> HIDE DEF S
  <2> QED BY <2>1
<1>2. s \in Seq(S)
  BY <1>1, SeqDef
<1>3. Len(s) \in Nat /\ DOMAIN s = 1..Len(s) /\ DOMAIN s = 1..n
  BY <1>1, <1>2, LenProperties
<1> QED BY <1>2, <1>3 DEF IsSeq

\* Two sequences with the same elements are one.
LEMMA SameSeq ==
  ASSUME NEW s, NEW t, IsSeq(s), IsSeq(t), Len(s) = Len(t),
         \A i \in 1..Len(s) : s[i] = t[i]
  PROVE  s = t
<1>1. s = [i \in 1..Len(s) |-> s[i]] /\ t = [i \in 1..Len(t) |-> t[i]]
  BY SeqFacts
<1> QED BY <1>1

\* The empty sequence.
LEMMA NoElements == IsSeq(<<>>) /\ Len(<<>>) = 0
BY EmptySeq DEF IsSeq

\* Something put on top comes off again.
LEMMA AppendFacts ==
  ASSUME NEW s, IsSeq(s), NEW x
  PROVE  /\ IsSeq(Append(s, x)) /\ Append(s, x) # <<>>
         /\ Len(Append(s, x)) = Len(s) + 1
         /\ \A i \in 1..Len(s) : Append(s, x)[i] = s[i]
         /\ Append(s, x)[Len(s) + 1] = x
         /\ Top(Append(s, x)) = x
         /\ Popped(Append(s, x)) = s
<1>1. PICK S : s \in Seq(S)
  BY DEF IsSeq
<1> DEFINE T == S \cup {x}
           t == Append(s, x)
<1>2. s \in Seq(T) /\ x \in T
  BY <1>1, SeqMonotonic
<1> HIDE DEF T
<1>3. /\ t \in Seq(T) /\ t # <<>> /\ Len(t) = Len(s) + 1
      /\ \A i \in 1..Len(s) : t[i] = s[i]
      /\ t[Len(s) + 1] = x
  BY <1>2, AppendProperties
<1>4. Len(s) \in Nat /\ IsSeq(t)
  BY <1>3, SeqFacts DEF IsSeq
<1> HIDE DEF t
<1>5. Popped(t) = s
  <2>1. \A i \in 1..Len(s) : t[i] \in T
    BY <1>3, <1>4, ElementOfSeq
  <2>2. /\ SubSeq(t, 1, Len(s)) \in Seq(T)
        /\ Len(SubSeq(t, 1, Len(s))) = IF 1 <= Len(s) THEN Len(s) - 1 + 1 ELSE 0
        /\ \A i \in 1..(Len(s) - 1 + 1) : SubSeq(t, 1, Len(s))[i] = t[1 + i - 1]
    BY <1>4, <2>1, SubSeqProperties
  <2>3. Len(t) - 1 = Len(s)
    BY <1>3, <1>4
  <2>4. Popped(t) = SubSeq(t, 1, Len(s))
    BY <2>3 DEF Popped
  <2>5. Len(SubSeq(t, 1, Len(s))) = Len(s)
    BY <1>4, <2>2
  <2>6. \A i \in 1..Len(s) : SubSeq(t, 1, Len(s))[i] = s[i]
    BY <1>3, <1>4, <2>2
  <2> QED BY <1>2, <2>2, <2>4, <2>5, <2>6, SeqEqual
<1>6. Top(t) = x
  BY <1>3 DEF Top
<1>7. /\ IsSeq(t) /\ t # <<>> /\ Len(t) = Len(s) + 1
      /\ \A i \in 1..Len(s) : t[i] = s[i]
      /\ t[Len(s) + 1] = x /\ Top(t) = x /\ Popped(t) = s
  BY <1>3, <1>4, <1>5, <1>6
<1> QED BY <1>7 DEF t

\* A shorter sequence with the same beginning.
LEMMA PrefixFacts ==
  ASSUME NEW s, IsSeq(s), NEW n \in 0..Len(s)
  PROVE  /\ IsSeq(SubSeq(s, 1, n)) /\ Len(SubSeq(s, 1, n)) = n
         /\ \A i \in 1..n : SubSeq(s, 1, n)[i] = s[i]
<1>1. PICK S : s \in Seq(S)
  BY DEF IsSeq
<1>2. Len(s) \in Nat
  BY SeqFacts
<1>3. \A i \in 1..n : s[i] \in S
  BY <1>1, <1>2, ElementOfSeq
<1>4. /\ SubSeq(s, 1, n) \in Seq(S)
      /\ Len(SubSeq(s, 1, n)) = IF 1 <= n THEN n - 1 + 1 ELSE 0
      /\ \A i \in 1..(n - 1 + 1) : SubSeq(s, 1, n)[i] = s[1 + i - 1]
  BY <1>2, <1>3, SubSeqProperties
<1>5. n \in Nat /\ n - 1 + 1 = n /\ (n = 0 \/ 1 <= n) /\ \A i \in 1..n : 1 + i - 1 = i
  BY <1>2
<1>6. Len(SubSeq(s, 1, n)) = n
  BY <1>4, <1>5
<1>7. \A i \in 1..n : SubSeq(s, 1, n)[i] = s[i]
  BY <1>4, <1>5
<1> QED BY <1>4, <1>6, <1>7 DEF IsSeq

\* Without its last element.
LEMMA PoppedFacts ==
  ASSUME NEW s, IsSeq(s), s # <<>>
  PROVE  /\ IsSeq(Popped(s)) /\ Len(Popped(s)) = Len(s) - 1
         /\ \A i \in 1..(Len(s) - 1) : Popped(s)[i] = s[i]
<1>1. Len(s) \in Nat /\ Len(s) > 0
  BY SeqFacts
<1>2. Len(s) - 1 \in 0..Len(s)
  BY <1>1
<1> DEFINE n == Len(s) - 1
<1> HIDE DEF n
<1>3. n \in 0..Len(s)
  BY <1>2 DEF n
<1>4. /\ IsSeq(SubSeq(s, 1, n)) /\ Len(SubSeq(s, 1, n)) = n
      /\ \A i \in 1..n : SubSeq(s, 1, n)[i] = s[i]
  BY <1>3, PrefixFacts
<1> QED BY <1>4 DEF n, Popped

\* With another last element.
LEMMA ChangedTopFacts ==
  ASSUME NEW s, IsSeq(s), s # <<>>, NEW x, NEW t, t = [s EXCEPT ![Len(s)] = x]
  PROVE  /\ IsSeq(t) /\ Len(t) = Len(s) /\ t # <<>>
         /\ \A i \in 1..(Len(s) - 1) : t[i] = s[i]
         /\ Top(t) = x
         /\ Popped(t) = Popped(s)
<1>1. Len(s) \in Nat /\ Len(s) > 0 /\ DOMAIN s = 1..Len(s)
  BY SeqFacts
<1> DEFINE n == Len(s)
<1> HIDE DEF n
<1>0. n \in Nat /\ n > 0 /\ DOMAIN s = 1..n /\ t = [s EXCEPT ![n] = x]
  BY <1>1 DEF n
<1>2. t = [i \in 1..n |-> t[i]]
  BY <1>0
<1>3. IsSeq(t) /\ Len(t) = Len(s)
  BY <1>0, <1>2, FunctionIsSeq DEF n
<1>4. t # <<>>
  BY <1>1, <1>3, NoElements
<1>5. \A i \in 1..(Len(s) - 1) : t[i] = s[i]
  <2>1. \A i \in 1..(n - 1) : i \in 1..n /\ i # n
    BY <1>0
  <2>2. \A i \in 1..(n - 1) : t[i] = s[i]
    BY <1>0, <2>1
  <2> QED BY <2>2 DEF n
<1>6. t[Len(s)] = x
  <2>1. n \in 1..n
    BY <1>0
  <2>2. t[n] = x
    BY <1>0, <2>1
  <2> QED BY <2>2 DEF n
<1>7. Top(t) = x
  BY <1>3, <1>6 DEF Top
<1>8. Popped(t) = Popped(s)
  <2>1. /\ IsSeq(Popped(s)) /\ Len(Popped(s)) = Len(s) - 1
        /\ \A i \in 1..(Len(s) - 1) : Popped(s)[i] = s[i]
    BY PoppedFacts
  <2>2. /\ IsSeq(Popped(t)) /\ Len(Popped(t)) = Len(t) - 1
        /\ \A i \in 1..(Len(t) - 1) : Popped(t)[i] = t[i]
    BY <1>3, <1>4, PoppedFacts
  <2>3. Len(Popped(t)) = Len(Popped(s)) /\ Len(Popped(s)) = Len(s) - 1
    BY <1>3, <2>1, <2>2
  <2>4. \A i \in 1..(Len(s) - 1) : Popped(t)[i] = Popped(s)[i]
    BY <1>3, <1>5, <2>1, <2>2
  <2> QED BY <2>1, <2>2, <2>3, <2>4, SameSeq
<1> QED BY <1>3, <1>4, <1>5, <1>7, <1>8

\* Without its first element.
LEMMA TailFacts ==
  ASSUME NEW s, IsSeq(s), s # <<>>
  PROVE  /\ IsSeq(Tail(s)) /\ Len(Tail(s)) = Len(s) - 1
         /\ \A i \in 1..(Len(s) - 1) : Tail(s)[i] = s[i + 1]
         /\ Head(s) = s[1]
<1>1. PICK S : s \in Seq(S)
  BY DEF IsSeq
<1> QED BY <1>1, HeadTailProperties, SeqFacts DEF IsSeq

\* Something added behind is seen in front only if nothing else is there.
LEMMA HeadOfAppend ==
  ASSUME NEW s, IsSeq(s), s # <<>>, NEW x
  PROVE  Head(Append(s, x)) = Head(s) /\ Tail(Append(s, x)) = Append(Tail(s), x)
<1>1. PICK S : s \in Seq(S)
  BY DEF IsSeq
<1> QED BY <1>1, HeadTailAppend

\* One sequence behind another.
LEMMA ConcatFacts ==
  ASSUME NEW s, IsSeq(s), NEW t, IsSeq(t)
  PROVE  /\ IsSeq(s \o t) /\ Len(s \o t) = Len(s) + Len(t)
         /\ \A i \in 1..Len(s) : (s \o t)[i] = s[i]
         /\ \A i \in 1..Len(t) : (s \o t)[Len(s) + i] = t[i]
<1>1. PICK S : s \in Seq(S)
  BY DEF IsSeq
<1>2. PICK T : t \in Seq(T)
  BY DEF IsSeq
<1> DEFINE U == S \cup T
           r == s \o t
<1>3. s \in Seq(U) /\ t \in Seq(U)
  BY <1>1, <1>2, SeqMonotonic
<1> HIDE DEF U
<1>4. /\ r \in Seq(U) /\ Len(r) = Len(s) + Len(t)
      /\ \A i \in 1..(Len(s) + Len(t)) :
           r[i] = IF i <= Len(s) THEN s[i] ELSE t[i - Len(s)]
  BY <1>3, ConcatProperties
<1> HIDE DEF r
<1>5. Len(s) \in Nat /\ Len(t) \in Nat
  BY SeqFacts
<1>6. \A i \in 1..Len(s) : r[i] = s[i]
  BY <1>4, <1>5
<1>7. \A i \in 1..Len(t) : r[Len(s) + i] = t[i]
  <2> SUFFICES ASSUME NEW i \in 1..Len(t) PROVE r[Len(s) + i] = t[i]
    OBVIOUS
  <2>1. Len(s) + i \in 1..(Len(s) + Len(t)) /\ ~(Len(s) + i <= Len(s)) /\ (Len(s) + i) - Len(s) = i
    BY <1>5
  <2> DEFINE k == Len(s) + i
  <2> HIDE DEF k
  <2>2. k \in 1..(Len(s) + Len(t)) /\ ~(k <= Len(s)) /\ k - Len(s) = i
    BY <2>1 DEF k
  <2>3. r[k] = t[k - Len(s)]
    BY <1>4, <2>2
  <2> QED BY <2>2, <2>3 DEF k
<1>8. IsSeq(r)
  BY <1>4 DEF IsSeq
<1> QED BY <1>4, <1>6, <1>7, <1>8 DEF r

-----------------------------------------------------------------------------
(* Blocks.                                                                 *)

\* Only num_items of the block counts.
LEMMA CountedBlockFacts ==
  ASSUME NEW b \in BlockSet, NEW n \in Nat
  PROVE  /\ CountedBlock(b, n) \in BlockSet
         /\ CountedBlock(b, n).type = b.type
         /\ CountedBlock(b, n).len = b.len
         /\ CountedBlock(b, n).group = b.group
         /\ b.type = "root" => CountedBlock(b, n) = b
         /\ b.type = "map" => CountedBlock(b, n).num_items = (b.num_items + n) % 2
         /\ b.type = "array" => CountedBlock(b, n).num_items = b.num_items + n
<1>1. b.num_items + n \in Nat /\ (b.num_items + n) % 2 \in Nat
  BY DEF BlockSet
<1>2. CASE b.type = "root"
  BY <1>2 DEF CountedBlock
<1>3. CASE b.type = "map"
  <2>1. CountedBlock(b, n) = [b EXCEPT !.num_items = (b.num_items + n) % 2]
    BY <1>3 DEF CountedBlock
  <2> QED BY <1>1, <1>3, <2>1 DEF BlockSet
<1>4. CASE b.type = "array"
  <2>1. CountedBlock(b, n) = [b EXCEPT !.num_items = b.num_items + n]
    BY <1>4 DEF CountedBlock
  <2> QED BY <1>1, <1>4, <2>1 DEF BlockSet
<1> QED BY <1>2, <1>3, <1>4 DEF BlockSet

\* Counting changes the innermost block only.
LEMMA CountedIs ==
  ASSUME NEW s, IsSeq(s), s # <<>>, Top(s) \in BlockSet, NEW n
  PROVE  Counted(s, n) = [s EXCEPT ![Len(s)] = CountedBlock(Top(s), n)]
<1>1. Top(s) = s[Len(s)]
  BY DEF Top
<1>2. CASE Top(s).type = "root"
  <2>1. s = [s EXCEPT ![Len(s)] = s[Len(s)]]
    <3>1. s = [i \in 1..Len(s) |-> s[i]]
      BY SeqFacts
    <3> QED BY <3>1
  <2> QED BY <1>1, <1>2, <2>1 DEF Counted, CountedBlock
<1>3. CASE Top(s).type = "map"
  BY <1>1, <1>3 DEF Counted, CountedBlock
<1>4. CASE Top(s).type = "array"
  BY <1>1, <1>4 DEF Counted, CountedBlock
<1> QED BY <1>2, <1>3, <1>4 DEF BlockSet

\* The innermost block is one of the blocks.
LEMMA TopBlock ==
  ASSUME NEW s, ProperBlocks(s)
  PROVE  /\ IsSeq(s) /\ s # <<>> /\ Len(s) \in Nat /\ Len(s) > 0
         /\ Top(s) \in BlockSet /\ Top(s) = s[Len(s)]
<1>1. Len(s) \in Nat /\ Len(s) > 0
  BY SeqFacts DEF ProperBlocks
<1> QED BY <1>1 DEF ProperBlocks, Top

\* Proper blocks are so with another innermost block of the same type, and
LEMMA ChangedTopProper ==
  ASSUME NEW s, ProperBlocks(s), NEW b \in BlockSet, b.type = Top(s).type,
         b.type = "root" => b = Top(s)
  PROVE  ProperBlocks([s EXCEPT ![Len(s)] = b])
<1> DEFINE t == [s EXCEPT ![Len(s)] = b]
<1>1. IsSeq(s) /\ s # <<>> /\ Len(s) \in Nat /\ Len(s) > 0 /\ Top(s) = s[Len(s)]
  BY TopBlock
<1>2. /\ IsSeq(t) /\ Len(t) = Len(s) /\ t # <<>>
      /\ \A i \in 1..(Len(s) - 1) : t[i] = s[i]
      /\ Top(t) = b
  BY <1>1, ChangedTopFacts
<1> HIDE DEF t
<1>3. t[Len(s)] = b
  BY <1>2 DEF Top
<1>4. \A i \in 1..Len(t) : t[i] \in BlockSet
  BY <1>1, <1>2, <1>3 DEF ProperBlocks
<1>5. \A i \in 2..Len(t) : t[i].type # "root"
  <2> SUFFICES ASSUME NEW i \in 2..Len(t) PROVE t[i].type # "root"
    OBVIOUS
  <2>1. CASE i = Len(s)
    <3>1. s[i].type # "root"
      BY <1>2 DEF ProperBlocks
    <3> QED BY <1>1, <1>3, <2>1, <3>1
  <2>2. CASE i # Len(s)
    <3>1. i \in 1..(Len(s) - 1) /\ i \in 2..Len(s)
      BY <1>1, <1>2, <2>2
    <3> QED BY <1>2, <3>1 DEF ProperBlocks
  <2> QED BY <2>1, <2>2
<1>6. t[1] = Block("root", 0, NoGroup)
  <2>1. CASE Len(s) = 1
    <3>1. b = Top(s)
      BY <1>1, <2>1 DEF ProperBlocks, Block
    <3> QED BY <1>1, <1>3, <2>1, <3>1 DEF ProperBlocks
  <2>2. CASE Len(s) # 1
    BY <1>1, <1>2, <2>2 DEF ProperBlocks
  <2> QED BY <2>1, <2>2
<1>7. ProperBlocks(t)
  BY <1>2, <1>4, <1>5, <1>6 DEF ProperBlocks
<1> QED BY <1>7 DEF t

\* What counting does to a stack of blocks.
LEMMA CountedFacts ==
  ASSUME NEW s, ProperBlocks(s), NEW n \in Nat
  PROVE  /\ ProperBlocks(Counted(s, n)) /\ Len(Counted(s, n)) = Len(s)
         /\ \A i \in 1..(Len(s) - 1) : Counted(s, n)[i] = s[i]
         /\ Top(Counted(s, n)) = CountedBlock(Top(s), n)
         /\ Popped(Counted(s, n)) = Popped(s)
<1>1. IsSeq(s) /\ s # <<>> /\ Len(s) \in Nat /\ Top(s) \in BlockSet
  BY TopBlock
<1> DEFINE b == CountedBlock(Top(s), n)
<1>2. b \in BlockSet /\ b.type = Top(s).type /\ (b.type = "root" => b = Top(s))
  BY <1>1, CountedBlockFacts
<1>3. Counted(s, n) = [s EXCEPT ![Len(s)] = b]
  BY <1>1, CountedIs
<1> HIDE DEF b
<1>4. ProperBlocks(Counted(s, n))
  BY <1>2, <1>3, ChangedTopProper
<1>5. /\ Len(Counted(s, n)) = Len(s)
      /\ \A i \in 1..(Len(s) - 1) : Counted(s, n)[i] = s[i]
      /\ Top(Counted(s, n)) = b
      /\ Popped(Counted(s, n)) = Popped(s)
  <2> DEFINE t == [s EXCEPT ![Len(s)] = b]
  <2>1. /\ Len(t) = Len(s) /\ Top(t) = b /\ Popped(t) = Popped(s)
        /\ \A i \in 1..(Len(s) - 1) : t[i] = s[i]
    BY <1>1, ChangedTopFacts
  <2> QED BY <1>3, <2>1
<1> QED BY <1>4, <1>5 DEF b

\* A block on top of the others.
LEMMA AppendProper ==
  ASSUME NEW s, ProperBlocks(s), NEW b \in BlockSet, b.type # "root"
  PROVE  ProperBlocks(Append(s, b))
<1>1. IsSeq(s) /\ Len(s) \in Nat /\ Len(s) > 0
  BY TopBlock
<1>2. /\ IsSeq(Append(s, b)) /\ Append(s, b) # <<>>
      /\ Len(Append(s, b)) = Len(s) + 1
      /\ \A i \in 1..Len(s) : Append(s, b)[i] = s[i]
      /\ Append(s, b)[Len(s) + 1] = b
  BY <1>1, AppendFacts
<1>3. \A i \in 1..Len(Append(s, b)) : Append(s, b)[i] \in BlockSet
  BY <1>1, <1>2 DEF ProperBlocks
<1>4. \A i \in 2..Len(Append(s, b)) : Append(s, b)[i].type # "root"
  <2> SUFFICES ASSUME NEW i \in 2..Len(Append(s, b)) PROVE Append(s, b)[i].type # "root"
    OBVIOUS
  <2>1. i = Len(s) + 1 \/ i \in 2..Len(s)
    BY <1>1, <1>2
  <2>2. CASE i = Len(s) + 1
    BY <1>2, <2>2
  <2>3. CASE i \in 2..Len(s)
    BY <1>1, <1>2, <2>3 DEF ProperBlocks
  <2> QED BY <2>1, <2>2, <2>3
<1>5. Append(s, b)[1] = Block("root", 0, NoGroup)
  BY <1>1, <1>2 DEF ProperBlocks
<1> QED BY <1>2, <1>3, <1>4, <1>5 DEF ProperBlocks

\* The blocks below the innermost one.
LEMMA PoppedProper ==
  ASSUME NEW s, ProperBlocks(s), Len(s) > 1
  PROVE  /\ ProperBlocks(Popped(s)) /\ Len(Popped(s)) = Len(s) - 1
         /\ \A i \in 1..(Len(s) - 1) : Popped(s)[i] = s[i]
<1>1. IsSeq(s) /\ s # <<>> /\ Len(s) \in Nat
  BY TopBlock
<1>2. /\ IsSeq(Popped(s)) /\ Len(Popped(s)) = Len(s) - 1
      /\ \A i \in 1..(Len(s) - 1) : Popped(s)[i] = s[i]
  BY <1>1, PoppedFacts
<1>3. Popped(s) # <<>>
  BY <1>1, <1>2, NoElements
<1>4. 1 \in 1..(Len(s) - 1) /\ \A i \in 1..(Len(s) - 1) : i \in 1..Len(s)
  BY <1>1
<1>5. \A i \in 2..(Len(s) - 1) : i \in 2..Len(s) /\ i \in 1..(Len(s) - 1)
  BY <1>1
<1>6. Popped(s)[1] = Block("root", 0, NoGroup)
  BY <1>2, <1>4 DEF ProperBlocks
<1>7. \A i \in 1..Len(Popped(s)) : Popped(s)[i] \in BlockSet
  BY <1>2, <1>4 DEF ProperBlocks
<1>8. \A i \in 2..Len(Popped(s)) : Popped(s)[i].type # "root"
  BY <1>2, <1>5 DEF ProperBlocks
<1> QED BY <1>2, <1>3, <1>6, <1>7, <1>8 DEF ProperBlocks

\* An array's block, and a map's.
LEMMA PushedFacts ==
  ASSUME NEW s, ProperBlocks(s), NEW type \in {"map", "array"}, NEW n \in Nat
  PROVE  LET b == [type |-> type, len |-> n, num_items |-> 0, group |-> Top(s).group]
         IN  /\ b \in BlockSet /\ Pushed(s, type, n) = Append(s, b)
             /\ ProperBlocks(Pushed(s, type, n))
             /\ Len(Pushed(s, type, n)) = Len(s) + 1
             /\ \A i \in 1..Len(s) : Pushed(s, type, n)[i] = s[i]
             /\ Top(Pushed(s, type, n)) = b
             /\ Popped(Pushed(s, type, n)) = s
<1> DEFINE b == [type |-> type, len |-> n, num_items |-> 0, group |-> Top(s).group]
<1>1. IsSeq(s) /\ Top(s) \in BlockSet
  BY TopBlock
<1>2. b \in BlockSet /\ b.type # "root"
  BY <1>1 DEF BlockSet
<1>3. Pushed(s, type, n) = Append(s, b)
  BY DEF Pushed, Block
<1> HIDE DEF b
<1>4. ProperBlocks(Append(s, b))
  BY <1>2, AppendProper
<1>5. /\ Len(Append(s, b)) = Len(s) + 1
      /\ \A i \in 1..Len(s) : Append(s, b)[i] = s[i]
      /\ Top(Append(s, b)) = b /\ Popped(Append(s, b)) = s
  BY <1>1, AppendFacts
<1>6. /\ b \in BlockSet /\ Pushed(s, type, n) = Append(s, b)
      /\ ProperBlocks(Pushed(s, type, n))
      /\ Len(Pushed(s, type, n)) = Len(s) + 1
      /\ \A i \in 1..Len(s) : Pushed(s, type, n)[i] = s[i]
      /\ Top(Pushed(s, type, n)) = b
      /\ Popped(Pushed(s, type, n)) = s
  BY <1>2, <1>3, <1>4, <1>5
<1> QED BY <1>6 DEF b

\* The same of a map, of which the length does not count.
LEMMA PushedMap ==
  ASSUME NEW s, ProperBlocks(s)
  PROVE  /\ ProperBlocks(Pushed(s, "map", 0)) /\ Len(Pushed(s, "map", 0)) = Len(s) + 1
         /\ Popped(Pushed(s, "map", 0)) = s
         /\ Top(Pushed(s, "map", 0)).type = "map"
         /\ Top(Pushed(s, "map", 0)).num_items = 0
         /\ Top(Pushed(s, "map", 0)).group = Top(s).group
<1> DEFINE b == [type |-> "map", len |-> 0, num_items |-> 0, group |-> Top(s).group]
           d == Pushed(s, "map", 0)
<1>1. "map" \in {"map", "array"} /\ 0 \in Nat
  OBVIOUS
<1>2. /\ ProperBlocks(d) /\ Len(d) = Len(s) + 1 /\ Popped(d) = s /\ Top(d) = b
  BY <1>1, PushedFacts
<1>3. b.type = "map" /\ b.num_items = 0 /\ b.group = Top(s).group
  OBVIOUS
<1> HIDE DEF b, d
<1>4. Top(d).type = "map" /\ Top(d).num_items = 0 /\ Top(d).group = Top(s).group
  BY <1>2, <1>3
<1> QED BY <1>2, <1>4 DEF d

\* The block of a group.
LEMMA WithGroupFacts ==
  ASSUME NEW s, ProperBlocks(s), Top(s).type = "map", NEW g \in Groups
  PROVE  /\ ProperBlocks(WithGroup(s, g)) /\ Len(WithGroup(s, g)) = Len(s)
         /\ \A i \in 1..(Len(s) - 1) : WithGroup(s, g)[i] = s[i]
         /\ Top(WithGroup(s, g)) = [Top(s) EXCEPT !.group = g]
         /\ Top(WithGroup(s, g)) \in BlockSet
         /\ Top(WithGroup(s, g)).type = "map" /\ Top(WithGroup(s, g)).group = g
         /\ Top(WithGroup(s, g)).num_items = Top(s).num_items
         /\ Top(WithGroup(s, g)).len = Top(s).len
         /\ Popped(WithGroup(s, g)) = Popped(s)
<1>1. IsSeq(s) /\ s # <<>> /\ Top(s) \in BlockSet /\ Top(s) = s[Len(s)]
  BY TopBlock
<1> DEFINE b == [Top(s) EXCEPT !.group = g]
<1>2. /\ b \in BlockSet /\ b.type = "map" /\ b.group = g
      /\ b.num_items = Top(s).num_items /\ b.len = Top(s).len
  BY <1>1 DEF BlockSet
<1>3. WithGroup(s, g) = [s EXCEPT ![Len(s)] = b]
  BY <1>1 DEF WithGroup
<1> HIDE DEF b
<1>4. ProperBlocks(WithGroup(s, g))
  <2>1. b.type = Top(s).type /\ (b.type = "root" => b = Top(s))
    BY <1>2
  <2>2. ProperBlocks([s EXCEPT ![Len(s)] = b])
    BY <1>2, <2>1, ChangedTopProper
  <2> QED BY <1>3, <2>2
<1>5. /\ Len(WithGroup(s, g)) = Len(s)
      /\ \A i \in 1..(Len(s) - 1) : WithGroup(s, g)[i] = s[i]
      /\ Top(WithGroup(s, g)) = b /\ Popped(WithGroup(s, g)) = Popped(s)
  <2> DEFINE t == [s EXCEPT ![Len(s)] = b]
  <2>1. IsSeq(s) /\ s # <<>>
    BY <1>1
  <2>2. /\ Len(t) = Len(s) /\ Top(t) = b /\ Popped(t) = Popped(s)
        /\ \A i \in 1..(Len(s) - 1) : t[i] = s[i]
    BY ONLY <2>1, ChangedTopFacts
  <2> QED BY <1>3, <2>2
<1> QED BY <1>2, <1>4, <1>5 DEF b

-----------------------------------------------------------------------------
(* What the clients' calls do to an end.                                   *)

\* The innermost frame is one of the frames.
LEMMA TopFrame ==
  ASSUME NEW todo, ProperFrames(todo), todo # <<>>
  PROVE  /\ IsSeq(todo) /\ Len(todo) \in Nat /\ Len(todo) > 0
         /\ Top(todo) = todo[Len(todo)] /\ ProperFrame(Top(todo))
         /\ Top(todo).kind # "group" => /\ Len(todo) > 1
                                        /\ todo[Len(todo) - 1].kind = "group"
<1>1. Len(todo) \in Nat /\ Len(todo) > 0
  BY SeqFacts DEF ProperFrames
<1>2. Len(todo) \in 1..Len(todo)
  BY <1>1
<1> QED BY <1>1, <1>2 DEF ProperFrames, Top

\* The number of open groups and arrays.
LEMMA OpenedNat == ASSUME NEW todo, ProperFrames(todo) PROVE Opened(todo) \in Nat
<1>1. Len(todo) \in Nat
  BY SeqFacts DEF ProperFrames
<1>2. InAttr(todo) => Len(todo) > 0
  BY TopFrame DEF InAttr
<1> QED BY <1>1, <1>2 DEF Opened

\* A frame less.
LEMMA PoppedFrames ==
  ASSUME NEW todo, ProperFrames(todo), todo # <<>>
  PROVE  /\ ProperFrames(Popped(todo)) /\ Len(Popped(todo)) = Len(todo) - 1
         /\ \A i \in 1..(Len(todo) - 1) : Popped(todo)[i] = todo[i]
         /\ ~InAttr(Popped(todo))
         /\ Opened(Popped(todo)) = Len(todo) - 1
<1>1. IsSeq(todo) /\ Len(todo) \in Nat /\ Len(todo) > 0
  BY TopFrame
<1> DEFINE s == Popped(todo)
<1>2. /\ IsSeq(s) /\ Len(s) = Len(todo) - 1
      /\ \A i \in 1..(Len(todo) - 1) : s[i] = todo[i]
  BY <1>1, PoppedFacts
<1> HIDE DEF s
<1>3. ASSUME NEW i \in 1..Len(s)
      PROVE  /\ ProperFrame(s[i])
             /\ s[i].kind # "attr"
             /\ s[i].kind # "group" => i > 1 /\ s[i - 1].kind = "group"
  <2>1. i \in 1..Len(todo) /\ i # Len(todo) /\ i \in 1..(Len(todo) - 1)
    BY <1>1, <1>2
  <2>2. s[i] = todo[i]
    BY <1>2, <2>1
  <2>3. i > 1 => i - 1 \in 1..(Len(todo) - 1)
    BY <1>1, <2>1
  <2>4. i > 1 => s[i - 1] = todo[i - 1]
    BY <1>2, <2>3
  <2> QED BY <2>1, <2>2, <2>4 DEF ProperFrames
<1>4. ProperFrames(s)
  BY <1>2, <1>3 DEF ProperFrames
<1>5. ~InAttr(s)
  <2> SUFFICES ASSUME s # <<>> PROVE Top(s).kind # "attr"
    BY DEF InAttr
  <2>1. Len(s) \in Nat /\ Len(s) > 0
    BY <1>2, SeqFacts
  <2> QED BY <1>3, <2>1 DEF Top
<1>6. Opened(s) = Len(todo) - 1
  BY <1>2, <1>5 DEF Opened
<1> QED BY <1>2, <1>4, <1>5, <1>6 DEF s

\* A frame more.
LEMMA AppendFrames ==
  ASSUME NEW todo, ProperFrames(todo), ~InAttr(todo), NEW f, ProperFrame(f),
         f.kind # "group" => InGroup(todo)
  PROVE  /\ ProperFrames(Append(todo, f)) /\ Len(Append(todo, f)) = Len(todo) + 1
         /\ \A i \in 1..Len(todo) : Append(todo, f)[i] = todo[i]
         /\ Append(todo, f)[Len(todo) + 1] = f /\ Top(Append(todo, f)) = f
         /\ Append(todo, f) # <<>>
         /\ Opened(todo) = Len(todo)
<1>1. IsSeq(todo) /\ Len(todo) \in Nat
  BY SeqFacts DEF ProperFrames
<1> DEFINE s == Append(todo, f)
<1>2. /\ IsSeq(s) /\ s # <<>> /\ Len(s) = Len(todo) + 1
      /\ \A i \in 1..Len(todo) : s[i] = todo[i]
      /\ s[Len(todo) + 1] = f /\ Top(s) = f
  BY <1>1, AppendFacts
<1> HIDE DEF s
<1>3. ASSUME NEW i \in 1..Len(s)
      PROVE  /\ ProperFrame(s[i])
             /\ s[i].kind = "attr" => i = Len(s)
             /\ s[i].kind # "group" => i > 1 /\ s[i - 1].kind = "group"
  <2>1. CASE i = Len(todo) + 1
    <3>1. s[i] = f
      BY <1>2, <2>1
    <3>2. f.kind # "group" => todo # <<>> /\ Len(todo) > 0 /\ todo[Len(todo)].kind = "group"
      BY <1>1, SeqFacts DEF InGroup, Top
    <3>3. f.kind # "group" => i > 1 /\ i - 1 = Len(todo) /\ Len(todo) \in 1..Len(todo)
      BY <1>1, <2>1, <3>2
    <3>4. f.kind # "group" => s[i - 1].kind = "group"
      BY <1>2, <3>2, <3>3
    <3> QED BY <1>2, <2>1, <3>1, <3>3, <3>4
  <2>2. CASE i # Len(todo) + 1
    <3>1. i \in 1..Len(todo) /\ (i > 1 => i - 1 \in 1..Len(todo))
      BY <1>1, <1>2, <2>2
    <3>2. s[i] = todo[i] /\ (i > 1 => s[i - 1] = todo[i - 1])
      BY <1>2, <3>1
    <3>3. todo[i].kind # "attr"
      <4>1. todo[i].kind = "attr" => i = Len(todo)
        BY <3>1 DEF ProperFrames
      <4>2. todo # <<>>
        BY <1>1, <3>1, SeqFacts
      <4>3. todo[Len(todo)].kind # "attr"
        BY <4>2 DEF InAttr, Top
      <4> QED BY <4>1, <4>3
    <3> QED BY <3>1, <3>2, <3>3 DEF ProperFrames
  <2> QED BY <2>1, <2>2
<1>4. ProperFrames(s)
  BY <1>2, <1>3 DEF ProperFrames
<1>5. Opened(todo) = Len(todo)
  BY DEF Opened
<1> QED BY <1>2, <1>4, <1>5 DEF s

\* Nothing is open.
LEMMA EndRoot == EndOK(<<>>, Root, NoGroup)
<1> DEFINE b == Block("root", 0, NoGroup)
<1>1. b \in BlockSet /\ b.group = NoGroup
  BY DEF Block, BlockSet
<1>2. /\ IsSeq(Append(<<>>, b)) /\ Append(<<>>, b) # <<>> /\ Len(Append(<<>>, b)) = 1
      /\ Append(<<>>, b)[1] = b /\ Top(Append(<<>>, b)) = b
  <2> DEFINE e == <<>>
  <2>1. IsSeq(e) /\ Len(e) = 0 /\ Len(e) + 1 = 1
    BY NoElements
  <2> HIDE DEF e, b
  <2>2. /\ IsSeq(Append(e, b)) /\ Append(e, b) # <<>> /\ Len(Append(e, b)) = Len(e) + 1
        /\ Append(e, b)[Len(e) + 1] = b /\ Top(Append(e, b)) = b
    BY <2>1, AppendFacts
  <2> QED BY <2>1, <2>2 DEF e
<1>3. Root = Append(<<>>, b)
  BY DEF Root
<1> HIDE DEF b
<1>4. /\ IsSeq(Root) /\ Root # <<>> /\ Len(Root) = 1 /\ Root[1] = b /\ Top(Root) = b
  BY <1>2, <1>3
<1>5. ProperBlocks(Root)
  <2>1. \A i \in 1..Len(Root) : Root[i] \in BlockSet
    BY <1>1, <1>4
  <2>2. \A i \in 2..Len(Root) : Root[i].type # "root"
    BY <1>4
  <2> QED BY <1>4, <2>1, <2>2 DEF ProperBlocks, b
<1>6. ProperFrames(<<>>)
  BY NoElements DEF ProperFrames
<1>7. Follow(Root, <<>>)
  <2>1. Opened(<<>>) = 0
    BY NoElements DEF Opened, InAttr
  <2> QED BY <1>4, <2>1 DEF Follow
<1> QED BY <1>1, <1>4, <1>5, <1>6, <1>7 DEF EndOK

\* What the innermost frame says of the innermost block and the active group.
LEMMA EndTop ==
  ASSUME NEW todo, NEW blocks, NEW active, EndOK(todo, blocks, active)
  PROVE  /\ active \in Groups \cup {NoGroup}
         /\ InGroup(todo) =>
              /\ active = Top(todo).group /\ active \in Groups
              /\ Top(blocks).type = "map" /\ Len(blocks) > 1
         /\ InArray(todo) =>
              /\ Top(blocks).type = "array" /\ Len(blocks) > 1
              /\ Top(blocks).num_items + Top(todo).left = Top(blocks).len
         /\ InAttr(todo) =>
              /\ Top(blocks).type = "map" /\ Len(blocks) > 1
         /\ todo = <<>> => blocks = Root /\ Top(blocks).type = "root" /\ active = NoGroup
<1>1. /\ IsSeq(blocks) /\ Len(blocks) \in Nat /\ Len(blocks) > 0
      /\ Top(blocks) \in BlockSet /\ Top(blocks) = blocks[Len(blocks)]
  BY TopBlock DEF EndOK
<1>2. active = Top(blocks).group /\ active \in Groups \cup {NoGroup}
  BY <1>1 DEF EndOK, BlockSet
<1>3. ASSUME todo # <<>>, ~InAttr(todo)
      PROVE  /\ Len(blocks) > 1
             /\ BlockOf(Top(todo), Top(blocks), blocks[Len(blocks) - 1])
             /\ ProperFrame(Top(todo))
  <2>1. Len(todo) \in Nat /\ Len(todo) > 0 /\ Top(todo) = todo[Len(todo)] /\ ProperFrame(Top(todo))
    BY <1>3, TopFrame DEF EndOK
  <2>2. Opened(todo) = Len(todo) /\ Len(blocks) = Len(todo) + 1
    BY <1>3 DEF EndOK, Follow, Opened
  <2>3. Len(todo) \in 1..Opened(todo) /\ Len(blocks) - 1 = Len(todo)
    BY <2>1, <2>2
  <2>4. BlockOf(todo[Len(todo)], blocks[Len(todo) + 1], blocks[Len(todo)])
    BY <2>3 DEF EndOK, Follow
  <2> QED BY <1>1, <2>1, <2>2, <2>3, <2>4
<1>4. ASSUME InGroup(todo)
      PROVE  /\ active = Top(todo).group /\ active \in Groups
             /\ Top(blocks).type = "map" /\ Len(blocks) > 1
  <2>1. todo # <<>> /\ ~InAttr(todo) /\ Top(todo).kind = "group"
    BY <1>4 DEF InGroup, InAttr
  <2> QED BY <1>2, <1>3, <2>1 DEF BlockOf, ProperFrame
<1>5. ASSUME InArray(todo)
      PROVE  /\ Top(blocks).type = "array" /\ Len(blocks) > 1
             /\ Top(blocks).num_items + Top(todo).left = Top(blocks).len
  <2>1. todo # <<>> /\ ~InAttr(todo) /\ Top(todo).kind = "array"
    BY <1>5 DEF InArray, InAttr
  <2> QED BY <1>3, <2>1 DEF BlockOf
<1>6. ASSUME InAttr(todo)
      PROVE  Top(blocks).type = "map" /\ Len(blocks) > 1
  <2>1. /\ Len(todo) \in Nat /\ Len(todo) > 1 /\ todo[Len(todo) - 1].kind = "group"
    BY <1>6, TopFrame DEF InAttr, EndOK
  <2>2. Opened(todo) = Len(todo) - 1 /\ Len(blocks) = Len(todo)
    BY <1>1, <1>6, <2>1 DEF EndOK, Follow, Opened
  <2>3. Len(todo) - 1 \in 1..Opened(todo) /\ (Len(todo) - 1) + 1 = Len(todo)
    BY <2>1, <2>2
  <2>4. BlockOf(todo[Len(todo) - 1], blocks[(Len(todo) - 1) + 1], blocks[Len(todo) - 1])
    BY <2>3 DEF EndOK, Follow
  <2>5. blocks[(Len(todo) - 1) + 1] = Top(blocks)
    BY <1>1, <2>2, <2>3
  <2> QED BY <2>1, <2>2, <2>4, <2>5 DEF BlockOf
<1>7. ASSUME todo = <<>>
      PROVE  blocks = Root /\ Top(blocks).type = "root" /\ active = NoGroup
  <2>1. Opened(todo) = 0
    BY <1>7, NoElements DEF Opened, InAttr
  <2>2. Len(blocks) = 1 /\ blocks[1] = Block("root", 0, NoGroup)
    BY <2>1 DEF EndOK, Follow, ProperBlocks
  <2>3. blocks = [i \in 1..Len(blocks) |-> blocks[i]]
    BY <1>1, SeqFacts
  <2>4. blocks = [i \in 1..1 |-> Block("root", 0, NoGroup)]
    BY <2>2, <2>3
  <2>5. Root = [i \in 1..1 |-> Block("root", 0, NoGroup)]
    BY DEF Root
  <2> QED BY <1>1, <1>2, <2>2, <2>4, <2>5 DEF Block
<1> QED BY <1>2, <1>4, <1>5, <1>6, <1>7

\* Items counted in the block of a group whose attributes are gone through.
LEMMA EndCount ==
  ASSUME NEW todo, NEW blocks, NEW active, EndOK(todo, blocks, active),
         InGroup(todo) \/ InAttr(todo), NEW n \in Nat
  PROVE  EndOK(todo, Counted(blocks, n), active)
<1> DEFINE c == Counted(blocks, n)
<1>1. /\ ProperBlocks(blocks) /\ Len(blocks) \in Nat /\ Len(blocks) > 0
      /\ Top(blocks) \in BlockSet /\ Top(blocks) = blocks[Len(blocks)]
  BY TopBlock DEF EndOK
<1>2. /\ ProperBlocks(c) /\ Len(c) = Len(blocks)
      /\ \A i \in 1..(Len(blocks) - 1) : c[i] = blocks[i]
      /\ Top(c) = CountedBlock(Top(blocks), n)
  BY <1>1, CountedFacts
<1>3. Top(blocks).type = "map"
  BY EndTop
<1>4. Top(c).type = "map" /\ Top(c).group = Top(blocks).group
  <2>1. /\ CountedBlock(Top(blocks), n).type = Top(blocks).type
        /\ CountedBlock(Top(blocks), n).group = Top(blocks).group
    BY <1>1, CountedBlockFacts
  <2> QED BY <1>2, <1>3, <2>1
<1> HIDE DEF c
<1>5. c[Len(blocks)] = Top(c)
  BY <1>2 DEF Top
<1>6. Follow(c, todo)
  <2> SUFFICES ASSUME NEW i \in 1..Opened(todo)
               PROVE  BlockOf(todo[i], c[i + 1], c[i])
    BY <1>2 DEF EndOK, Follow
  <2>1. /\ BlockOf(todo[i], blocks[i + 1], blocks[i])
        /\ Len(blocks) = Opened(todo) + 1 /\ i + 1 \in 1..Len(blocks) /\ i \in 1..(Len(blocks) - 1)
    <3>1. Len(blocks) = Opened(todo) + 1 /\ Opened(todo) \in Nat
      BY OpenedNat DEF EndOK, Follow
    <3>2. i + 1 \in 1..Len(blocks) /\ i \in 1..(Len(blocks) - 1)
      BY <1>1, <3>1
    <3>3. BlockOf(todo[i], blocks[i + 1], blocks[i])
      BY DEF EndOK, Follow
    <3> QED BY <3>1, <3>2, <3>3
  <2>2. c[i] = blocks[i]
    BY <1>2, <2>1
  <2>3. CASE i + 1 = Len(blocks)
    BY <1>1, <1>3, <1>4, <1>5, <2>1, <2>2, <2>3 DEF BlockOf
  <2>4. CASE i + 1 # Len(blocks)
    <3>1. i + 1 \in 1..(Len(blocks) - 1)
      BY <1>1, <2>1, <2>4
    <3> QED BY <1>2, <2>1, <2>2, <3>1
  <2> QED BY <2>3, <2>4
<1> QED BY <1>2, <1>4, <1>6 DEF c, EndOK

\* A due item is begun: the attribute is done, or an array has one element less to go.
LEMMA EndBegun ==
  ASSUME NEW todo, NEW blocks, NEW active, EndOK(todo, blocks, active),
         todo = <<>> \/ Top(todo).left > 0
  PROVE  /\ EndOK(Begun(todo), Counted(blocks, 1), active)
         /\ ~InAttr(Begun(todo))
         /\ InAttr(todo) => InGroup(Begun(todo))
<1> DEFINE c == Counted(blocks, 1)
<1>1. /\ ProperBlocks(blocks) /\ IsSeq(blocks) /\ Len(blocks) \in Nat /\ Len(blocks) > 0
      /\ Top(blocks) \in BlockSet /\ Top(blocks) = blocks[Len(blocks)]
  BY TopBlock DEF EndOK
<1>2. /\ ProperBlocks(c) /\ Len(c) = Len(blocks)
      /\ \A i \in 1..(Len(blocks) - 1) : c[i] = blocks[i]
      /\ Top(c) = CountedBlock(Top(blocks), 1)
  BY <1>1, CountedFacts
<1>3. /\ Top(c).type = Top(blocks).type /\ Top(c).group = Top(blocks).group
      /\ Top(c).len = Top(blocks).len
      /\ Top(blocks).type = "root" => Top(c) = Top(blocks)
      /\ Top(blocks).type = "array" => Top(c).num_items = Top(blocks).num_items + 1
  BY <1>1, <1>2, CountedBlockFacts
<1> HIDE DEF c
<1>4. c[Len(blocks)] = Top(c)
  BY <1>2 DEF Top
<1>5. CASE todo = <<>>
  <2>1. Top(blocks).type = "root"
    BY <1>5, EndTop
  <2>2. c = blocks
    <3>1. IsSeq(c)
      BY <1>2 DEF ProperBlocks
    <3>2. \A i \in 1..Len(c) : c[i] = blocks[i]
      BY <1>1, <1>2, <1>3, <1>4, <2>1
    <3> QED BY <1>1, <1>2, <3>1, <3>2, SameSeq
  <2>3. Begun(todo) = todo /\ ~InAttr(todo)
    BY <1>5 DEF Begun, InAttr
  <2> QED BY <1>5, <2>2, <2>3 DEF c
<1>6. CASE todo # <<>> /\ InAttr(todo)
  <2>1. Begun(todo) = Popped(todo)
    BY <1>6 DEF Begun, InAttr
  <2>2. EndOK(todo, c, active)
    BY <1>6, EndCount DEF c
  <2>3. /\ Len(todo) \in Nat /\ Len(todo) > 1 /\ todo[Len(todo) - 1].kind = "group"
        /\ IsSeq(todo)
    BY <1>6, TopFrame DEF EndOK, InAttr
  <2> DEFINE s == Popped(todo)
  <2>4. /\ ProperFrames(s) /\ Len(s) = Len(todo) - 1
        /\ \A i \in 1..(Len(todo) - 1) : s[i] = todo[i]
        /\ ~InAttr(s) /\ Opened(s) = Len(todo) - 1
    BY <1>6, PoppedFrames DEF EndOK
  <2> HIDE DEF s
  <2>5. Opened(todo) = Len(todo) - 1
    BY <1>6 DEF Opened
  <2>6. Follow(c, s)
    BY <2>2, <2>4, <2>5 DEF EndOK, Follow
  <2>7. EndOK(s, c, active)
    BY <2>2, <2>4, <2>6 DEF EndOK
  <2>8. InGroup(s)
    <3>1. IsSeq(s) /\ Len(s) > 0 /\ Len(s) \in 1..(Len(todo) - 1)
      BY <2>3, <2>4 DEF ProperFrames
    <3>2. s # <<>>
      BY <3>1, SeqFacts
    <3>3. s[Len(s)] = todo[Len(todo) - 1]
      BY <2>4, <3>1
    <3> QED BY <2>3, <3>2, <3>3 DEF InGroup, Top
  <2> QED BY <2>1, <2>4, <2>7, <2>8 DEF s, c
<1>7. CASE todo # <<>> /\ ~InAttr(todo)
  <2>1. /\ IsSeq(todo) /\ Len(todo) \in Nat /\ Len(todo) > 0
        /\ Top(todo) = todo[Len(todo)] /\ ProperFrame(Top(todo)) /\ Top(todo).left > 0
        /\ todo # <<>>
    BY <1>7, TopFrame DEF EndOK
  <2>2. Top(todo).kind = "array"
    BY <1>7, <2>1 DEF InAttr, ProperFrame
  <2> DEFINE f == [Top(todo) EXCEPT !.left = Top(todo).left - 1]
             s == Begun(todo)
  <2>3. s = [todo EXCEPT ![Len(todo)] = f]
    BY <1>7, <2>1, <2>2 DEF Begun
  <2>4. /\ f = Frame(f.kind, f.group, f.type, f.left) /\ f.kind = "array"
        /\ f.type = Top(todo).type /\ f.left = Top(todo).left - 1
    BY <2>1, <2>2 DEF ProperFrame, Frame
  <2>5. ProperFrame(f)
    BY <2>1, <2>2, <2>4 DEF ProperFrame
  <2>6. /\ IsSeq(s) /\ Len(s) = Len(todo) /\ s # <<>> /\ Top(s) = f
        /\ \A i \in 1..(Len(todo) - 1) : s[i] = todo[i]
    <3>1. IsSeq(todo) /\ todo # <<>>
      BY <2>1
    <3> HIDE DEF f, s
    <3> DEFINE t == [todo EXCEPT ![Len(todo)] = f]
    <3>2. /\ IsSeq(t) /\ Len(t) = Len(todo) /\ t # <<>> /\ Top(t) = f
          /\ \A i \in 1..(Len(todo) - 1) : t[i] = todo[i]
      BY ONLY <3>1, ChangedTopFacts
    <3> QED BY <2>3, <3>2
  <2> HIDE DEF f, s
  <2>7. s[Len(todo)] = f
    BY <2>6 DEF Top
  <2>8. ProperFrames(s)
    <3> SUFFICES ASSUME NEW i \in 1..Len(s)
                 PROVE  /\ ProperFrame(s[i])
                        /\ s[i].kind = "attr" => i = Len(s)
                        /\ s[i].kind # "group" => i > 1 /\ s[i - 1].kind = "group"
      BY <2>6 DEF ProperFrames
    <3>1. /\ ProperFrame(todo[i])
          /\ todo[i].kind = "attr" => i = Len(todo)
          /\ todo[i].kind # "group" => i > 1 /\ todo[i - 1].kind = "group"
      BY <2>6 DEF EndOK, ProperFrames
    <3>2. i > 1 => i - 1 \in 1..(Len(todo) - 1)
      BY <2>1, <2>6
    <3>3. i > 1 => s[i - 1] = todo[i - 1]
      BY <2>6, <3>2
    <3>4. CASE i = Len(todo)
      BY <2>1, <2>2, <2>4, <2>5, <2>7, <3>1, <3>3, <3>4
    <3>5. CASE i # Len(todo)
      <4>1. i \in 1..(Len(todo) - 1)
        BY <2>1, <2>6, <3>5
      <4>2. s[i] = todo[i]
        BY <2>6, <4>1
      <4> QED BY <2>6, <3>1, <3>3, <4>2
    <3> QED BY <3>4, <3>5
  <2>9. ~InAttr(s) /\ Opened(s) = Len(todo) /\ Opened(todo) = Len(todo)
    BY <1>7, <2>4, <2>6 DEF InAttr, Opened
  <2>10. /\ Top(blocks).type = "array" /\ Top(blocks).num_items \in Nat
         /\ Top(blocks).num_items + Top(todo).left = Top(blocks).len
    <3>1. InArray(todo)
      BY <1>7, <2>2 DEF InArray
    <3> QED BY <1>1, <3>1, EndTop DEF BlockSet
  <2>11. Follow(c, s)
    <3>1. Len(c) = Opened(s) + 1 /\ Len(blocks) = Len(todo) + 1
      BY <1>2, <2>9 DEF EndOK, Follow
    <3> SUFFICES ASSUME NEW i \in 1..Opened(s)
                 PROVE  BlockOf(s[i], c[i + 1], c[i])
      BY <3>1 DEF Follow
    <3>2. i \in 1..Opened(todo) /\ i \in 1..(Len(blocks) - 1)
      BY <1>1, <2>1, <2>9, <3>1
    <3>3. BlockOf(todo[i], blocks[i + 1], blocks[i]) /\ c[i] = blocks[i]
      BY <1>2, <3>2 DEF EndOK, Follow
    <3>4. CASE i = Len(todo)
      <4>1. c[i + 1] = Top(c) /\ blocks[i + 1] = Top(blocks) /\ s[i] = f /\ todo[i] = Top(todo)
        BY <1>1, <1>4, <2>1, <2>7, <3>1, <3>4
      <4>2. Top(c).num_items + f.left = Top(c).len
        <5>1. Top(todo).left \in Nat /\ f.left = Top(todo).left - 1
          BY <2>1, <2>4 DEF ProperFrame
        <5> QED BY <1>3, <2>10, <5>1
      <4>3. Top(blocks).group = blocks[i].group
        BY <2>2, <3>3, <4>1 DEF BlockOf
      <4> QED BY <1>3, <2>4, <2>10, <3>3, <4>1, <4>2, <4>3 DEF BlockOf
    <3>5. CASE i # Len(todo)
      <4>1. i \in 1..(Len(todo) - 1) /\ i + 1 \in 1..(Len(blocks) - 1)
        BY <2>1, <2>9, <3>1, <3>5
      <4>2. s[i] = todo[i] /\ c[i + 1] = blocks[i + 1]
        BY <1>2, <2>6, <4>1
      <4> QED BY <3>3, <4>2
    <3> QED BY <3>4, <3>5
  <2>12. active = Top(c).group
    BY <1>3 DEF EndOK
  <2>13. EndOK(s, c, active)
    BY <1>2, <2>8, <2>11, <2>12 DEF EndOK
  <2> QED BY <1>7, <2>9, <2>13 DEF s, c
<1> QED BY <1>5, <1>6, <1>7

\* A group is entered: a map with its name.
LEMMA EndPushGroup ==
  ASSUME NEW todo, NEW blocks, NEW active, EndOK(todo, blocks, active),
         ~InAttr(todo), NEW g \in Groups,
         NEW c, ProperBlocks(c), Popped(c) = blocks, Len(c) > 1,
         Top(c).type = "map", Top(c).group = g
  PROVE  EndOK(Append(todo, Frame("group", g, Value, 0)), c, g)
<1> DEFINE f == Frame("group", g, Value, 0)
           s == Append(todo, f)
<1>1. ProperFrame(f) /\ f.kind = "group" /\ f.group = g
  BY DEF ProperFrame, Frame
<1> HIDE DEF f
<1>2. /\ ProperFrames(s) /\ Len(s) = Len(todo) + 1
      /\ \A i \in 1..Len(todo) : s[i] = todo[i]
      /\ s[Len(todo) + 1] = f /\ Top(s) = f /\ Opened(todo) = Len(todo)
  BY <1>1, AppendFrames DEF EndOK
<1> HIDE DEF s
<1>3. Opened(s) = Len(todo) + 1
  BY <1>1, <1>2 DEF Opened, InAttr
<1>4. /\ Len(blocks) = Len(c) - 1 /\ \A i \in 1..(Len(c) - 1) : c[i] = blocks[i]
      /\ Len(c) \in Nat /\ c[Len(c)] = Top(c)
  BY PoppedProper, TopBlock
<1>5. Len(blocks) = Len(todo) + 1 /\ Len(todo) \in Nat
  BY <1>2, OpenedNat DEF EndOK, Follow
<1>6. Follow(c, s)
  <2>1. Len(c) = Opened(s) + 1
    BY <1>3, <1>4, <1>5
  <2> SUFFICES ASSUME NEW i \in 1..Opened(s) PROVE BlockOf(s[i], c[i + 1], c[i])
    BY <2>1 DEF Follow
  <2>2. CASE i = Len(todo) + 1
    <3>1. s[i] = f /\ c[i + 1] = Top(c)
      BY <1>2, <1>4, <1>5, <2>2
    <3> QED BY <1>1, <3>1 DEF BlockOf
  <2>3. CASE i # Len(todo) + 1
    <3>1. i \in 1..Len(todo) /\ i + 1 \in 1..(Len(c) - 1) /\ i \in 1..(Len(c) - 1)
      BY <1>3, <1>4, <1>5, <2>3
    <3>2. BlockOf(todo[i], blocks[i + 1], blocks[i])
      BY <1>2, <3>1 DEF EndOK, Follow
    <3> QED BY <1>2, <1>4, <3>1, <3>2
  <2> QED BY <2>2, <2>3
<1> QED BY <1>2, <1>6 DEF EndOK, s, f

\* An array is entered.
LEMMA EndPushArray ==
  ASSUME NEW todo, NEW blocks, NEW active, EndOK(todo, blocks, active),
         InGroup(todo), NEW type, type.kind # "array", NEW n \in Nat
  PROVE  EndOK(Append(todo, Frame("array", NoGroup, type, n)),
               Pushed(blocks, "array", n), active)
<1> DEFINE f == Frame("array", NoGroup, type, n)
           s == Append(todo, f)
           b == [type |-> "array", len |-> n, num_items |-> 0, group |-> Top(blocks).group]
           c == Pushed(blocks, "array", n)
<1>1. ProperFrame(f) /\ f.kind = "array" /\ f.left = n
  BY DEF ProperFrame, Frame
<1> HIDE DEF f
<1>2. ~InAttr(todo)
  BY DEF InAttr, InGroup
<1>3. /\ ProperFrames(s) /\ Len(s) = Len(todo) + 1
      /\ \A i \in 1..Len(todo) : s[i] = todo[i]
      /\ s[Len(todo) + 1] = f /\ Top(s) = f /\ Opened(todo) = Len(todo)
  BY <1>1, <1>2, AppendFrames DEF EndOK
<1> HIDE DEF s
<1>4. Opened(s) = Len(todo) + 1
  BY <1>1, <1>3 DEF Opened, InAttr
<1>5. /\ ProperBlocks(c) /\ Len(c) = Len(blocks) + 1
      /\ \A i \in 1..Len(blocks) : c[i] = blocks[i]
      /\ Top(c) = b
  BY PushedFacts DEF EndOK
<1>6. Len(blocks) = Len(todo) + 1 /\ Len(todo) \in Nat /\ Top(blocks) = blocks[Len(blocks)]
  BY <1>3, OpenedNat DEF EndOK, Follow, Top
<1>7. c[Len(blocks) + 1] = b
  BY <1>5 DEF Top
<1>8. b.type = "array" /\ b.len = n /\ b.num_items = 0 /\ b.group = Top(blocks).group
  OBVIOUS
<1> HIDE DEF b, c
<1>9. Follow(c, s)
  <2>1. Len(c) = Opened(s) + 1
    BY <1>4, <1>5, <1>6
  <2> SUFFICES ASSUME NEW i \in 1..Opened(s) PROVE BlockOf(s[i], c[i + 1], c[i])
    BY <2>1 DEF Follow
  <2>2. CASE i = Len(todo) + 1
    <3>1. s[i] = f /\ c[i + 1] = b
      BY <1>3, <1>6, <1>7, <2>2
    <3>2. c[i] = Top(blocks)
      BY <1>5, <1>6, <2>2
    <3> QED BY <1>1, <1>8, <3>1, <3>2 DEF BlockOf
  <2>3. CASE i # Len(todo) + 1
    <3>1. i \in 1..Len(todo) /\ i + 1 \in 1..Len(blocks) /\ i \in 1..Len(blocks)
      BY <1>4, <1>6, <2>3
    <3>2. BlockOf(todo[i], blocks[i + 1], blocks[i])
      BY <1>3, <3>1 DEF EndOK, Follow
    <3> QED BY <1>3, <1>5, <3>1, <3>2
  <2> QED BY <2>2, <2>3
<1> QED BY <1>3, <1>5, <1>8, <1>9 DEF EndOK, s, f, c

\* An attribute is due: its item will be in the block of the group.
LEMMA EndPushAttr ==
  ASSUME NEW todo, NEW blocks, NEW active, EndOK(todo, blocks, active),
         InGroup(todo), NEW g, NEW type
  PROVE  /\ EndOK(Append(todo, Frame("attr", g, type, 1)), blocks, active)
         /\ InAttr(Append(todo, Frame("attr", g, type, 1)))
<1> DEFINE f == Frame("attr", g, type, 1)
           s == Append(todo, f)
<1>1. ProperFrame(f) /\ f.kind = "attr"
  BY DEF ProperFrame, Frame
<1> HIDE DEF f
<1>2. ~InAttr(todo)
  BY DEF InAttr, InGroup
<1>3. /\ ProperFrames(s) /\ Len(s) = Len(todo) + 1 /\ s # <<>>
      /\ \A i \in 1..Len(todo) : s[i] = todo[i]
      /\ Top(s) = f /\ Opened(todo) = Len(todo)
  BY <1>1, <1>2, AppendFrames DEF EndOK
<1> HIDE DEF s
<1>4. InAttr(s)
  BY <1>1, <1>3 DEF InAttr
<1>5. Opened(s) = Opened(todo)
  <2>1. Len(todo) \in Nat
    BY <1>3, OpenedNat DEF EndOK
  <2> QED BY <1>3, <1>4, <2>1 DEF Opened
<1>6. Follow(blocks, s)
  BY <1>3, <1>5 DEF EndOK, Follow
<1> QED BY <1>3, <1>4, <1>6 DEF EndOK, s, f

\* A group or an array is left.
LEMMA EndPop ==
  ASSUME NEW todo, NEW blocks, NEW active, EndOK(todo, blocks, active),
         InGroup(todo) \/ InArray(todo)
  PROVE  /\ EndOK(Popped(todo), Popped(blocks), Top(Popped(blocks)).group)
         /\ InArray(todo) => /\ Top(Popped(blocks)).group = active
                             /\ InGroup(Popped(todo))
<1> DEFINE s == Popped(todo)
           c == Popped(blocks)
<1>1. ~InAttr(todo) /\ todo # <<>> /\ IsSeq(todo)
  BY DEF InAttr, InGroup, InArray, EndOK, ProperFrames
<1>2. /\ ProperFrames(s) /\ Len(s) = Len(todo) - 1 /\ Opened(s) = Len(todo) - 1
      /\ \A i \in 1..(Len(todo) - 1) : s[i] = todo[i]
  BY <1>1, PoppedFrames DEF EndOK
<1>3. /\ Len(blocks) = Len(todo) + 1 /\ Len(todo) \in Nat /\ Len(todo) > 0
      /\ Opened(todo) = Len(todo) /\ Top(todo) = todo[Len(todo)]
  <2>1. Opened(todo) = Len(todo)
    BY <1>1 DEF Opened
  <2> QED BY <1>1, <2>1, TopFrame DEF EndOK, Follow
<1>4. /\ ProperBlocks(c) /\ Len(c) = Len(blocks) - 1
      /\ \A i \in 1..(Len(blocks) - 1) : c[i] = blocks[i]
  BY <1>3, PoppedProper DEF EndOK
<1> HIDE DEF s, c
<1>5. Follow(c, s)
  <2> SUFFICES ASSUME NEW i \in 1..Opened(s) PROVE BlockOf(s[i], c[i + 1], c[i])
    BY <1>2, <1>3, <1>4 DEF Follow
  <2>1. i \in 1..(Len(todo) - 1) /\ i + 1 \in 1..(Len(blocks) - 1) /\ i \in 1..(Len(blocks) - 1)
        /\ i \in 1..Len(todo)
    BY <1>2, <1>3
  <2>2. BlockOf(todo[i], blocks[i + 1], blocks[i])
    BY <1>3, <2>1 DEF EndOK, Follow
  <2> QED BY <1>2, <1>4, <2>1, <2>2
<1>6. ASSUME InArray(todo)
      PROVE  Top(c).group = active /\ InGroup(s)
  <2>1. /\ Top(todo).kind = "array" /\ Len(todo) > 1
        /\ todo[Len(todo) - 1].kind = "group"
    BY <1>1, <1>6, TopFrame DEF EndOK, InArray
  <2>2. BlockOf(todo[Len(todo)], blocks[Len(todo) + 1], blocks[Len(todo)])
    BY <1>3 DEF EndOK, Follow
  <2>3. Top(blocks).group = blocks[Len(todo)].group
    BY <1>3, <2>1, <2>2 DEF BlockOf, Top
  <2>4. Top(c) = blocks[Len(todo)]
    <3>1. Len(c) = Len(todo) /\ Len(todo) \in 1..(Len(blocks) - 1)
      BY <1>3, <1>4
    <3> QED BY <1>4, <3>1 DEF Top
  <2>5. InGroup(s)
    <3>1. Len(s) \in Nat /\ Len(s) > 0 /\ Len(s) = Len(todo) - 1 /\ Len(s) \in 1..(Len(todo) - 1)
      BY <1>2, <1>3, <2>1
    <3>2. s # <<>>
      BY <1>2, <3>1, SeqFacts DEF ProperFrames
    <3>3. Top(s).kind = "group"
      BY <1>2, <2>1, <3>1 DEF Top
    <3> QED BY <3>2, <3>3 DEF InGroup
  <2> QED BY <2>3, <2>4, <2>5 DEF EndOK
<1>7. EndOK(s, c, Top(c).group)
  BY <1>2, <1>4, <1>5 DEF EndOK
<1> QED BY <1>6, <1>7 DEF s, c

-----------------------------------------------------------------------------
(* The maps of the sender.                                                 *)

\* The parity of the innermost map, and of those below it.
LEMMA EvenTop ==
  ASSUME NEW todo, NEW blocks, ProperBlocks(blocks), EvenMaps(todo, blocks),
         Top(blocks).type = "map"
  PROVE  Top(blocks).num_items = IF InAttr(todo) THEN 1 ELSE 0
<1>1. Len(blocks) \in Nat /\ Len(blocks) > 0 /\ Top(blocks) = blocks[Len(blocks)]
  BY TopBlock
<1>2. Len(blocks) # 1
  BY <1>1 DEF ProperBlocks, Block
<1>3. Len(blocks) \in 2..Len(blocks)
  BY ONLY <1>1, <1>2
<1> QED BY <1>1, <1>3 DEF EvenMaps

\* An item counted once its attribute is done makes the map even again.
LEMMA EvenBegun ==
  ASSUME NEW todo, NEW blocks, NEW active, EndOK(todo, blocks, active),
         todo = <<>> \/ Top(todo).left > 0, EvenMaps(todo, blocks)
  PROVE  EvenMaps(Begun(todo), Counted(blocks, 1))
<1> DEFINE c == Counted(blocks, 1)
<1>1. /\ ProperBlocks(blocks) /\ Len(blocks) \in Nat /\ Len(blocks) > 0
      /\ Top(blocks) \in BlockSet /\ Top(blocks) = blocks[Len(blocks)]
  BY TopBlock DEF EndOK
<1>2. /\ Len(c) = Len(blocks) /\ Top(c) = CountedBlock(Top(blocks), 1)
      /\ \A i \in 1..(Len(blocks) - 1) : c[i] = blocks[i]
  BY <1>1, CountedFacts
<1>3. ~InAttr(Begun(todo))
  BY EndBegun
<1>4. Top(c).type = "map" => Top(c).num_items = 0
  <2> SUFFICES ASSUME Top(c).type = "map" PROVE Top(c).num_items = 0
    OBVIOUS
  <2>1. Top(blocks).type = "map" /\ Top(c).num_items = (Top(blocks).num_items + 1) % 2
    <3>1. /\ CountedBlock(Top(blocks), 1).type = Top(blocks).type
          /\ Top(blocks).type = "map" =>
               CountedBlock(Top(blocks), 1).num_items = (Top(blocks).num_items + 1) % 2
      BY <1>1, CountedBlockFacts
    <3> QED BY <1>2, <3>1
  <2>2. InAttr(todo)
    <3>1. todo # <<>>
      BY <2>1, EndTop
    <3>2. ProperFrame(Top(todo)) /\ Top(todo).left > 0
      BY <3>1, TopFrame DEF EndOK
    <3>3. ~InArray(todo)
      BY <2>1, EndTop
    <3> QED BY <3>1, <3>2, <3>3 DEF ProperFrame, InArray, InAttr
  <2>3. Top(blocks).num_items = 1
    BY <1>1, <2>1, <2>2, EvenTop
  <2> QED BY <2>1, <2>3
<1> HIDE DEF c
<1>5. c[Len(blocks)] = Top(c)
  BY <1>2 DEF Top
<1> SUFFICES ASSUME NEW i \in 2..Len(c), c[i].type = "map" PROVE c[i].num_items = 0
  BY <1>3 DEF EvenMaps, c
<1>6. CASE i = Len(blocks)
  BY <1>4, <1>5, <1>6
<1>7. CASE i # Len(blocks)
  <2>1. i \in 1..(Len(blocks) - 1) /\ i \in 2..Len(blocks)
    BY <1>1, <1>2, <1>7
  <2> QED BY <1>2, <1>7, <2>1 DEF EvenMaps
<1> QED BY <1>6, <1>7

\* A new block on top of even maps.
LEMMA EvenPush ==
  ASSUME NEW todo, NEW blocks, EvenMaps(todo, blocks), ~InAttr(todo),
         NEW c, ProperBlocks(c), Popped(c) = blocks, Len(c) > 1,
         Top(c).type = "map" => Top(c).num_items = 0,
         NEW s, ~InAttr(s)
  PROVE  EvenMaps(s, c)
<1>1. /\ Len(blocks) = Len(c) - 1 /\ \A i \in 1..(Len(c) - 1) : c[i] = blocks[i]
      /\ Len(c) \in Nat /\ c[Len(c)] = Top(c)
  BY PoppedProper, TopBlock
<1> SUFFICES ASSUME NEW i \in 2..Len(c), c[i].type = "map" PROVE c[i].num_items = 0
  BY DEF EvenMaps
<1>2. CASE i = Len(c)
  BY <1>1, <1>2
<1>3. CASE i # Len(c)
  <2>1. i \in 1..(Len(c) - 1) /\ i \in 2..Len(blocks)
    BY <1>1, <1>3
  <2> QED BY <1>1, <2>1 DEF EvenMaps
<1> QED BY <1>2, <1>3

\* An odd number of items, then, while the attribute is due.
LEMMA EvenAttr ==
  ASSUME NEW todo, NEW blocks, NEW active, EndOK(todo, blocks, active),
         InGroup(todo), EvenMaps(todo, blocks),
         NEW n \in {1, 3}, NEW s, InAttr(s)
  PROVE  EvenMaps(s, Counted(blocks, n))
<1> DEFINE c == Counted(blocks, n)
<1>1. /\ ProperBlocks(blocks) /\ Len(blocks) \in Nat /\ Len(blocks) > 0
      /\ Top(blocks) \in BlockSet /\ Top(blocks) = blocks[Len(blocks)] /\ n \in Nat
  BY TopBlock DEF EndOK
<1>2. /\ Len(c) = Len(blocks) /\ Top(c) = CountedBlock(Top(blocks), n)
      /\ \A i \in 1..(Len(blocks) - 1) : c[i] = blocks[i]
  BY <1>1, CountedFacts
<1>3. Top(blocks).type = "map" /\ ~InAttr(todo)
  BY EndTop DEF InGroup, InAttr
<1>4. Top(blocks).num_items = 0
  BY <1>1, <1>3, EvenTop
<1>5. Top(c).num_items = 1
  <2>1. CountedBlock(Top(blocks), n).num_items = (Top(blocks).num_items + n) % 2
    BY <1>1, <1>3, CountedBlockFacts
  <2>2. (0 + n) % 2 = 1
    OBVIOUS
  <2> QED BY <1>2, <1>4, <2>1, <2>2
<1> HIDE DEF c
<1>6. c[Len(blocks)] = Top(c)
  BY <1>2 DEF Top
<1> SUFFICES ASSUME NEW i \in 2..Len(c), c[i].type = "map"
             PROVE  c[i].num_items = IF i = Len(c) THEN 1 ELSE 0
  BY DEF EvenMaps, c
<1>7. CASE i = Len(blocks)
  BY <1>2, <1>5, <1>6, <1>7
<1>8. CASE i # Len(blocks)
  <2>1. i \in 1..(Len(blocks) - 1) /\ i \in 2..Len(blocks)
    BY <1>1, <1>2, <1>8
  <2> QED BY <1>2, <1>8, <2>1 DEF EvenMaps
<1> QED BY <1>7, <1>8

\* Leaving a group or an array uncovers even maps.
LEMMA EvenPop ==
  ASSUME NEW todo, NEW blocks, NEW active, EndOK(todo, blocks, active),
         InGroup(todo) \/ InArray(todo), EvenMaps(todo, blocks)
  PROVE  EvenMaps(Popped(todo), Popped(blocks))
<1>1. /\ ProperBlocks(blocks) /\ Len(blocks) \in Nat /\ Len(blocks) > 1
  BY EndTop, TopBlock DEF EndOK
<1>2. /\ Len(Popped(blocks)) = Len(blocks) - 1
      /\ \A i \in 1..(Len(blocks) - 1) : Popped(blocks)[i] = blocks[i]
  BY <1>1, PoppedProper
<1>3. ~InAttr(todo) /\ ~InAttr(Popped(todo))
  BY PoppedFrames DEF EndOK, InGroup, InArray, InAttr
<1> SUFFICES ASSUME NEW i \in 2..Len(Popped(blocks)), Popped(blocks)[i].type = "map"
             PROVE  Popped(blocks)[i].num_items = 0
  BY <1>3 DEF EvenMaps
<1>4. i \in 1..(Len(blocks) - 1) /\ i \in 2..Len(blocks)
  BY <1>1, <1>2
<1> QED BY <1>2, <1>3, <1>4 DEF EvenMaps

-----------------------------------------------------------------------------
(* The sender by itself.                                                   *)

\* What is due is begun.
LEMMA DueIsBegun ==
  ASSUME NEW todo, NEW blocks, NEW active, EndOK(todo, blocks, active), Due(todo) # {}
  PROVE  /\ todo = <<>> \/ Top(todo).left > 0
         /\ ~InGroup(todo)
         /\ (\E t \in Due(todo) : t.kind = "array") => InAttr(todo)
<1>1. todo = <<>> \/ Top(todo).left > 0
  BY DEF Due
<1>2. ~InGroup(todo)
  BY <1>1, TopFrame DEF InGroup, EndOK, ProperFrame
<1>3. ASSUME NEW t \in Due(todo), t.kind = "array" PROVE InAttr(todo)
  <2>1. todo # <<>>
    BY <1>3 DEF Due, GroupOf
  <2>2. t = Top(todo).type /\ ProperFrame(Top(todo))
    BY <1>3, <2>1, TopFrame DEF Due, EndOK
  <2> QED BY <1>2, <1>3, <2>1, <2>2 DEF ProperFrame, InAttr, InGroup
<1> QED BY <1>1, <1>2, <1>3

\* A group: the item of an attribute or array, in a block of its own.
LEMMA SendGroupKeeps ==
  ASSUME SenderInv, NEW g \in Groups, SendGroup(g)
  PROVE  SenderInv'
<1> DEFINE c == Counted(sblocks, 1)
           d == Pushed(c, "map", 0)
           n == 2 + KeyItems(GroupsNs, g)
           e == WithGroup(d, g)
           todo == Begun(stodo)
<1>1. /\ EndOK(stodo, sblocks, sactive) /\ EvenMaps(stodo, sblocks) /\ Due(stodo) # {}
  BY DEF SenderInv, SendGroup
<1>2. stodo = <<>> \/ Top(stodo).left > 0
  BY <1>1, DueIsBegun
<1>3. EndOK(todo, c, sactive) /\ ~InAttr(todo) /\ EvenMaps(todo, c)
  BY <1>1, <1>2, EndBegun, EvenBegun
<1>4. n \in {2, 4} /\ n \in Nat
  BY DEF KeyItems
<1> HIDE DEF c, n, todo
<1>5. ProperBlocks(c)
  BY <1>3 DEF EndOK
<1>6. /\ ProperBlocks(d) /\ Len(d) = Len(c) + 1 /\ Popped(d) = c
      /\ Top(d).type = "map" /\ Top(d).num_items = 0
  BY <1>5, PushedMap
<1> HIDE DEF d
<1>7. /\ ProperBlocks(e) /\ Len(e) = Len(d) /\ Popped(e) = c
      /\ Top(e) \in BlockSet
      /\ Top(e).type = "map" /\ Top(e).group = g /\ Top(e).num_items = 0
  BY <1>6, WithGroupFacts
<1> HIDE DEF e
<1>8. /\ ProperBlocks(Counted(e, n)) /\ Len(Counted(e, n)) = Len(d)
      /\ Top(Counted(e, n)) = CountedBlock(Top(e), n)
      /\ Popped(Counted(e, n)) = c
  BY <1>4, <1>7, CountedFacts
<1>9. /\ Top(Counted(e, n)).type = "map" /\ Top(Counted(e, n)).group = g
      /\ Top(Counted(e, n)).num_items = 0
  <2>1. /\ CountedBlock(Top(e), n).type = "map" /\ CountedBlock(Top(e), n).group = g
        /\ CountedBlock(Top(e), n).num_items = (Top(e).num_items + n) % 2
    BY <1>4, <1>7, CountedBlockFacts
  <2>2. (0 + n) % 2 = 0
    BY <1>4
  <2> QED BY <1>7, <1>8, <2>1, <2>2
<1>10. Len(Counted(e, n)) > 1
  BY <1>5, <1>6, <1>8, TopBlock
<1> DEFINE s == Append(todo, Frame("group", g, Value, 0))
<1>11. EndOK(s, Counted(e, n), g)
  BY <1>3, <1>8, <1>9, <1>10, EndPushGroup
<1>12. ~InAttr(s)
  <2>1. IsSeq(todo)
    BY <1>3 DEF EndOK, ProperFrames
  <2>2. Top(s) = Frame("group", g, Value, 0)
    BY <2>1, AppendFacts
  <2> QED BY <2>2 DEF InAttr, Frame
<1> HIDE DEF s
<1>13. EvenMaps(s, Counted(e, n))
  BY <1>3, <1>8, <1>9, <1>10, <1>12, EvenPush
<1>14. stodo' = s /\ sblocks' = Counted(e, n) /\ sactive' = g /\ closed' = "no"
  BY DEF SendGroup, EnterGroup, s, todo, e, d, c, n, SenderReady
<1> QED BY <1>11, <1>13, <1>14 DEF SenderInv

\* The check for an odd map does not fire, nor the one for another type of block.
LEMMA SendGroupEndKeeps ==
  ASSUME SenderInv, SendGroupEnd
  PROVE  /\ SenderInv'
         /\ ~(Top(sblocks).num_items = 1 \/ Top(sblocks).type # "map")
<1>1. /\ EndOK(stodo, sblocks, sactive) /\ EvenMaps(stodo, sblocks) /\ InGroup(stodo)
      /\ closed = "no"
  BY DEF SenderInv, SendGroupEnd, SenderReady
<1>2. Top(sblocks).type = "map" /\ ~InAttr(stodo) /\ ProperBlocks(sblocks)
  BY <1>1, EndTop DEF InGroup, InAttr, EndOK
<1>3. Top(sblocks).num_items = 0
  BY <1>1, <1>2, EvenTop
<1>4. /\ sblocks' = Popped(sblocks) /\ stodo' = Popped(stodo) /\ closed' = "no"
      /\ sactive' = Top(Popped(sblocks)).group
  <2>1. ~(Top(sblocks).num_items = 1 \/ Top(sblocks).type # "map")
    BY <1>2, <1>3
  <2>2. /\ sblocks' = Popped(sblocks) /\ stodo' = Popped(stodo) /\ closed' = closed
        /\ sactive' = Top(sblocks').group
    BY <2>1 DEF SendGroupEnd
  <2> QED BY <1>1, <2>2
<1>5. EndOK(stodo', sblocks', sactive')
  BY <1>1, <1>4, EndPop
<1>6. EvenMaps(stodo', sblocks')
  BY <1>1, <1>4, EvenPop
<1> QED BY <1>2, <1>3, <1>4, <1>5, <1>6 DEF SenderInv

\* An attribute's ID, with the key map or without, is an odd number of items.
LEMMA SendIdKeeps ==
  ASSUME SenderInv, NEW a, SendId(a)
  PROVE  SenderInv'
<1> DEFINE n == 1 + KeyItems(sactive, a)
<1>1. /\ EndOK(stodo, sblocks, sactive) /\ EvenMaps(stodo, sblocks) /\ InGroup(stodo)
      /\ closed = "no"
  BY DEF SenderInv, SendId, SenderReady
<1>2. n \in {1, 3} /\ n \in Nat
  BY DEF KeyItems
<1> HIDE DEF n
<1>3. EndOK(stodo, Counted(sblocks, n), sactive)
  BY <1>1, <1>2, EndCount
<1> DEFINE s == Append(stodo, Frame("attr", sactive, Type[sactive][a], 1))
<1>4. EndOK(s, Counted(sblocks, n), sactive) /\ InAttr(s)
  BY <1>1, <1>3, EndPushAttr
<1> HIDE DEF s
<1>5. EvenMaps(s, Counted(sblocks, n))
  BY <1>1, <1>2, <1>4, EvenAttr
<1>6. stodo' = s /\ sblocks' = Counted(sblocks, n) /\ sactive' = sactive /\ closed' = "no"
  BY <1>1 DEF SendId, EnterAttr, s, n
<1> QED BY <1>4, <1>5, <1>6 DEF SenderInv

\* A value: the item of an attribute or array.
LEMMA SendValueKeeps ==
  ASSUME SenderInv, NEW v, SendValue(v)
  PROVE  SenderInv'
<1>1. /\ EndOK(stodo, sblocks, sactive) /\ EvenMaps(stodo, sblocks) /\ Due(stodo) # {}
      /\ closed = "no"
  BY DEF SenderInv, SendValue, SenderReady
<1>2. stodo = <<>> \/ Top(stodo).left > 0
  BY <1>1, DueIsBegun
<1>3. EndOK(Begun(stodo), Counted(sblocks, 1), sactive)
  BY <1>1, <1>2, EndBegun
<1>4. EvenMaps(Begun(stodo), Counted(sblocks, 1))
  BY <1>1, <1>2, EvenBegun
<1>5. /\ stodo' = Begun(stodo) /\ sblocks' = Counted(sblocks, 1) /\ sactive' = sactive
      /\ closed' = "no"
  BY <1>1 DEF SendValue
<1> QED BY <1>3, <1>4, <1>5 DEF SenderInv

\* What an array holds is no array.
LEMMA ElemIsNoArray == ASSUME NEW t PROVE ElemOf(t).kind # "array"
BY DEF ElemOf, Value, GroupOf

\* An array: the item of an attribute, in a block of its own.
LEMMA EndEnterArray ==
  ASSUME NEW todo, NEW blocks, NEW active, EndOK(todo, blocks, active),
         \E t \in Due(todo) : t.kind = "array", NEW n \in Nat
  PROVE  /\ EndOK(EnterArray(todo, n), Pushed(Counted(blocks, 1), "array", n), active)
         /\ EvenMaps(todo, blocks) =>
              EvenMaps(EnterArray(todo, n), Pushed(Counted(blocks, 1), "array", n))
<1> DEFINE c == Counted(blocks, 1)
           d == Pushed(c, "array", n)
           t == ElemOf(Top(todo).type)
           s == Append(Begun(todo), Frame("array", NoGroup, t, n))
<1>1. (todo = <<>> \/ Top(todo).left > 0) /\ InAttr(todo)
  BY DueIsBegun
<1>2. EndOK(Begun(todo), c, active) /\ ~InAttr(Begun(todo)) /\ InGroup(Begun(todo))
  BY <1>1, EndBegun
<1>3. EvenMaps(todo, blocks) => EvenMaps(Begun(todo), c)
  BY <1>1, EvenBegun
<1>4. t.kind # "array"
  BY ElemIsNoArray
<1> HIDE DEF t, c
<1>5. EndOK(s, d, active)
  BY <1>2, <1>4, EndPushArray
<1>6. ~InAttr(s)
  <2>1. IsSeq(Begun(todo))
    BY <1>2 DEF EndOK, ProperFrames
  <2>2. Top(s) = Frame("array", NoGroup, t, n)
    BY <2>1, AppendFacts
  <2> QED BY <2>2 DEF InAttr, Frame
<1>7. ProperBlocks(c)
  BY <1>2 DEF EndOK
<1>8. ProperBlocks(d) /\ Len(d) > 1 /\ Popped(d) = c /\ Top(d).type = "array"
  <2> DEFINE b == [type |-> "array", len |-> n, num_items |-> 0, group |-> Top(c).group]
  <2>1. "array" \in {"map", "array"}
    OBVIOUS
  <2>2. ProperBlocks(d) /\ Len(d) = Len(c) + 1 /\ Popped(d) = c /\ Top(d) = b
    BY <1>7, <2>1, PushedFacts
  <2>3. b.type = "array"
    OBVIOUS
  <2>4. Len(c) \in Nat /\ Len(c) > 0
    BY <1>7, TopBlock
  <2> QED BY <2>2, <2>3, <2>4
<1>9. Top(d).type = "map" => Top(d).num_items = 0
  BY <1>8
<1> HIDE DEF d, s
<1>10. EvenMaps(todo, blocks) => EvenMaps(s, d)
  BY <1>2, <1>3, <1>6, <1>8, <1>9, EvenPush
<1>11. EnterArray(todo, n) = s
  BY DEF EnterArray, s, t
<1> QED BY <1>5, <1>10, <1>11 DEF d, c

\* The sender's array.
LEMMA SendArrayKeeps ==
  ASSUME SenderInv, NEW n \in Nat, SendArray(n)
  PROVE  SenderInv'
<1>1. /\ EndOK(stodo, sblocks, sactive) /\ EvenMaps(stodo, sblocks) /\ closed = "no"
      /\ \E t \in Due(stodo) : t.kind = "array"
  BY DEF SenderInv, SendArray, SenderReady
<1> DEFINE s == EnterArray(stodo, n)
           d == Pushed(Counted(sblocks, 1), "array", n)
<1>2. EndOK(s, d, sactive) /\ EvenMaps(s, d)
  BY <1>1, EndEnterArray
<1>3. stodo' = s /\ sblocks' = d /\ sactive' = sactive /\ closed' = "no"
  BY <1>1 DEF SendArray
<1> QED BY <1>2, <1>3 DEF SenderInv

\* Its end, and no other block is found there.
LEMMA SendArrayEndKeeps ==
  ASSUME SenderInv, SendArrayEnd
  PROVE  SenderInv' /\ Top(sblocks).type = "array"
<1>1. /\ EndOK(stodo, sblocks, sactive) /\ EvenMaps(stodo, sblocks) /\ InArray(stodo)
      /\ closed = "no"
  BY DEF SenderInv, SendArrayEnd, SenderReady, AtArrayEnd, InArray
<1>2. Top(sblocks).type = "array"
  BY <1>1, EndTop
<1>3. /\ sblocks' = Popped(sblocks) /\ stodo' = Popped(stodo) /\ sactive' = sactive
      /\ closed' = "no"
  BY <1>1, <1>2 DEF SendArrayEnd
<1>4. EndOK(stodo', sblocks', sactive')
  BY <1>1, <1>3, EndPop
<1>5. EvenMaps(stodo', sblocks')
  BY <1>1, <1>3, EvenPop
<1> QED BY <1>2, <1>3, <1>4, <1>5 DEF SenderInv

\* At the start, and when the sender starts afresh.
LEMMA SenderStarts ==
  ASSUME stodo' = <<>>, sblocks' = Root, sactive' = NoGroup, closed' = "no"
  PROVE  SenderInv'
<1>1. EvenMaps(<<>>, Root)
  <2>1. Len(Root) = 1
    BY DEF Root
  <2> QED BY <2>1 DEF EvenMaps
<1> QED BY <1>1, EndRoot DEF SenderInv

\* The sender's structures in every step.
LEMMA SenderKeeps == SenderInv /\ [Next]_vars => SenderInv'
<1> SUFFICES ASSUME SenderInv, [Next]_vars PROVE SenderInv'
  OBVIOUS
<1>1. CASE UNCHANGED <<stodo, sblocks, sactive, closed>>
  BY <1>1 DEF SenderInv
<1>2. CASE Send
  <2>1. ASSUME NEW g \in Groups, SendGroup(g) PROVE SenderInv'
    BY <2>1, SendGroupKeeps
  <2>2. ASSUME NEW a \in UNION {Attrs[g] : g \in Groups}, SendId(a) PROVE SenderInv'
    BY <2>2, SendIdKeeps
  <2>3. ASSUME NEW v \in Values, SendValue(v) PROVE SenderInv'
    BY <2>3, SendValueKeeps
  <2>4. ASSUME NEW n \in 0..MaxElems, SendArray(n) PROVE SenderInv'
    <3>1. n \in Nat
      BY BoundsAssumption
    <3> QED BY <2>4, <3>1, SendArrayKeeps
  <2>5. CASE SendGroupEnd
    BY <2>5, SendGroupEndKeeps
  <2>6. CASE SendArrayEnd
    BY <2>6, SendArrayEndKeeps
  <2>7. CASE SenderRestart
    BY <2>7, SenderStarts DEF SenderRestart, SenderReady
  <2>8. CASE SenderClose
    BY <2>8 DEF SenderClose, svars, SenderInv
  <2>9. CASE SenderCrash
    BY <2>9 DEF SenderCrash, svars, SenderInv
  <2> QED BY <1>2, <2>1, <2>2, <2>3, <2>4, <2>5, <2>6, <2>7, <2>8, <2>9 DEF Send
<1>3. CASE Receive \/ ReceiverRestart
  <2>1. UNCHANGED <<svars, closed>>
    BY <1>3 DEF Receive, ReceiverRestart, RecvGroup, RecvGroupMap, RecvId, RecvKeysMap,
                RecvKeysName, RecvKeysPid, RecvKeysEnd, RecvAttr, RecvGroupEnd, RecvValue,
                RecvArray, RecvArrayEnd, RecvEof
  <2> QED BY <1>1, <2>1 DEF svars
<1> QED BY <1>1, <1>2, <1>3 DEF Next, vars, svars

-----------------------------------------------------------------------------
(* The receiver by itself.                                                 *)

\* Items counted while an ID is looked for.
LEMMA AskCount ==
  ASSUME NEW use, NEW want, NEW todo, NEW blocks, NEW active,
         AskOK(use, want, todo, blocks, active), ProperBlocks(blocks), NEW n \in Nat
  PROVE  AskOK(use, want, todo, Counted(blocks, n), active)
<1> DEFINE c == Counted(blocks, n)
<1>1. CASE use = "attr"
  BY <1>1, EndCount DEF AskOK
<1>2. CASE use # "attr"
  <2>1. /\ ProperBlocks(c) /\ Len(c) = Len(blocks) /\ Popped(c) = Popped(blocks)
        /\ Top(c) = CountedBlock(Top(blocks), n)
    BY CountedFacts
  <2>2. Top(blocks) \in BlockSet
    BY TopBlock
  <2>3. CountedBlock(Top(blocks), n).type = Top(blocks).type
    BY <2>2, CountedBlockFacts
  <2> HIDE DEF c
  <2> QED BY <1>2, <2>1, <2>3 DEF AskOK, c
<1> QED BY <1>1, <1>2

\* An error: no call goes on.
LEMMA FailKeeps ==
  ASSUME ReceiverInv, NEW code \in Errors, rcall' = [rcall EXCEPT !.at = code],
         ProperBlocks(rblocks'), ractive' = ractive
  PROVE  ReceiverInv'
<1>1. /\ rcall'.at = code /\ rcall'.want = rcall.want /\ rcall'.use = rcall.use
      /\ rcall'.name = rcall.name /\ rcall'.pid = rcall.pid
      /\ rcall' = [at |-> code, want |-> rcall.want, use |-> rcall.use, name |-> rcall.name,
                   pid |-> rcall.pid]
  BY DEF ReceiverInv, ReceiverOK, IsCall
<1>2. code \in Calls /\ code \notin {"client", "group", "group end", "id", "keys map"}
      /\ code \notin InKeys
  BY DEF Calls, Errors, InKeys
<1>3. IsCall(rcall')
  BY <1>1, <1>2 DEF ReceiverInv, ReceiverOK, IsCall
<1> QED BY <1>1, <1>2, <1>3 DEF ReceiverInv, ReceiverOK

\* nb_recv_group is called.
LEMMA RecvGroupKeeps ==
  ASSUME ReceiverInv, NEW g \in Groups, RecvGroup(g)
  PROVE  ReceiverInv'
<1>1. /\ rcall = Idle /\ EndOK(rtodo, rblocks, ractive) /\ GroupOf(g) \in Due(rtodo)
      /\ UNCHANGED <<rtodo, rblocks, ractive>>
  BY DEF ReceiverInv, ReceiverOK, RecvGroup, AtClient
<1>2. rcall' = [at |-> "group", want |-> g, use |-> "none", name |-> NoName, pid |-> 0]
  BY <1>1 DEF RecvGroup, Idle
<1>3. IsCall(rcall') /\ rcall'.at = "group" /\ rcall'.want = g
  BY <1>2 DEF IsCall, Calls
<1> QED BY <1>1, <1>3 DEF ReceiverInv, ReceiverOK, InKeys

\* The map of the group: the item that was due.
LEMMA RecvGroupMapKeeps ==
  ASSUME ReceiverInv, RecvGroupMap
  PROVE  ReceiverInv'
<1> DEFINE c == Counted(rblocks, 1)
           d == Pushed(c, "map", 0)
<1>1. /\ rcall.at = "group" /\ IsCall(rcall) /\ ProperBlocks(rblocks)
      /\ EndOK(rtodo, rblocks, ractive) /\ rcall.want \in Groups
      /\ GroupOf(rcall.want) \in Due(rtodo) /\ UNCHANGED <<rtodo, ractive>>
  BY DEF ReceiverInv, ReceiverOK, RecvGroupMap
<1>2. CASE rblocks' = d /\ rcall' = [rcall EXCEPT !.at = "id", !.use = "key 0"]
  <2>1. rcall' = [at |-> "id", want |-> rcall.want, use |-> "key 0", name |-> rcall.name,
                  pid |-> rcall.pid]
    BY <1>1, <1>2 DEF IsCall
  <2>2. IsCall(rcall') /\ rcall'.at = "id" /\ rcall'.use = "key 0" /\ rcall'.want = rcall.want
    BY <1>1, <2>1 DEF IsCall, Calls
  <2>3. EndOK(Begun(rtodo), c, ractive) /\ ~InAttr(Begun(rtodo))
    <3>1. rtodo = <<>> \/ Top(rtodo).left > 0
      BY <1>1, DueIsBegun
    <3> QED BY <1>1, <3>1, EndBegun
  <2> HIDE DEF c
  <2>4. ProperBlocks(c)
    BY <2>3 DEF EndOK
  <2>5. ProperBlocks(d) /\ Len(d) = Len(c) + 1 /\ Popped(d) = c /\ Top(d).type = "map"
    BY <2>4, PushedMap
  <2>6. Len(d) > 1
    BY <2>4, <2>5, TopBlock
  <2> HIDE DEF d
  <2>7. AskOK("key 0", rcall.want, rtodo, d, ractive)
    BY <1>1, <2>3, <2>5, <2>6 DEF AskOK
  <2>8. ractive \in Groups \cup {NoGroup}
    BY DEF ReceiverInv, ReceiverOK
  <2> QED BY <1>1, <1>2, <2>2, <2>5, <2>7, <2>8 DEF ReceiverInv, ReceiverOK, InKeys
<1>3. CASE rcall' = [rcall EXCEPT !.at = "NB_ERR_ITEM"] /\ rblocks' = rblocks
  BY <1>1, <1>3, FailKeeps DEF Errors
<1> QED BY <1>2, <1>3 DEF RecvGroupMap, Fail

\* recv_id finds pid 1, and a map of keys follows.
LEMMA RecvIdKeysKeeps ==
  ASSUME ReceiverInv, rcall.at = "id", rblocks' = Counted(rblocks, 1), GoTo("keys map"),
         UNCHANGED <<ractive, rtodo>>
  PROVE  ReceiverInv'
<1>1. /\ IsCall(rcall) /\ ProperBlocks(rblocks) /\ ractive \in Groups \cup {NoGroup}
      /\ AskOK(rcall.use, rcall.want, rtodo, rblocks, ractive)
  BY DEF ReceiverInv, ReceiverOK
<1>2. rcall' = [at |-> "keys map", want |-> rcall.want, use |-> rcall.use, name |-> rcall.name,
                pid |-> rcall.pid]
  BY <1>1 DEF GoTo, IsCall
<1>3. IsCall(rcall') /\ rcall'.at = "keys map" /\ rcall'.use = rcall.use /\ rcall'.want = rcall.want
  BY <1>1, <1>2 DEF IsCall, Calls
<1>4. 1 \in Nat
  OBVIOUS
<1>5. AskOK(rcall.use, rcall.want, rtodo, rblocks', ractive)
  BY <1>1, <1>4, AskCount
<1>6. ProperBlocks(rblocks')
  BY <1>1, <1>4, CountedFacts
<1> QED BY <1>1, <1>3, <1>5, <1>6 DEF ReceiverInv, ReceiverOK, InKeys

\* Pid 0 of a group.
LEMMA IdKey0Keeps ==
  ASSUME ReceiverInv, rcall.at = "id", NEW lid, IdKey0(lid)
  PROVE  ReceiverInv'
<1>1. /\ IsCall(rcall) /\ ProperBlocks(rblocks) /\ ractive \in Groups \cup {NoGroup}
      /\ AskOK(rcall.use, rcall.want, rtodo, rblocks, ractive) /\ rcall.use = "key 0"
      /\ rblocks' = Counted(rblocks, 1) /\ UNCHANGED <<ractive, rtodo>>
  BY DEF ReceiverInv, ReceiverOK, IdKey0
<1>2. 1 \in Nat
  OBVIOUS
<1>3. AskOK(rcall.use, rcall.want, rtodo, rblocks', ractive)
  BY <1>1, <1>2, AskCount
<1>4. ProperBlocks(rblocks')
  BY <1>1, <1>2, CountedFacts
<1>5. CASE rcall' = [rcall EXCEPT !.use = "group"]
  <2>1. rcall' = [at |-> "id", want |-> rcall.want, use |-> "group", name |-> rcall.name,
                  pid |-> rcall.pid]
    BY <1>1, <1>5 DEF IsCall
  <2>2. IsCall(rcall') /\ rcall'.at = "id" /\ rcall'.use = "group" /\ rcall'.want = rcall.want
    BY <1>1, <2>1 DEF IsCall, Calls
  <2>3. AskOK("group", rcall.want, rtodo, rblocks', ractive)
    BY <1>1, <1>3 DEF AskOK
  <2> QED BY <1>1, <1>4, <2>2, <2>3 DEF ReceiverInv, ReceiverOK, InKeys
<1>6. CASE rcall' = [rcall EXCEPT !.at = "NB_ERR_OTHER"]
  BY <1>1, <1>4, <1>6, FailKeeps DEF Errors
<1> QED BY <1>5, <1>6 DEF IdKey0, Fail

\* The call is over.
LEMMA ReturnKeeps ==
  ASSUME rcall' = Idle, EndOK(rtodo', rblocks', ractive')
  PROVE  ReceiverInv'
<1>1. IsCall(Idle) /\ Idle.at = "client"
  BY DEF IsCall, Idle, Calls
<1>2. ractive' \in Groups \cup {NoGroup}
  BY EndTop
<1>3. ProperBlocks(rblocks')
  BY DEF EndOK
<1> QED BY <1>1, <1>2, <1>3 DEF ReceiverInv, ReceiverOK, InKeys

\* The ID of a group: from here on its block has its name.
LEMMA IdGroupKeeps ==
  ASSUME ReceiverInv, rcall.at = "id", NEW lid, IdGroup(lid)
  PROVE  ReceiverInv'
<1>1. /\ IsCall(rcall) /\ ProperBlocks(rblocks) /\ ractive \in Groups \cup {NoGroup}
      /\ AskOK(rcall.use, rcall.want, rtodo, rblocks, ractive) /\ rcall.use = "group"
  BY DEF ReceiverInv, ReceiverOK, IdGroup
<1>2. CASE RName(GroupsNs, lid) = rcall.want
  <2> DEFINE g == rcall.want
             c == Counted(rblocks, 1)
             d == WithGroup(c, g)
  <2>1. /\ g \in Groups /\ GroupOf(g) \in Due(rtodo) /\ Len(rblocks) > 1
        /\ Top(rblocks).type = "map" /\ EndOK(Begun(rtodo), Popped(rblocks), ractive)
        /\ ~InAttr(Begun(rtodo))
    BY <1>1 DEF AskOK
  <2>2. /\ rcall' = Idle /\ ractive' = g /\ rblocks' = d
        /\ rtodo' = Append(Begun(rtodo), Frame("group", g, Value, 0))
    BY <1>2 DEF IdGroup, Return, Idle, EnterGroup
  <2>3. /\ ProperBlocks(c) /\ Len(c) = Len(rblocks) /\ Popped(c) = Popped(rblocks)
        /\ Top(c).type = "map"
    <3>1. /\ ProperBlocks(c) /\ Len(c) = Len(rblocks) /\ Popped(c) = Popped(rblocks)
          /\ Top(c) = CountedBlock(Top(rblocks), 1)
      BY <1>1, CountedFacts
    <3>2. Top(rblocks) \in BlockSet
      BY <1>1, TopBlock
    <3>3. CountedBlock(Top(rblocks), 1).type = "map"
      BY <2>1, <3>2, CountedBlockFacts
    <3> QED BY <3>1, <3>3
  <2> HIDE DEF c, g
  <2>4. /\ ProperBlocks(d) /\ Len(d) = Len(c) /\ Popped(d) = Popped(c)
        /\ Top(d).type = "map" /\ Top(d).group = g
    BY <2>1, <2>3, WithGroupFacts
  <2> HIDE DEF d
  <2>5. ProperBlocks(d) /\ Popped(d) = Popped(rblocks) /\ Len(d) > 1
    BY <2>1, <2>3, <2>4
  <2>6. EndOK(rtodo', rblocks', ractive')
    BY <2>1, <2>2, <2>4, <2>5, EndPushGroup
  <2> QED BY <2>2, <2>6, ReturnKeeps
<1>3. CASE RName(GroupsNs, lid) # rcall.want
  BY <1>1, <1>3, FailKeeps DEF IdGroup, Fail, Errors
<1> QED BY <1>2, <1>3

\* The ID of an attribute: its item is due next.
LEMMA IdAttrKeeps ==
  ASSUME ReceiverInv, rcall.at = "id", NEW lid, IdAttr(lid)
  PROVE  ReceiverInv'
<1>1. /\ InGroup(rtodo) /\ EndOK(rtodo, rblocks, ractive)
  BY DEF ReceiverInv, ReceiverOK, AskOK, IdAttr
<1>2. /\ rcall' = Idle /\ ractive' = ractive /\ rblocks' = Counted(rblocks, 1)
      /\ rtodo' = Append(rtodo, Frame("attr", ractive, Type[ractive][RName(ractive, lid)], 1))
  BY DEF IdAttr, Return, Idle, EnterAttr
<1>3. EndOK(rtodo, rblocks', ractive)
  <2>1. 1 \in Nat
    OBVIOUS
  <2> QED BY <1>1, <1>2, <2>1, EndCount
<1>4. EndOK(rtodo', rblocks', ractive')
  BY <1>1, <1>2, <1>3, EndPushAttr
<1> QED BY <1>2, <1>4, ReturnKeeps

\* recv_id.
LEMMA RecvIdKeeps ==
  ASSUME ReceiverInv, RecvId
  PROVE  ReceiverInv'
<1>1. rcall.at = "id" /\ ProperBlocks(rblocks)
  BY DEF RecvId, ReceiverInv, ReceiverOK
<1>2. CASE rblocks' = Counted(rblocks, 1) /\ GoTo("keys map") /\ UNCHANGED <<ractive, rtodo>>
  BY <1>1, <1>2, RecvIdKeysKeeps
<1>3. CASE /\ Fail("NB_ERR_UNDEF_ID") \/ Fail("undefined")
           /\ UNCHANGED <<rblocks, ractive, rtodo>>
  <2>1. PICK code \in Errors : rcall' = [rcall EXCEPT !.at = code]
    BY <1>3 DEF Fail, Errors
  <2> QED BY <1>1, <1>3, <2>1, FailKeeps
<1>4. ASSUME NEW lid, IdKey0(lid) \/ IdGroup(lid) \/ IdAttr(lid) PROVE ReceiverInv'
  BY <1>1, <1>4, IdKey0Keeps, IdGroupKeeps, IdAttrKeeps
<1> QED BY <1>2, <1>3, <1>4 DEF RecvId

\* The map of the keys is one more item, and on top.
LEMMA RecvKeysMapKeeps ==
  ASSUME ReceiverInv, RecvKeysMap
  PROVE  ReceiverInv'
<1> DEFINE c == Counted(rblocks, 1)
           d == Pushed(c, "map", 0)
<1>1. /\ rcall.at = "keys map" /\ IsCall(rcall) /\ ProperBlocks(rblocks)
      /\ AskOK(rcall.use, rcall.want, rtodo, rblocks, ractive)
      /\ ractive \in Groups \cup {NoGroup} /\ UNCHANGED <<rtodo, ractive>>
  BY DEF ReceiverInv, ReceiverOK, RecvKeysMap
<1>2. CASE rblocks' = d /\ GoTo("keys name")
  <2>1. rcall' = [at |-> "keys name", want |-> rcall.want, use |-> rcall.use, name |-> rcall.name,
                  pid |-> rcall.pid]
    BY <1>1, <1>2 DEF GoTo, IsCall
  <2>2. IsCall(rcall') /\ rcall'.at = "keys name" /\ rcall'.use = rcall.use
        /\ rcall'.want = rcall.want
    BY <1>1, <2>1 DEF IsCall, Calls
  <2>3. 1 \in Nat
    OBVIOUS
  <2>4. AskOK(rcall.use, rcall.want, rtodo, c, ractive) /\ ProperBlocks(c)
    BY <1>1, <2>3, AskCount, CountedFacts
  <2> HIDE DEF c
  <2>5. ProperBlocks(d) /\ Len(d) = Len(c) + 1 /\ Popped(d) = c /\ Top(d).type = "map"
    BY <2>4, PushedMap
  <2>6. Len(d) > 1
    BY <2>4, <2>5, TopBlock
  <2> HIDE DEF d
  <2> QED BY <1>1, <1>2, <2>2, <2>4, <2>5, <2>6 DEF ReceiverInv, ReceiverOK, InKeys
<1>3. CASE rcall' = [rcall EXCEPT !.at = "NB_ERR_ITEM"] /\ rblocks' = rblocks
  BY <1>1, <1>3, FailKeeps DEF Errors
<1> QED BY <1>2, <1>3 DEF RecvKeysMap, Fail

\* The name and the pid in that map.
LEMMA InKeysKeeps ==
  ASSUME ReceiverInv, rcall.at \in InKeys, rcall'.at \in InKeys, rcall'.use = rcall.use,
         rcall'.want = rcall.want, IsCall(rcall'), rblocks' = Counted(rblocks, 1),
         UNCHANGED <<rtodo, ractive>>
  PROVE  ReceiverInv'
<1>1. /\ ProperBlocks(rblocks) /\ Len(rblocks) > 1 /\ Top(rblocks).type = "map"
      /\ AskOK(rcall.use, rcall.want, rtodo, Popped(rblocks), ractive)
      /\ ractive \in Groups \cup {NoGroup}
  BY DEF ReceiverInv, ReceiverOK
<1>2. 1 \in Nat
  OBVIOUS
<1>3. /\ ProperBlocks(rblocks') /\ Len(rblocks') = Len(rblocks)
      /\ Top(rblocks') = CountedBlock(Top(rblocks), 1) /\ Popped(rblocks') = Popped(rblocks)
  BY <1>1, <1>2, CountedFacts
<1>4. CountedBlock(Top(rblocks), 1).type = "map"
  <2>1. Top(rblocks) \in BlockSet
    BY <1>1, TopBlock
  <2> QED BY <1>1, <1>2, <2>1, CountedBlockFacts
<1>5. rcall'.at \notin {"client", "group", "group end", "id", "keys map"}
  BY DEF InKeys
<1> QED BY <1>1, <1>3, <1>4, <1>5 DEF ReceiverInv, ReceiverOK

\* The name in the map of keys.
LEMMA RecvKeysNameKeeps ==
  ASSUME ReceiverInv, RecvKeysName
  PROVE  ReceiverInv'
<1>1. /\ rcall.at = "keys name" /\ IsCall(rcall) /\ ProperBlocks(rblocks)
      /\ UNCHANGED <<rtodo, ractive>>
  BY DEF ReceiverInv, ReceiverOK, RecvKeysName
<1>2. CASE /\ rblocks' = Counted(rblocks, 1)
           /\ rcall' = [rcall EXCEPT !.at = "keys pid", !.name = Read.name]
  <2>1. rcall' = [at |-> "keys pid", want |-> rcall.want, use |-> rcall.use, name |-> Read.name,
                  pid |-> rcall.pid]
    BY <1>1, <1>2 DEF IsCall
  <2>2. IsCall(rcall') /\ rcall'.at = "keys pid" /\ rcall'.use = rcall.use
        /\ rcall'.want = rcall.want
    BY <1>1, <2>1 DEF IsCall, Calls
  <2>3. rcall.at \in InKeys /\ rcall'.at \in InKeys
    BY <1>1, <2>2 DEF InKeys
  <2> QED BY <1>1, <1>2, <2>2, <2>3, InKeysKeeps
<1>3. CASE rcall' = [rcall EXCEPT !.at = "NB_ERR_ITEM"] /\ rblocks' = rblocks
  BY <1>1, <1>3, FailKeeps DEF Errors
<1> QED BY <1>2, <1>3 DEF RecvKeysName, Fail

\* The first item has a natural number.
LEMMA ReadNat == ASSUME StreamOK, stream # <<>> PROVE Read.n \in Nat
<1>1. Len(stream) \in Nat /\ Len(stream) > 0 /\ Head(stream) = stream[1]
  BY SeqFacts, TailFacts DEF StreamOK, NatItems
<1> QED BY <1>1 DEF StreamOK, NatItems, Read

\* And its pid.
LEMMA RecvKeysPidKeeps ==
  ASSUME ReceiverInv, StreamOK, RecvKeysPid
  PROVE  ReceiverInv'
<1>1. /\ rcall.at = "keys pid" /\ IsCall(rcall) /\ ProperBlocks(rblocks)
      /\ UNCHANGED <<rtodo, ractive>> /\ stream # <<>>
  BY DEF ReceiverInv, ReceiverOK, RecvKeysPid, Reads, ReadsOther
<1>2. CASE /\ rblocks' = Counted(rblocks, 1)
           /\ rcall' = [rcall EXCEPT !.at = "keys end", !.pid = Read.n]
  <2>1. rcall' = [at |-> "keys end", want |-> rcall.want, use |-> rcall.use, name |-> rcall.name,
                  pid |-> Read.n]
    BY <1>1, <1>2 DEF IsCall
  <2>0. Read.n \in Nat
    BY <1>1, ReadNat
  <2>2. IsCall(rcall') /\ rcall'.at = "keys end" /\ rcall'.use = rcall.use
        /\ rcall'.want = rcall.want
    BY <1>1, <2>0, <2>1 DEF IsCall, Calls
  <2>3. rcall.at \in InKeys /\ rcall'.at \in InKeys
    BY <1>1, <2>2 DEF InKeys
  <2> QED BY <1>1, <1>2, <2>2, <2>3, InKeysKeeps
<1>3. CASE rcall' = [rcall EXCEPT !.at = "undefined"] /\ rblocks' = rblocks
  BY <1>1, <1>3, FailKeeps DEF Errors
<1> QED BY <1>2, <1>3 DEF RecvKeysPid, Fail

\* The end of the map.
LEMMA RecvKeysEndKeeps ==
  ASSUME ReceiverInv, RecvKeysEnd
  PROVE  ReceiverInv'
<1>1. /\ rcall.at = "keys end" /\ IsCall(rcall) /\ ProperBlocks(rblocks) /\ Len(rblocks) > 1
      /\ AskOK(rcall.use, rcall.want, rtodo, Popped(rblocks), ractive)
      /\ ractive \in Groups \cup {NoGroup} /\ UNCHANGED <<rtodo, ractive>>
  BY DEF ReceiverInv, ReceiverOK, RecvKeysEnd, InKeys
<1>2. ProperBlocks(Popped(rblocks))
  BY <1>1, PoppedProper
<1>3. CASE rblocks' = Popped(rblocks) /\ GoTo("id")
  <2>1. rcall' = [at |-> "id", want |-> rcall.want, use |-> rcall.use, name |-> rcall.name,
                  pid |-> rcall.pid]
    BY <1>1, <1>3 DEF GoTo, IsCall
  <2>2. IsCall(rcall') /\ rcall'.at = "id" /\ rcall'.use = rcall.use /\ rcall'.want = rcall.want
    BY <1>1, <2>1 DEF IsCall, Calls
  <2> QED BY <1>1, <1>2, <1>3, <2>2 DEF ReceiverInv, ReceiverOK, InKeys
<1>4. CASE /\ Fail("assert") \/ Fail("NB_ERR_BREAK")
           /\ rblocks' = Popped(rblocks) \/ rblocks' = rblocks
  <2>1. PICK code \in Errors : rcall' = [rcall EXCEPT !.at = code]
    BY <1>4 DEF Fail, Errors
  <2> QED BY <1>1, <1>2, <1>4, <2>1, FailKeeps
<1> QED BY <1>3, <1>4 DEF RecvKeysEnd

\* nb_recv_attr is called.
LEMMA RecvAttrKeeps ==
  ASSUME ReceiverInv, RecvAttr
  PROVE  ReceiverInv'
<1>1. /\ rcall = Idle /\ EndOK(rtodo, rblocks, ractive) /\ InGroup(rtodo)
      /\ UNCHANGED <<rtodo, rblocks, ractive>> /\ IsCall(Idle) /\ ProperBlocks(rblocks)
      /\ ractive \in Groups \cup {NoGroup}
  BY DEF ReceiverInv, ReceiverOK, RecvAttr, AtClient
<1>2. CASE GoTo("group end")
  <2>1. rcall' = [at |-> "group end", want |-> NoGroup, use |-> "none", name |-> NoName, pid |-> 0]
    BY <1>1, <1>2 DEF GoTo, Idle
  <2>2. IsCall(rcall') /\ rcall'.at = "group end"
    BY <2>1 DEF IsCall, Calls
  <2> QED BY <1>1, <2>2 DEF ReceiverInv, ReceiverOK, InKeys
<1>3. CASE rcall' = [rcall EXCEPT !.at = "id", !.use = "attr"]
  <2>1. rcall' = [at |-> "id", want |-> NoGroup, use |-> "attr", name |-> NoName, pid |-> 0]
    BY <1>1, <1>3 DEF Idle
  <2>2. IsCall(rcall') /\ rcall'.at = "id" /\ rcall'.use = "attr"
    BY <2>1 DEF IsCall, Calls
  <2>3. AskOK("attr", rcall'.want, rtodo, rblocks, ractive)
    BY <1>1 DEF AskOK
  <2> QED BY <1>1, <2>2, <2>3 DEF ReceiverInv, ReceiverOK, InKeys
<1>4. CASE GoTo("NB_ERR_OPER")
  BY <1>1, <1>4, FailKeeps DEF GoTo, Errors
<1> QED BY <1>2, <1>3, <1>4 DEF RecvAttr

\* The break that ends a group: block and frame of it go together.
LEMMA RecvGroupEndKeeps ==
  ASSUME ReceiverInv, RecvGroupEnd
  PROVE  ReceiverInv'
<1>1. EndOK(rtodo, rblocks, ractive) /\ InGroup(rtodo) /\ ProperBlocks(rblocks)
  BY DEF ReceiverInv, ReceiverOK, RecvGroupEnd
<1>2. Top(rblocks).group = ractive /\ ractive \in Groups /\ Top(rblocks).type = "map"
  BY <1>1, EndTop DEF EndOK
<1>3. Top(rblocks).group # NoGroup
  BY <1>2, SchemaAssumption
<1>4. rcall' = Idle /\ rblocks' = Popped(rblocks) /\ rtodo' = Popped(rtodo)
      /\ ractive' = Top(Popped(rblocks)).group
  BY <1>2, <1>3 DEF RecvGroupEnd, Return, Idle
<1>5. EndOK(rtodo', rblocks', ractive')
  BY <1>1, <1>4, EndPop
<1> QED BY <1>4, <1>5, ReturnKeeps

\* A value counts in the block and is taken from what is due.
LEMMA RecvValueKeeps ==
  ASSUME ReceiverInv, RecvValue
  PROVE  ReceiverInv'
<1>1. /\ rcall = Idle /\ EndOK(rtodo, rblocks, ractive) /\ Due(rtodo) # {}
      /\ ractive' = ractive /\ ProperBlocks(rblocks)
  BY DEF ReceiverInv, ReceiverOK, RecvValue, AtClient
<1>2. CASE /\ rblocks' = Counted(rblocks, 1) /\ rtodo' = Begun(rtodo) /\ rcall' = rcall
  <2>1. rtodo = <<>> \/ Top(rtodo).left > 0
    BY <1>1, DueIsBegun
  <2>2. EndOK(rtodo', rblocks', ractive')
    BY <1>1, <1>2, <2>1, EndBegun
  <2> QED BY <1>1, <1>2, <2>2, ReturnKeeps
<1>3. CASE rcall' = [rcall EXCEPT !.at = "undefined"] /\ rblocks' = rblocks
  BY <1>1, <1>3, FailKeeps DEF Errors
<1> QED BY <1>2, <1>3 DEF RecvValue, Fail

\* An array opens a block for as many elements as its frame expects.
LEMMA RecvArrayKeeps ==
  ASSUME ReceiverInv, StreamOK, RecvArray
  PROVE  ReceiverInv'
<1>1. /\ rcall = Idle /\ EndOK(rtodo, rblocks, ractive) /\ \E t \in Due(rtodo) : t.kind = "array"
      /\ ractive' = ractive /\ ProperBlocks(rblocks) /\ stream # <<>>
  BY DEF ReceiverInv, ReceiverOK, RecvArray, AtClient, Reads, ReadsOther
<1>2. CASE /\ rblocks' = Pushed(Counted(rblocks, 1), "array", Read.n)
           /\ rtodo' = EnterArray(rtodo, Read.n) /\ rcall' = rcall
  <2>1. Read.n \in Nat
    BY <1>1, ReadNat
  <2>2. EndOK(rtodo', rblocks', ractive')
    BY <1>1, <1>2, <2>1, EndEnterArray
  <2> QED BY <1>1, <1>2, <2>2, ReturnKeeps
<1>3. CASE rcall' = [rcall EXCEPT !.at = "NB_ERR_ITEM"] /\ rblocks' = rblocks
  BY <1>1, <1>3, FailKeeps DEF Errors
<1> QED BY <1>2, <1>3 DEF RecvArray, Fail

\* The items counted are those announced.
LEMMA RecvArrayEndKeeps ==
  ASSUME ReceiverInv, RecvArrayEnd
  PROVE  ReceiverInv'
<1>1. /\ rcall = Idle /\ EndOK(rtodo, rblocks, ractive) /\ InArray(rtodo) /\ Top(rtodo).left = 0
      /\ ractive' = ractive /\ ProperBlocks(rblocks)
  BY DEF ReceiverInv, ReceiverOK, RecvArrayEnd, AtClient, AtArrayEnd, InArray
<1>2. CASE rblocks' = Popped(rblocks) /\ rtodo' = Popped(rtodo) /\ rcall' = rcall
  <2>1. EndOK(rtodo', rblocks', ractive')
    BY <1>1, <1>2, EndPop
  <2> QED BY <1>1, <1>2, <2>1, ReturnKeeps
<1>3. CASE rcall' = [rcall EXCEPT !.at = "NB_ERR_OPER"] /\ rblocks' = rblocks
  BY <1>1, <1>3, FailKeeps DEF Errors
<1> QED BY <1>2, <1>3 DEF RecvArrayEnd, Fail

\* The receiver's structures in every step.
LEMMA ReceiverKeeps == ReceiverInv /\ StreamOK /\ [Next]_vars => ReceiverInv'
<1> SUFFICES ASSUME ReceiverInv, StreamOK, [Next]_vars PROVE ReceiverInv'
  OBVIOUS
<1>1. CASE UNCHANGED rvars
  BY <1>1 DEF ReceiverInv, rvars
<1>2. CASE Send
  <2>1. UNCHANGED rvars
    BY <1>2 DEF Send, SendGroup, SendId, SendValue, SendArray, SendGroupEnd, SendArrayEnd,
                SenderRestart, SenderClose, SenderCrash
  <2> QED BY <1>1, <2>1
<1>3. CASE Receive
  <2>1. ASSUME NEW g \in Groups, RecvGroup(g) PROVE ReceiverInv'
    BY <2>1, RecvGroupKeeps
  <2>2. CASE RecvEof
    BY <2>2, FailKeeps DEF RecvEof, Fail, Errors, ReceiverInv, ReceiverOK
  <2> QED BY <1>3, <2>1, <2>2, RecvGroupMapKeeps, RecvIdKeeps, RecvKeysMapKeeps,
             RecvKeysNameKeeps, RecvKeysPidKeeps, RecvKeysEndKeeps, RecvAttrKeeps,
             RecvGroupEndKeeps, RecvValueKeeps, RecvArrayKeeps, RecvArrayEndKeeps
             DEF Receive
<1>4. CASE ReceiverRestart
  <2>1. rtodo' = <<>> /\ rblocks' = Root /\ ractive' = NoGroup /\ rcall' = Idle
    BY <1>4 DEF ReceiverRestart, AtClient, ReceiverInv, ReceiverOK
  <2> QED BY <2>1, EndRoot, ReturnKeeps
<1> QED BY <1>1, <1>2, <1>3, <1>4 DEF Next, vars

-----------------------------------------------------------------------------
(* What the sender writes, item by item.                                   *)

\* The stream s with the keys of a name behind it, if it has no pid yet.
KeysPut(s, ns, name, p) ==
  Append(Append(Append(Append(Append(s, Uint(1)), MapIndef), Text(name)), Uint(p)),
         BreakOfKeys(ns, name, p))
WithKeys(s, ns, name) ==
  IF pid[ns][name] # 0 THEN s ELSE KeysPut(s, ns, name, LidToPid(ns, name))

\* Concatenation, an element at a time.
LEMMA ConcatAppend ==
  ASSUME NEW s, IsSeq(s), NEW t, IsSeq(t), NEW x
  PROVE  /\ s \o Append(t, x) = Append(s \o t, x)
         /\ s \o <<x>> = Append(s, x)
         /\ s \o <<>> = s
<1>1. PICK S : s \in Seq(S)
  BY DEF IsSeq
<1>2. PICK T : t \in Seq(T)
  BY DEF IsSeq
<1> DEFINE U == S \cup T \cup {x}
<1>3. s \in Seq(U) /\ t \in Seq(U) /\ x \in U
  BY <1>1, <1>2, SeqMonotonic
<1> HIDE DEF U
<1>4. s \o Append(t, x) = Append(s \o t, x)
  BY <1>3
<1>5. s \o <<x>> = Append(s, x)
  BY <1>3, AppendIsConcat
<1>6. s \o <<>> = s
  BY <1>3, ConcatEmptySeq
<1> QED BY <1>4, <1>5, <1>6

\* The keys behind other items.
LEMMA KeysConcat ==
  ASSUME NEW s, IsSeq(s), NEW ns, NEW name
  PROVE  s \o Keys(ns, name) = WithKeys(s, ns, name) /\ IsSeq(Keys(ns, name))
<1>1. CASE pid[ns][name] # 0
  BY <1>1, ConcatAppend, NoElements DEF Keys, WithKeys
<1>2. CASE pid[ns][name] = 0
  <2> DEFINE p == LidToPid(ns, name)
             a == Uint(1)
             b == MapIndef
             c == Text(name)
             d == Uint(p)
             e == BreakOfKeys(ns, name, p)
  <2>1. Keys(ns, name) = <<a, b, c, d, e>>
    BY <1>2 DEF Keys
  <2>2. WithKeys(s, ns, name) = Append(Append(Append(Append(Append(s, a), b), c), d), e)
    BY <1>2 DEF WithKeys, KeysPut
  <2> HIDE DEF a, b, c, d, e, p
  <2>3. /\ <<a, b>> = Append(<<a>>, b) /\ <<a, b, c>> = Append(<<a, b>>, c)
        /\ <<a, b, c, d>> = Append(<<a, b, c>>, d)
        /\ <<a, b, c, d, e>> = Append(<<a, b, c, d>>, e)
    OBVIOUS
  <2>4. /\ IsSeq(<<a>>) /\ IsSeq(<<a, b>>) /\ IsSeq(<<a, b, c>>) /\ IsSeq(<<a, b, c, d>>)
        /\ IsSeq(<<a, b, c, d, e>>)
    <3>1. IsSeq(<<a>>)
      <4>1. <<a>> \in Seq({a})
        OBVIOUS
      <4> QED BY <4>1 DEF IsSeq
    <3>2. IsSeq(<<a, b>>)
      BY ONLY <2>3, <3>1, AppendFacts
    <3>3. IsSeq(<<a, b, c>>)
      BY ONLY <2>3, <3>2, AppendFacts
    <3>4. IsSeq(<<a, b, c, d>>)
      BY ONLY <2>3, <3>3, AppendFacts
    <3>5. IsSeq(<<a, b, c, d, e>>)
      BY ONLY <2>3, <3>4, AppendFacts
    <3> QED BY ONLY <3>1, <3>2, <3>3, <3>4, <3>5
  <2>5. s \o <<a>> = Append(s, a)
    BY ConcatAppend, NoElements
  <2>6. s \o <<a, b>> = Append(s \o <<a>>, b)
    BY <2>3, <2>4, ConcatAppend
  <2>7. s \o <<a, b, c>> = Append(s \o <<a, b>>, c)
    BY <2>3, <2>4, ConcatAppend
  <2>8. s \o <<a, b, c, d>> = Append(s \o <<a, b, c>>, d)
    BY <2>3, <2>4, ConcatAppend
  <2>9. s \o <<a, b, c, d, e>> = Append(s \o <<a, b, c, d>>, e)
    BY <2>3, <2>4, ConcatAppend
  <2> QED BY <2>1, <2>2, <2>4, <2>5, <2>6, <2>7, <2>8, <2>9
<1> QED BY <1>1, <1>2

\* A group: its map, the keys of its name, pid 0 and the pid of its name.
LEMMA GroupItems ==
  ASSUME IsSeq(stream), NEW g, SendGroup(g)
  PROVE  /\ stream' = Append(Append(WithKeys(Append(stream, MapIndef), GroupsNs, g), Uint(0)),
                             PidOf(GroupsNs, g, LidToPid(GroupsNs, g)))
         /\ pending' = Append(pending, Said("group", g, 0))
<1> DEFINE k == Keys(GroupsNs, g)
           m == MapIndef
           z == Uint(0)
           p == PidOf(GroupsNs, g, LidToPid(GroupsNs, g))
<1>1. stream' = stream \o (<<m>> \o k \o <<z, p>>) /\ pending' = Append(pending, Said("group", g, 0))
  BY DEF SendGroup, Say
<1>2. IsSeq(Append(stream, m))
  BY AppendFacts
<1>3. Append(stream, m) \o k = WithKeys(Append(stream, m), GroupsNs, g) /\ IsSeq(k)
  BY <1>2, KeysConcat
<1> HIDE DEF k, m, z, p
<1>4. stream' = Append(Append(Append(stream, m) \o k, z), p)
  <2>1. PICK S : stream \in Seq(S)
    BY DEF IsSeq
  <2>2. PICK K : k \in Seq(K)
    BY <1>3 DEF IsSeq
  <2> DEFINE U == S \cup K \cup {m, z, p}
  <2>3. stream \in Seq(U) /\ k \in Seq(U) /\ m \in U /\ z \in U /\ p \in U
    BY <2>1, <2>2, SeqMonotonic
  <2> HIDE DEF U
  <2>4. <<m>> \in Seq(U) /\ <<z, p>> \in Seq(U) /\ <<z>> \in Seq(U) /\ <<p>> \in Seq(U)
    BY <2>3
  <2>5. <<m>> \o k \in Seq(U) /\ Append(stream, m) \in Seq(U)
    BY <2>3, <2>4
  <2>6. stream \o (<<m>> \o k \o <<z, p>>) = (stream \o (<<m>> \o k)) \o <<z, p>>
    BY <2>3, <2>4, <2>5, ConcatAssociative
  <2>7. stream \o (<<m>> \o k) = (stream \o <<m>>) \o k
    BY <2>3, <2>4, ConcatAssociative
  <2>8. stream \o <<m>> = Append(stream, m)
    BY ConcatAppend, NoElements
  <2> DEFINE t == Append(stream, m) \o k
  <2>9. t \in Seq(U)
    BY <2>3, <2>5
  <2> HIDE DEF t
  <2>10. <<z, p>> = Append(<<z>>, p)
    OBVIOUS
  <2>11. t \o <<z, p>> = Append(t \o <<z>>, p)
    BY <2>4, <2>9, <2>10, ConcatAppend DEF IsSeq
  <2>12. t \o <<z>> = Append(t, z)
    BY <2>9, NoElements, ConcatAppend DEF IsSeq
  <2> QED BY <1>1, <2>6, <2>7, <2>8, <2>11, <2>12 DEF t
<1> QED BY <1>1, <1>3, <1>4 DEF m, z, p

\* An attribute: the keys of its name and its pid.
LEMMA IdItems ==
  ASSUME IsSeq(stream), NEW a, SendId(a)
  PROVE  /\ stream' = Append(WithKeys(stream, sactive, a), PidOf(sactive, a, LidToPid(sactive, a)))
         /\ pending' = Append(pending, Said("attr", a, 0))
<1>1. /\ stream' = stream \o Append(Keys(sactive, a), PidOf(sactive, a, LidToPid(sactive, a)))
      /\ pending' = Append(pending, Said("attr", a, 0))
  BY DEF SendId, Say
<1>2. stream \o Keys(sactive, a) = WithKeys(stream, sactive, a) /\ IsSeq(Keys(sactive, a))
  BY KeysConcat
<1> DEFINE k == Keys(sactive, a)
           p == PidOf(sactive, a, LidToPid(sactive, a))
<1> HIDE DEF k, p
<1>3. stream \o Append(k, p) = Append(stream \o k, p)
  BY <1>2, ConcatAppend DEF k
<1> QED BY <1>1, <1>2, <1>3 DEF k, p

\* The other calls: one item.
LEMMA OneItem ==
  ASSUME IsSeq(stream), NEW x, NEW w, Say(<<x>>, w)
  PROVE  stream' = Append(stream, x) /\ pending' = Append(pending, w)
BY ConcatAppend, NoElements DEF Say

-----------------------------------------------------------------------------
(* Types.                                                                  *)

\* Items added behind, taken in front and lost behind.
LEMMA NatItemsAppend ==
  ASSUME NEW s, NatItems(s), NEW x, x.n \in Nat
  PROVE  NatItems(Append(s, x))
<1>1. Len(s) \in Nat
  BY SeqFacts DEF NatItems
<1>2. /\ IsSeq(Append(s, x)) /\ Len(Append(s, x)) = Len(s) + 1
      /\ \A i \in 1..Len(s) : Append(s, x)[i] = s[i]
      /\ Append(s, x)[Len(s) + 1] = x
  BY AppendFacts DEF NatItems
<1> SUFFICES ASSUME NEW i \in 1..(Len(s) + 1) PROVE Append(s, x)[i].n \in Nat
  BY <1>2 DEF NatItems
<1>3. i = Len(s) + 1 \/ i \in 1..Len(s)
  BY <1>1
<1> QED BY <1>2, <1>3 DEF NatItems

\* What is left when the first item is read.
LEMMA NatItemsTail ==
  ASSUME NEW s, NatItems(s), s # <<>>
  PROVE  NatItems(Tail(s))
<1>1. Len(s) \in Nat
  BY SeqFacts DEF NatItems
<1>2. /\ IsSeq(Tail(s)) /\ Len(Tail(s)) = Len(s) - 1
      /\ \A i \in 1..(Len(s) - 1) : Tail(s)[i] = s[i + 1]
  BY TailFacts DEF NatItems
<1> SUFFICES ASSUME NEW i \in 1..(Len(s) - 1) PROVE Tail(s)[i].n \in Nat
  BY <1>2 DEF NatItems
<1>3. i + 1 \in 1..Len(s)
  BY <1>1
<1> QED BY <1>2, <1>3 DEF NatItems

\* And when the end is cut off.
LEMMA NatItemsPrefix ==
  ASSUME NEW s, NatItems(s), NEW n \in 0..Len(s)
  PROVE  NatItems(SubSeq(s, 1, n))
<1>1. Len(s) \in Nat
  BY SeqFacts DEF NatItems
<1>2. /\ IsSeq(SubSeq(s, 1, n)) /\ Len(SubSeq(s, 1, n)) = n
      /\ \A i \in 1..n : SubSeq(s, 1, n)[i] = s[i]
  BY PrefixFacts DEF NatItems
<1> SUFFICES ASSUME NEW i \in 1..n PROVE SubSeq(s, 1, n)[i].n \in Nat
  BY <1>2 DEF NatItems
<1>3. i \in 1..Len(s)
  BY <1>1
<1> QED BY <1>2, <1>3 DEF NatItems

\* The namespace in which the sender's client looks a name up.
LEMMA SendIdIn == ASSUME SenderInv, NEW a, SendId(a) PROVE sactive \in Groups /\ a \in NamesIn(sactive)
<1>1. sactive \in Groups
  BY EndTop DEF SenderInv, SendId
<1>2. sactive # GroupsNs
  BY <1>1, SchemaAssumption
<1> QED BY <1>1, <1>2 DEF SendId, NamesIn

\* A pid is a number, the assigned one as well.
LEMMA LidToPidNat ==
  ASSUME PidsOK, NEW ns \in Namespaces, NEW name \in NamesIn(ns)
  PROVE  LidToPid(ns, name) \in Nat
BY DEF PidsOK, LidToPid

\* The keys are such items.
LEMMA WithKeysNat ==
  ASSUME PidsOK, NEW ns \in Namespaces, NEW name \in NamesIn(ns), NEW s, NatItems(s)
  PROVE  NatItems(WithKeys(s, ns, name))
<1> DEFINE p == LidToPid(ns, name)
<1>1. p \in Nat
  BY LidToPidNat
<1> HIDE DEF p
<1>2. /\ Uint(1).n \in Nat /\ MapIndef.n \in Nat /\ Text(name).n \in Nat /\ Uint(p).n \in Nat
      /\ BreakOfKeys(ns, name, p).n \in Nat
  BY <1>1 DEF Uint, MapIndef, Text, BreakOfKeys, Item
<1>3. NatItems(Append(Append(Append(s, Uint(1)), MapIndef), Text(name)))
  BY <1>2, NatItemsAppend
<1>4. NatItems(KeysPut(s, ns, name, p))
  BY <1>2, <1>3, NatItemsAppend DEF KeysPut
<1> QED BY <1>4 DEF WithKeys, p

\* lid_to_pid and Assign.
LEMMA AssignTypes ==
  ASSUME PidsOK, NEW ns \in Namespaces, NEW name \in NamesIn(ns), Assign(ns, name)
  PROVE  PidsOK'
<1>1. LidToPid(ns, name) \in Nat
  BY LidToPidNat
<1>2. pid' = [pid EXCEPT ![ns][name] = LidToPid(ns, name)]
  BY DEF Assign
<1>3. /\ pid' = [n \in Namespaces |-> pid'[n]]
      /\ \A n \in Namespaces : pid'[n] \in [NamesIn(n) -> Nat]
  BY <1>1, <1>2 DEF PidsOK
<1>4. /\ max_pid' = [n \in Namespaces |-> max_pid'[n]]
      /\ \A n \in Namespaces : max_pid'[n] \in Nat
  <2>1. CASE max_pid' = max_pid
    BY <2>1 DEF PidsOK
  <2>2. CASE max_pid' = [max_pid EXCEPT ![ns] = max_pid[ns] + 1]
    BY <2>2 DEF PidsOK
  <2> QED BY <2>1, <2>2 DEF Assign
<1> QED BY <1>3, <1>4 DEF PidsOK

\* A sender that starts afresh has given out no pid.
LEMMA PidsStart ==
  ASSUME pid' = [ns \in Namespaces |-> [x \in NamesIn(ns) |-> 0]],
         max_pid' = [ns \in Namespaces |-> 1]
  PROVE  PidsOK'
BY DEF PidsOK

\* The pids are numbers after every step.
LEMMA PidsKeep == ASSUME SenderInv, PidsOK, [Next]_vars PROVE PidsOK'
<1>1. CASE UNCHANGED <<pid, max_pid>>
  BY <1>1 DEF PidsOK
<1>2. ASSUME NEW g \in Groups, SendGroup(g) PROVE PidsOK'
  BY <1>2, AssignTypes DEF SendGroup, Namespaces, NamesIn
<1>3. ASSUME NEW a, SendId(a) PROVE PidsOK'
  BY <1>3, SendIdIn, AssignTypes DEF SendId, Namespaces
<1>4. CASE SenderRestart
  BY <1>4, PidsStart DEF SenderRestart
<1>5. CASE Receive
  BY <1>1, <1>5 DEF Receive, svars, RecvGroup, RecvGroupMap, RecvId, RecvKeysMap, RecvKeysName,
                    RecvKeysPid, RecvKeysEnd, RecvAttr, RecvGroupEnd, RecvValue, RecvArray,
                    RecvArrayEnd, RecvEof
<1>6. CASE ReceiverRestart
  BY <1>1, <1>6 DEF ReceiverRestart, svars
<1>7. CASE Send
  <2>1. ASSUME NEW v, SendValue(v) PROVE PidsOK'
    BY <1>1, <2>1 DEF SendValue
  <2>2. ASSUME NEW n, SendArray(n) PROVE PidsOK'
    BY <1>1, <2>2 DEF SendArray
  <2>3. CASE SendGroupEnd \/ SendArrayEnd \/ SenderClose \/ SenderCrash
    BY <1>1, <2>3 DEF SendGroupEnd, SendArrayEnd, SenderClose, SenderCrash, svars
  <2> QED BY <1>2, <1>3, <1>4, <1>7, <2>1, <2>2, <2>3 DEF Send
<1> QED BY <1>1, <1>5, <1>6, <1>7 DEF Next, vars, svars

\* What is in the stream.
LEMMA SendKeepsStream == ASSUME SenderInv, PidsOK, StreamOK, Send PROVE StreamOK'
<1>1. IsSeq(stream) /\ IsSeq(pending)
  BY DEF StreamOK, NatItems
<1>2. ASSUME NEW x, x.n \in Nat, NEW w, stream' = Append(stream, x), pending' = Append(pending, w)
      PROVE  StreamOK'
  BY <1>1, <1>2, NatItemsAppend, AppendFacts DEF StreamOK
<1>3. ASSUME NEW g \in Groups, SendGroup(g) PROVE StreamOK'
  <2> DEFINE s == Append(stream, MapIndef)
             t == WithKeys(s, GroupsNs, g)
             p == LidToPid(GroupsNs, g)
             x == PidOf(GroupsNs, g, p)
             z == Uint(0)
  <2>1. stream' = Append(Append(t, z), x) /\ pending' = Append(pending, Said("group", g, 0))
    BY <1>1, <1>3, GroupItems
  <2>2. MapIndef.n \in Nat /\ z.n \in Nat
    BY DEF MapIndef, Uint, Item
  <2>3. GroupsNs \in Namespaces /\ g \in NamesIn(GroupsNs)
    BY DEF Namespaces, NamesIn
  <2>4. x.n \in Nat
    BY <2>3, LidToPidNat DEF PidOf, Item
  <2>5. NatItems(t)
    <3>1. NatItems(s)
      BY <2>2, NatItemsAppend DEF StreamOK
    <3> QED BY <2>3, <3>1, WithKeysNat
  <2> HIDE DEF t, x, z
  <2>6. NatItems(Append(Append(t, z), x))
    BY <2>2, <2>4, <2>5, NatItemsAppend
  <2> QED BY <1>1, <2>1, <2>6, AppendFacts DEF StreamOK
<1>4. ASSUME NEW a, SendId(a) PROVE StreamOK'
  <2> DEFINE t == WithKeys(stream, sactive, a)
             x == PidOf(sactive, a, LidToPid(sactive, a))
  <2>1. stream' = Append(t, x) /\ pending' = Append(pending, Said("attr", a, 0))
    BY <1>1, <1>4, IdItems
  <2>2. sactive \in Namespaces /\ a \in NamesIn(sactive)
    BY <1>4, SendIdIn DEF Namespaces
  <2>3. x.n \in Nat
    BY <2>2, LidToPidNat DEF PidOf, Item
  <2>4. NatItems(t)
    BY <2>2, WithKeysNat DEF StreamOK
  <2> HIDE DEF t, x
  <2>5. NatItems(Append(t, x))
    BY <2>3, <2>4, NatItemsAppend
  <2> QED BY <1>1, <2>1, <2>5, AppendFacts DEF StreamOK
<1>5. ASSUME NEW v \in Values, SendValue(v) PROVE StreamOK'
  <2>1. stream' = Append(stream, Uint(v)) /\ pending' = Append(pending, Said("value", NoName, v))
    BY <1>1, <1>5, OneItem DEF SendValue
  <2>2. Uint(v).n \in Nat
    BY BoundsAssumption DEF Uint, Item
  <2> QED BY <1>2, <2>1, <2>2
<1>6. ASSUME NEW n \in 0..MaxElems, SendArray(n) PROVE StreamOK'
  <2>1. stream' = Append(stream, Array(n)) /\ pending' = Append(pending, Said("array", NoName, n))
    BY <1>1, <1>6, OneItem DEF SendArray
  <2>2. Array(n).n \in Nat
    BY BoundsAssumption DEF Array, Item
  <2> QED BY <1>2, <2>1, <2>2
<1>7. CASE SendGroupEnd
  <2>1. stream' = Append(stream, Break) /\ pending' = Append(pending, Said("group end", NoName, 0))
    BY <1>1, <1>7, SendGroupEndKeeps, OneItem DEF SendGroupEnd
  <2>2. Break.n \in Nat
    BY DEF Break, Item
  <2> QED BY <1>2, <2>1, <2>2
<1>8. CASE SendArrayEnd \/ SenderRestart \/ SenderClose
  BY <1>8 DEF SendArrayEnd, SenderRestart, SenderClose, StreamOK
<1>9. CASE SenderCrash
  <2>1. PICK n \in 0..Len(stream) : stream' = SubSeq(stream, 1, n)
    BY <1>9 DEF SenderCrash
  <2> QED BY <1>9, <2>1, NatItemsPrefix DEF SenderCrash, StreamOK
<1> QED BY <1>3, <1>4, <1>5, <1>6, <1>7, <1>8, <1>9 DEF Send

\* Of the stream the receiver only takes the first item, of what is pending the first.
LEMMA ReceiveTakes ==
  ASSUME Receive
  PROVE  /\ stream' = stream \/ (stream # <<>> /\ stream' = Tail(stream))
         /\ pending' = pending \/ (pending # <<>> /\ pending' = Tail(pending))
         /\ misread \in BOOLEAN => misread' \in BOOLEAN
         /\ UNCHANGED <<svars, restarts, closed>>
<1>1. ASSUME NEW what, Deliver(what)
      PROVE  /\ pending' = pending \/ (pending # <<>> /\ pending' = Tail(pending))
             /\ misread' \in BOOLEAN
  BY <1>1 DEF Deliver
<1>2. CASE \E g \in Groups : RecvGroup(g)
  BY <1>2 DEF RecvGroup
<1>3. CASE RecvGroupMap
  BY <1>3 DEF RecvGroupMap, Reads, ReadsOther, Fail
<1>4. CASE RecvId
  <2>1. UNCHANGED <<svars, restarts, closed>> /\ stream # <<>> /\ stream' = Tail(stream)
    BY <1>4 DEF RecvId, Reads, ReadsOther
  <2>2. ASSUME NEW lid, IdKey0(lid) \/ IdGroup(lid) \/ IdAttr(lid)
        PROVE  /\ pending' = pending \/ (pending # <<>> /\ pending' = Tail(pending))
               /\ misread \in BOOLEAN => misread' \in BOOLEAN
    BY <1>1, <2>2 DEF IdKey0, IdGroup, IdAttr, Fail
  <2> QED BY <1>4, <2>1, <2>2 DEF RecvId, Fail
<1>5. CASE RecvKeysMap \/ RecvKeysName \/ RecvKeysPid
  BY <1>5 DEF RecvKeysMap, RecvKeysName, RecvKeysPid, Reads, ReadsOther, Fail
<1>6. CASE RecvKeysEnd
  BY <1>6 DEF RecvKeysEnd, Reads, ReadsOther, Fail
<1>7. CASE RecvAttr
  BY <1>7 DEF RecvAttr
<1>8. CASE RecvGroupEnd
  BY <1>1, <1>8 DEF RecvGroupEnd, Reads, Fail
<1>9. CASE RecvValue \/ RecvArray
  BY <1>1, <1>9 DEF RecvValue, RecvArray, Reads, ReadsOther, Fail
<1>10. CASE RecvArrayEnd \/ RecvEof
  BY <1>10 DEF RecvArrayEnd, RecvEof, Fail
<1> QED BY <1>2, <1>3, <1>4, <1>5, <1>6, <1>7, <1>8, <1>9, <1>10 DEF Receive

\* Items go into the stream and out of it as they are.
LEMMA StreamKeeps == ASSUME SenderInv, PidsOK, StreamOK, [Next]_vars PROVE StreamOK'
<1>1. CASE Send
  BY <1>1, SendKeepsStream
<1>2. CASE Receive
  <2>1. NatItems(stream')
    BY <1>2, ReceiveTakes, NatItemsTail DEF StreamOK
  <2>2. IsSeq(pending')
    BY <1>2, ReceiveTakes, TailFacts DEF StreamOK
  <2> QED BY <2>1, <2>2 DEF StreamOK
<1>3. CASE UNCHANGED <<stream, pending>>
  BY <1>3 DEF StreamOK
<1> QED BY <1>1, <1>2, <1>3 DEF Next, vars, ReceiverRestart

\* The namespace in which recv_id looks a pid up.
LEMMA LookupNsIn ==
  ASSUME ReceiverInv, rcall.at \in {"id", "keys map"} \cup InKeys
  PROVE  LookupNs \in Namespaces
<1>1. CASE rcall.use = "attr"
  <2>1. \E b : EndOK(rtodo, b, ractive) /\ InGroup(rtodo)
    BY <1>1 DEF ReceiverInv, ReceiverOK, AskOK
  <2>2. ractive \in Groups
    BY <2>1, EndTop
  <2> QED BY <1>1, <2>2 DEF LookupNs, Namespaces
<1>2. CASE rcall.use # "attr"
  BY <1>2 DEF LookupNs, Namespaces
<1> QED BY <1>1, <1>2

\* array_ensure_index keeps what is there and fills up with zeros.
LEMMA EnsuredFacts ==
  ASSUME NEW m \in Nat, m > 0, NEW arr \in Seq(0..m - 1), NEW p \in Nat
  PROVE  /\ Ensured(arr, p) \in Seq(0..m - 1)
         /\ Len(Ensured(arr, p)) = IF Len(arr) > p THEN Len(arr) ELSE p + 1
         /\ \A i \in 1..Len(arr) : Ensured(arr, p)[i] = arr[i]
         /\ \A i \in 1..Len(Ensured(arr, p)) : i > Len(arr) => Ensured(arr, p)[i] = 0
<1> DEFINE V == 0..m - 1
           k == p + 1 - Len(arr)
           z == [i \in 1..k |-> 0]
<1>1. Len(arr) \in Nat /\ 0 \in V
  BY LenProperties
<1>2. CASE Len(arr) > p
  BY <1>1, <1>2 DEF Ensured
<1>3. CASE ~(Len(arr) > p)
  <2>1. k \in Nat /\ Len(arr) + k = p + 1
    BY <1>1, <1>3
  <2> HIDE DEF V, k
  <2>2. z \in Seq(V) /\ Len(z) = k
    <3>1. z \in [1..k -> V]
      BY <1>1
    <3>2. z \in Seq(V)
      BY <2>1, <3>1, SeqDef
    <3>3. DOMAIN z = 1..k /\ DOMAIN z = 1..Len(z) /\ Len(z) \in Nat
      BY <3>2, LenProperties
    <3> QED BY <2>1, <3>2, <3>3
  <2>3. arr \in Seq(V)
    BY DEF V
  <2> HIDE DEF z
  <2> DEFINE e == arr \o z
  <2>4. /\ e \in Seq(V) /\ Len(e) = Len(arr) + Len(z)
        /\ \A i \in 1..(Len(arr) + Len(z)) :
             e[i] = IF i <= Len(arr) THEN arr[i] ELSE z[i - Len(arr)]
    BY <2>2, <2>3, ConcatProperties
  <2>5. Ensured(arr, p) = e
    BY <1>3 DEF Ensured, z, k
  <2> HIDE DEF e
  <2>6. \A i \in 1..Len(arr) : e[i] = arr[i]
    BY <1>1, <2>1, <2>2, <2>4
  <2>7. \A i \in 1..(Len(arr) + Len(z)) : i > Len(arr) => e[i] = 0
    <3> SUFFICES ASSUME NEW i \in 1..(Len(arr) + Len(z)), i > Len(arr) PROVE e[i] = 0
      OBVIOUS
    <3>1. i - Len(arr) \in 1..k /\ ~(i <= Len(arr))
      BY <1>1, <2>1, <2>2
    <3>2. z[i - Len(arr)] = 0
      BY <3>1 DEF z
    <3> QED BY <2>4, <3>1, <3>2
  <2>8. Len(e) = p + 1
    BY <2>1, <2>2, <2>4
  <2> QED BY <1>1, <1>3, <2>4, <2>5, <2>6, <2>7, <2>8 DEF V
<1> QED BY <1>2, <1>3

\* What recv_keys learns: the lid of the name under the pid, the rest as before.
LEMMA LearntFacts ==
  ASSUME NEW ns, NEW name, NEW p \in Nat, LidsOK, ns \in Namespaces,
         NEW new \in Learnt(ns, name, p)
  PROVE  /\ new \in Seq(0..Len(RLids[ns]) - 1) /\ p < Len(new)
         /\ new[p + 1] \in 0..Len(RLids[ns]) - 1 /\ RName(ns, new[p + 1]) = name
         /\ \A i \in Nat : i # p /\ i < Len(pid_to_lid[ns]) =>
              i < Len(new) /\ new[i + 1] = pid_to_lid[ns][i + 1]
         /\ p > 0 /\ (Len(pid_to_lid[ns]) > 0 => pid_to_lid[ns][1] = 0) => new[1] = 0
<1> DEFINE m == Len(RLids[ns])
           arr == pid_to_lid[ns]
           e == Ensured(arr, p)
<1>1. PICK lid \in 0..m - 1 : RName(ns, lid) = name /\ new = [e EXCEPT ![p + 1] = lid]
  BY DEF Learnt
<1>2. m \in Nat /\ m > 0
  <2>1. m \in Nat
    BY SchemaAssumption, LenProperties
  <2> QED BY <1>1, <2>1
<1>3. arr \in Seq(0..m - 1)
  BY DEF LidsOK
<1> HIDE DEF m, arr
<1>4. /\ e \in Seq(0..m - 1)
      /\ Len(e) = IF Len(arr) > p THEN Len(arr) ELSE p + 1
      /\ \A i \in 1..Len(arr) : e[i] = arr[i]
      /\ \A i \in 1..Len(e) : i > Len(arr) => e[i] = 0
  BY <1>2, <1>3, EnsuredFacts
<1> HIDE DEF e
<1>5. Len(arr) \in Nat /\ Len(e) \in Nat
  BY <1>3, <1>4, LenProperties
<1>6. Len(e) > p /\ Len(e) >= Len(arr)
  BY <1>4, <1>5
<1>7. /\ new \in Seq(0..m - 1) /\ Len(new) = Len(e)
      /\ \A i \in 1..Len(e) : new[i] = IF i = p + 1 THEN lid ELSE e[i]
  <2>1. p + 1 \in 1..Len(e)
    BY <1>5, <1>6
  <2> QED BY <1>1, <1>4, <2>1, ExceptSeq
<1>8. p + 1 \in 1..Len(e)
  BY <1>5, <1>6
<1>9. new[p + 1] = lid
  BY <1>7, <1>8
<1>10. ASSUME NEW i \in Nat, i # p, i < Len(arr)
       PROVE  i < Len(new) /\ new[i + 1] = arr[i + 1]
  <2>1. i + 1 \in 1..Len(arr) /\ i + 1 \in 1..Len(e) /\ i + 1 # p + 1
    BY <1>5, <1>6, <1>10
  <2>2. i < Len(new)
    BY <1>5, <1>6, <1>7, <1>10
  <2> QED BY <1>4, <1>7, <2>1, <2>2
<1>11. ASSUME p > 0, Len(arr) > 0 => arr[1] = 0
       PROVE  new[1] = 0
  <2>1. 1 \in 1..Len(e) /\ 1 # p + 1
    BY <1>5, <1>6, <1>11
  <2>2. new[1] = e[1]
    BY <1>7, <2>1
  <2>3. CASE Len(arr) > 0
    <3>1. 1 \in 1..Len(arr)
      BY <1>5, <2>3
    <3> QED BY <1>4, <1>11, <2>2, <2>3, <3>1
  <2>4. CASE ~(Len(arr) > 0)
    <3>1. 1 > Len(arr)
      BY <1>5, <2>4
    <3> QED BY <1>4, <2>1, <2>2, <3>1
  <2> QED BY <2>3, <2>4
<1>12. p < Len(new)
  BY <1>6, <1>7
<1> QED BY <1>1, <1>7, <1>9, <1>10, <1>11, <1>12 DEF m, arr

\* pid_to_lid holds lids.
LEMMA LidsKeep == ASSUME ReceiverInv, LidsOK, [Next]_vars PROVE LidsOK'
<1>1. CASE UNCHANGED pid_to_lid
  BY <1>1 DEF LidsOK
<1>2. CASE RecvKeysEnd
  <2>1. CASE \E new \in Learnt(LookupNs, rcall.name, rcall.pid) :
               pid_to_lid' = [pid_to_lid EXCEPT ![LookupNs] = new]
    <3>1. PICK new \in Learnt(LookupNs, rcall.name, rcall.pid) :
            pid_to_lid' = [pid_to_lid EXCEPT ![LookupNs] = new]
      BY <2>1
    <3>2. LookupNs \in Namespaces /\ rcall.pid \in Nat
      BY <1>2, LookupNsIn DEF RecvKeysEnd, InKeys, ReceiverInv, ReceiverOK, IsCall
    <3>3. new \in Seq(0..Len(RLids[LookupNs]) - 1)
      BY <3>1, <3>2, LearntFacts
    <3> QED BY <3>1, <3>2, <3>3 DEF LidsOK
  <2> QED BY <1>1, <1>2, <2>1 DEF RecvKeysEnd
<1>3. CASE ReceiverRestart
  BY <1>3 DEF ReceiverRestart, LidsOK
<1>4. CASE Send
  BY <1>1, <1>4 DEF Send, rvars, SendGroup, SendId, SendValue, SendArray, SendGroupEnd, SendArrayEnd,
                    SenderRestart, SenderClose, SenderCrash
<1>5. CASE Receive /\ ~RecvKeysEnd
  BY <1>1, <1>5 DEF Receive, RecvGroup, RecvGroupMap, RecvId, RecvKeysMap, RecvKeysName,
                    RecvKeysPid, RecvAttr, RecvGroupEnd, RecvValue, RecvArray,
                    RecvArrayEnd, RecvEof
<1> QED BY <1>1, <1>2, <1>3, <1>4, <1>5 DEF Next, vars, rvars

\* Everything that is so for every receiver, also one that takes over a stream.
TypesInv ==
  /\ SenderInv /\ ReceiverInv /\ StreamOK /\ PidsOK /\ LidsOK
  /\ closed \in {"no", "cleanly", "crashed"} /\ restarts \in 0..MaxRestarts
  /\ misread \in BOOLEAN

\* The beginning.
LEMMA TypesStart == Init => TypesInv
<1> SUFFICES ASSUME Init PROVE TypesInv
  OBVIOUS
<1>1. SenderInv
  <2>1. EvenMaps(<<>>, Root)
    <3>1. Len(Root) = 1
      BY DEF Root
    <3> QED BY <3>1 DEF EvenMaps
  <2> QED BY <2>1, EndRoot DEF Init, SenderInv
<1>2. ReceiverInv
  <2>1. IsCall(Idle) /\ Idle.at = "client" /\ rcall = Idle
    BY DEF Init, IsCall, Idle, Calls
  <2> QED BY <2>1, EndRoot DEF Init, ReceiverInv, ReceiverOK, InKeys, EndOK
<1>3. StreamOK
  BY NoElements DEF Init, StreamOK, NatItems
<1>4. PidsOK
  BY DEF Init, PidsOK
<1>5. LidsOK
  BY DEF Init, LidsOK
<1>6. restarts \in 0..MaxRestarts
  BY BoundsAssumption DEF Init
<1> QED BY <1>1, <1>2, <1>3, <1>4, <1>5, <1>6 DEF Init, TypesInv

\* Every step of sender and receiver, and a new receiver.
LEMMA TypesKeep == TypesInv /\ [Next]_vars => TypesInv'
<1> SUFFICES ASSUME TypesInv, [Next]_vars PROVE TypesInv'
  OBVIOUS
<1>1. SenderInv' /\ ReceiverInv' /\ StreamOK' /\ PidsOK' /\ LidsOK'
  BY SenderKeeps, ReceiverKeeps, StreamKeeps, PidsKeep, LidsKeep DEF TypesInv
<1>2. closed' \in {"no", "cleanly", "crashed"} /\ restarts' \in 0..MaxRestarts /\ misread' \in BOOLEAN
  <2>1. CASE Receive
    BY <2>1, ReceiveTakes DEF TypesInv
  <2>2. CASE ReceiverRestart \/ UNCHANGED vars
    BY <2>2 DEF TypesInv, ReceiverRestart, vars
  <2>3. CASE SendGroupEnd \/ SendArrayEnd
    <3>1. SenderInv
      BY DEF TypesInv
    <3>2. closed' = closed
      BY <2>3, <3>1, SendGroupEndKeeps, SendArrayEndKeeps DEF SendGroupEnd, SendArrayEnd
    <3> QED BY <2>3, <3>2 DEF TypesInv, SendGroupEnd, SendArrayEnd
  <2>4. CASE SenderRestart
    <3>1. restarts' = restarts + 1 /\ restarts < MaxRestarts /\ UNCHANGED <<closed, misread>>
      BY <2>4 DEF SenderRestart
    <3> QED BY <3>1, BoundsAssumption DEF TypesInv
  <2>5. CASE SenderClose \/ SenderCrash
    BY <2>5 DEF TypesInv, SenderClose, SenderCrash
  <2>6. ASSUME NEW x, SendGroup(x) \/ SendId(x) \/ SendValue(x) \/ SendArray(x)
        PROVE  UNCHANGED <<closed, restarts, misread>>
    BY <2>6 DEF SendGroup, SendId, SendValue, SendArray
  <2> QED BY <2>1, <2>2, <2>3, <2>4, <2>5, <2>6 DEF TypesInv, Next, Send
<1> QED BY <1>1, <1>2 DEF TypesInv

\* Together.
LEMMA TypesAlways == Spec => []TypesInv
BY TypesStart, TypesKeep, PTL DEF Spec

\* The maps of names to pids hold numbers, pid_to_lid nothing but lids the receiver has,
\* the stacks nothing but blocks, and a call is one of those there are.
THEOREM NetbufsTypes == Spec => []TypeOK
<1>1. TypesInv => TypeOK
  <2> SUFFICES ASSUME TypesInv PROVE TypeOK
    OBVIOUS
  <2>1. sactive \in Groups \cup {NoGroup} /\ ractive \in Groups \cup {NoGroup}
    BY EndTop DEF TypesInv, SenderInv, ReceiverInv, ReceiverOK
  <2>2. ASSUME NEW b \in {sblocks, rblocks}, NEW i \in 1..Len(b)
        PROVE  b[i].type \in {"root", "map", "array"} /\ b[i].group \in Groups \cup {NoGroup}
    <3>1. b[i] \in BlockSet
      BY <2>2 DEF TypesInv, SenderInv, EndOK, ReceiverInv, ReceiverOK, ProperBlocks
    <3> QED BY <3>1 DEF BlockSet
  <2>3. rcall.at \in Calls /\ rcall.use \in {"none", "key 0", "group", "attr"}
    BY DEF TypesInv, ReceiverInv, ReceiverOK, IsCall
  <2> QED BY <2>1, <2>2, <2>3 DEF TypesInv, PidsOK, LidsOK, TypeOK
<1> QED BY <1>1, TypesAlways, PTL

\* cbor_encode_map_end never finds an odd map, end_block never a block of another type.
THEOREM SenderNeverFailsAlways == Spec => []SenderNeverFails
<1>1. TypesInv => SenderNeverFails
  BY DEF TypesInv, SenderInv, SenderNeverFails
<1> QED BY <1>1, TypesAlways, PTL

\* nb->active_group follows the client through nested groups and arrays, at either end.
THEOREM ActiveGroupAlways == Spec => []ActiveGroupIsInnermost
<1>1. TypesInv => ActiveGroupIsInnermost
  <2> SUFFICES ASSUME TypesInv PROVE ActiveGroupIsInnermost
    OBVIOUS
  <2>1. EndOK(stodo, sblocks, sactive) /\ (AtClient => EndOK(rtodo, rblocks, ractive))
    BY DEF TypesInv, SenderInv, ReceiverInv, ReceiverOK, AtClient
  <2> QED BY <2>1, EndTop DEF ActiveGroupIsInnermost
<1> QED BY <1>1, TypesAlways, PTL

-----------------------------------------------------------------------------
(* What a pid in the stream stands for.                                    *)

\* The name the receiver has entered under a pid, and what it will be once the first i
\* items of the stream s are read.
Redefines(m, ns, p) == m.act = "define" /\ m.ns = ns /\ m.pid = p
Known(lids, ns, p, name) ==
  p \in Nat /\ p < Len(lids[ns]) /\ RName(ns, lids[ns][p + 1]) = name
StandsFor(lids, s, i, ns, p, name) ==
  \/ Known(lids, ns, p, name) /\ \A k \in 1..i : ~Redefines(s[k].meant, ns, p)
  \/ \E j \in 1..i :
       /\ Redefines(s[j].meant, ns, p) /\ s[j].meant.name = name
       /\ \A k \in 1..i : k > j => ~Redefines(s[k].meant, ns, p)

\* A pid sent stands for the name meant by it, and so does every pid assigned.
UsesStand(lids, s) ==
  \A i \in 1..Len(s) :
    s[i].meant.act = "use" =>
      StandsFor(lids, s, i - 1, s[i].meant.ns, s[i].meant.pid, s[i].meant.name)
AssignedStand(lids, s, pids) ==
  \A ns \in Namespaces : \A x \in NamesIn(ns) :
    pids[ns][x] # 0 => StandsFor(lids, s, Len(s), ns, pids[ns][x], x)
PidsInRange(pids, max) ==
  \A ns \in Namespaces :
    max[ns] >= 1 /\ \A x \in NamesIn(ns) : pids[ns][x] # 0 => pids[ns][x] \in 2..max[ns]

\* Nothing but the own ID of a group is ever entered under pid 0.
ZeroIsZero(lids) == \A ns \in Namespaces : Len(lids[ns]) > 0 => lids[ns][1] = 0

NamesInv ==
  /\ UsesStand(pid_to_lid, stream)
  /\ closed = "no" => AssignedStand(pid_to_lid, stream, pid)
  /\ PidsInRange(pid, max_pid) /\ ZeroIsZero(pid_to_lid)

\* The beginning of the stream decides.
LEMMA StandsSame ==
  ASSUME NEW lids, NEW s, NEW t, NEW i \in Nat, \A k \in 1..i : s[k] = t[k],
         NEW ns, NEW p, NEW name, StandsFor(lids, s, i, ns, p, name)
  PROVE  StandsFor(lids, t, i, ns, p, name)
<1>1. CASE Known(lids, ns, p, name) /\ \A k \in 1..i : ~Redefines(s[k].meant, ns, p)
  BY <1>1 DEF StandsFor
<1>2. ASSUME NEW j \in 1..i, Redefines(s[j].meant, ns, p), s[j].meant.name = name,
             \A k \in 1..i : k > j => ~Redefines(s[k].meant, ns, p)
      PROVE  StandsFor(lids, t, i, ns, p, name)
  <2>1. \A k \in 1..i : k > j => ~Redefines(t[k].meant, ns, p)
    BY <1>2
  <2>2. Redefines(t[j].meant, ns, p) /\ t[j].meant.name = name
    BY <1>2
  <2> QED BY <2>1, <2>2 DEF StandsFor
<1> QED BY <1>1, <1>2 DEF StandsFor

\* An item more leaves a pid as it is unless it defines that pid.
LEMMA StandsNext ==
  ASSUME NEW lids, NEW s, IsSeq(s), NEW x, NEW ns, NEW p, NEW name,
         StandsFor(lids, s, Len(s), ns, p, name), ~Redefines(x.meant, ns, p)
  PROVE  StandsFor(lids, Append(s, x), Len(s) + 1, ns, p, name)
<1> DEFINE t == Append(s, x)
           n == Len(s)
<1>1. n \in Nat /\ \A i \in 1..n : t[i] = s[i]
  BY SeqFacts, AppendFacts
<1>2. t[n + 1] = x
  BY AppendFacts
<1>3. StandsFor(lids, s, n, ns, p, name)
  OBVIOUS
<1> HIDE DEF t, n
<1>4. ~Redefines(t[n + 1].meant, ns, p)
  BY <1>2
<1>5. \A k \in 1..(n + 1) : k \in 1..n \/ k = n + 1
  BY <1>1
<1>6. CASE Known(lids, ns, p, name) /\ \A k \in 1..n : ~Redefines(s[k].meant, ns, p)
  <2>1. \A k \in 1..(n + 1) : ~Redefines(t[k].meant, ns, p)
    BY <1>1, <1>4, <1>5, <1>6
  <2> QED BY <1>6, <2>1 DEF StandsFor, t, n
<1>7. ASSUME NEW j \in 1..n, Redefines(s[j].meant, ns, p), s[j].meant.name = name,
             \A k \in 1..n : k > j => ~Redefines(s[k].meant, ns, p)
      PROVE  StandsFor(lids, t, n + 1, ns, p, name)
  <2>1. \A k \in 1..(n + 1) : k > j => ~Redefines(t[k].meant, ns, p)
    BY <1>1, <1>4, <1>5, <1>7
  <2>2. j \in 1..(n + 1) /\ Redefines(t[j].meant, ns, p) /\ t[j].meant.name = name
    BY <1>1, <1>7
  <2> QED BY <2>1, <2>2 DEF StandsFor
<1> QED BY <1>3, <1>6, <1>7 DEF StandsFor, t, n

\* From its definition on a pid stands for the name defined.
LEMMA StandsDefined ==
  ASSUME NEW lids, NEW s, IsSeq(s), NEW x, NEW ns, NEW p, NEW name,
         Redefines(x.meant, ns, p), x.meant.name = name
  PROVE  StandsFor(lids, Append(s, x), Len(s) + 1, ns, p, name)
<1> DEFINE t == Append(s, x)
           n == Len(s)
<1>1. n \in Nat /\ t[n + 1] = x
  BY SeqFacts, AppendFacts
<1> HIDE DEF t, n
<1>2. n + 1 \in 1..(n + 1) /\ \A k \in 1..(n + 1) : ~(k > n + 1)
  BY <1>1
<1>3. Redefines(t[n + 1].meant, ns, p) /\ t[n + 1].meant.name = name
  BY <1>1
<1>4. StandsFor(lids, t, n + 1, ns, p, name)
  BY <1>2, <1>3 DEF StandsFor
<1> QED BY <1>4 DEF t, n

\* An item added behind: a pid must stand for what is meant by it.
LEMMA UsesAppend ==
  ASSUME NEW lids, NEW s, IsSeq(s), UsesStand(lids, s), NEW x,
         x.meant.act = "use" =>
           StandsFor(lids, s, Len(s), x.meant.ns, x.meant.pid, x.meant.name)
  PROVE  UsesStand(lids, Append(s, x))
<1> DEFINE t == Append(s, x)
           n == Len(s)
<1>1. /\ n \in Nat /\ Len(t) = n + 1 /\ t[n + 1] = x
      /\ \A i \in 1..n : t[i] = s[i]
  BY SeqFacts, AppendFacts
<1>2. x.meant.act = "use" => StandsFor(lids, s, n, x.meant.ns, x.meant.pid, x.meant.name)
  OBVIOUS
<1>3. \A i \in 1..n : s[i].meant.act = "use" =>
        StandsFor(lids, s, i - 1, s[i].meant.ns, s[i].meant.pid, s[i].meant.name)
  BY DEF UsesStand
<1> HIDE DEF t, n
<1> SUFFICES ASSUME NEW i \in 1..Len(t), t[i].meant.act = "use"
             PROVE  StandsFor(lids, t, i - 1, t[i].meant.ns, t[i].meant.pid, t[i].meant.name)
  BY DEF UsesStand, t
<1>4. i - 1 \in Nat /\ \A k \in 1..(i - 1) : k \in 1..n
  BY <1>1
<1>5. \A k \in 1..(i - 1) : s[k] = t[k]
  BY <1>1, <1>4
<1>6. StandsFor(lids, s, i - 1, t[i].meant.ns, t[i].meant.pid, t[i].meant.name)
  <2>1. CASE i \in 1..n
    BY <1>1, <1>3, <2>1
  <2>2. CASE i = n + 1
    <3>1. i - 1 = n /\ t[i] = x
      BY <1>1, <2>2
    <3> QED BY <1>2, <3>1
  <2> QED BY <1>1, <2>1, <2>2
<1> DEFINE j == i - 1
<1> HIDE DEF j
<1>7. StandsFor(lids, t, j, t[i].meant.ns, t[i].meant.pid, t[i].meant.name)
  BY <1>4, <1>5, <1>6, StandsSame DEF j
<1> QED BY <1>7 DEF j

\* An item that defines nothing leaves the assigned pids as they are.
LEMMA AssignedAppend ==
  ASSUME NEW lids, NEW s, IsSeq(s), NEW pids, AssignedStand(lids, s, pids),
         NEW x, x.meant.act # "define"
  PROVE  AssignedStand(lids, Append(s, x), pids)
<1>1. Len(Append(s, x)) = Len(s) + 1
  BY AppendFacts
<1> SUFFICES ASSUME NEW ns \in Namespaces, NEW y \in NamesIn(ns), pids[ns][y] # 0
             PROVE  StandsFor(lids, Append(s, x), Len(s) + 1, ns, pids[ns][y], y)
  BY <1>1 DEF AssignedStand
<1>2. StandsFor(lids, s, Len(s), ns, pids[ns][y], y) /\ ~Redefines(x.meant, ns, pids[ns][y])
  BY DEF AssignedStand, Redefines
<1> QED BY <1>2, StandsNext

\* A pid assigned for the first time and defined stands for its name; the others stay.
LEMMA AssignedDefine ==
  ASSUME NEW lids, NEW s, IsSeq(s), NEW pids, AssignedStand(lids, s, pids),
         NEW ns \in Namespaces, NEW name \in NamesIn(ns), NEW p,
         \A y \in NamesIn(ns) : pids[ns][y] # p,
         NEW x, x.meant = [act |-> "define", ns |-> ns, name |-> name, pid |-> p],
         NEW new, \A n \in Namespaces : \A y \in NamesIn(n) :
                    new[n][y] = IF n = ns /\ y = name THEN p ELSE pids[n][y]
  PROVE  AssignedStand(lids, Append(s, x), new)
<1>1. Len(Append(s, x)) = Len(s) + 1
  BY AppendFacts
<1> SUFFICES ASSUME NEW n \in Namespaces, NEW y \in NamesIn(n), new[n][y] # 0
             PROVE  StandsFor(lids, Append(s, x), Len(s) + 1, n, new[n][y], y)
  BY <1>1 DEF AssignedStand
<1>2. CASE n = ns /\ y = name
  <2>1. new[n][y] = p
    BY <1>2
  <2>2. Redefines(x.meant, n, p) /\ x.meant.name = y
    BY <1>2 DEF Redefines
  <2> QED BY <2>1, <2>2, StandsDefined
<1>3. CASE ~(n = ns /\ y = name)
  <2>1. new[n][y] = pids[n][y]
    BY <1>3
  <2>2. StandsFor(lids, s, Len(s), n, pids[n][y], y)
    BY <2>1 DEF AssignedStand
  <2>3. ~Redefines(x.meant, n, pids[n][y])
    BY DEF Redefines
  <2> QED BY <2>1, <2>2, <2>3, StandsNext
<1> QED BY <1>2, <1>3

\* lid_to_pid.
LEMMA AssignEffect ==
  ASSUME PidsOK, PidsInRange(pid, max_pid), NEW ns \in Namespaces, NEW name \in NamesIn(ns),
         Assign(ns, name)
  PROVE  /\ \A n \in Namespaces : \A y \in NamesIn(n) :
              pid'[n][y] = IF n = ns /\ y = name THEN LidToPid(ns, name) ELSE pid[n][y]
         /\ LidToPid(ns, name) \in Nat /\ LidToPid(ns, name) > 1
         /\ PidsInRange(pid', max_pid')
         /\ pid[ns][name] = 0 => \A y \in NamesIn(ns) : pid[ns][y] # LidToPid(ns, name)
<1> DEFINE p == LidToPid(ns, name)
<1>1. /\ pid[ns][name] \in Nat /\ max_pid[ns] \in Nat /\ max_pid[ns] >= 1
      /\ pid[ns][name] # 0 => pid[ns][name] \in 2..max_pid[ns]
  BY DEF PidsOK, PidsInRange
<1>2. p \in Nat /\ p > 1 /\ (pid[ns][name] = 0 => p = max_pid[ns] + 1)
      /\ (pid[ns][name] # 0 => p = pid[ns][name])
  BY <1>1 DEF LidToPid
<1>3. pid' = [pid EXCEPT ![ns][name] = p]
  BY DEF Assign
<1> HIDE DEF p
<1>4. \A n \in Namespaces : \A y \in NamesIn(n) :
        pid'[n][y] = IF n = ns /\ y = name THEN p ELSE pid[n][y]
  BY <1>3 DEF PidsOK
<1>5. \A n \in Namespaces :
        max_pid'[n] = IF n = ns /\ pid[ns][name] = 0 THEN p ELSE max_pid[n]
  <2>1. CASE pid[ns][name] # 0
    BY <2>1 DEF Assign
  <2>2. CASE pid[ns][name] = 0
    <3>1. max_pid' = [max_pid EXCEPT ![ns] = max_pid[ns] + 1]
      BY <2>2 DEF Assign
    <3> QED BY <1>2, <2>2, <3>1 DEF PidsOK
  <2> QED BY <2>1, <2>2
<1>6. PidsInRange(pid', max_pid')
  <2> SUFFICES ASSUME NEW n \in Namespaces
               PROVE  /\ max_pid'[n] >= 1
                      /\ \A y \in NamesIn(n) : pid'[n][y] # 0 => pid'[n][y] \in 2..max_pid'[n]
    BY DEF PidsInRange
  <2>1. max_pid[n] \in Nat /\ max_pid[n] >= 1
    BY DEF PidsOK, PidsInRange
  <2>2. max_pid'[n] \in Nat /\ max_pid'[n] >= max_pid[n]
    BY <1>1, <1>2, <1>5, <2>1
  <2>3. ASSUME NEW y \in NamesIn(n), pid'[n][y] # 0 PROVE pid'[n][y] \in 2..max_pid'[n]
    <3>1. CASE n = ns /\ y = name
      <4>1. pid'[n][y] = p
        BY <1>4, <3>1
      <4> QED BY <1>1, <1>2, <1>5, <3>1, <4>1
    <3>2. CASE ~(n = ns /\ y = name)
      <4>1. pid'[n][y] = pid[n][y]
        BY <1>4, <3>2
      <4>2. pid[n][y] \in 2..max_pid[n]
        BY <2>3, <4>1 DEF PidsInRange
      <4> QED BY <2>1, <2>2, <4>1, <4>2
    <3> QED BY <3>1, <3>2
  <2> QED BY <2>1, <2>2, <2>3
<1>7. ASSUME pid[ns][name] = 0, NEW y \in NamesIn(ns) PROVE pid[ns][y] # p
  <2>1. pid[ns][y] # 0 => pid[ns][y] \in 2..max_pid[ns]
    BY DEF PidsInRange
  <2> QED BY <1>1, <1>2, <1>7, <2>1
<1> QED BY <1>2, <1>4, <1>6, <1>7 DEF p

\* The keys of a name, if it has no pid yet, and then its pid.
LEMMA WithKeysStand ==
  ASSUME PidsOK, PidsInRange(pid, max_pid), NEW ns \in Namespaces, NEW name \in NamesIn(ns),
         Assign(ns, name), NEW lids, NEW s, IsSeq(s), UsesStand(lids, s),
         AssignedStand(lids, s, pid)
  PROVE  /\ IsSeq(WithKeys(s, ns, name))
         /\ UsesStand(lids, WithKeys(s, ns, name))
         /\ AssignedStand(lids, WithKeys(s, ns, name), pid')
<1> DEFINE p == LidToPid(ns, name)
           s1 == Append(s, Uint(1))
           s2 == Append(s1, MapIndef)
           s3 == Append(s2, Text(name))
           s4 == Append(s3, Uint(p))
           x == BreakOfKeys(ns, name, p)
           s5 == Append(s4, x)
<1>1. /\ \A n \in Namespaces : \A y \in NamesIn(n) :
           pid'[n][y] = IF n = ns /\ y = name THEN p ELSE pid[n][y]
      /\ pid[ns][name] = 0 => \A y \in NamesIn(ns) : pid[ns][y] # p
  BY AssignEffect
<1>2. CASE pid[ns][name] # 0
  <2>1. WithKeys(s, ns, name) = s /\ p = pid[ns][name]
    BY <1>2 DEF WithKeys, LidToPid
  <2>2. \A n \in Namespaces : \A y \in NamesIn(n) : pid'[n][y] = pid[n][y]
    BY <1>1, <2>1
  <2>3. AssignedStand(lids, s, pid')
    BY <2>2 DEF AssignedStand
  <2> QED BY <2>1, <2>3
<1>3. CASE pid[ns][name] = 0
  <2>1. WithKeys(s, ns, name) = s5
    BY <1>3 DEF WithKeys, KeysPut
  <2>2. /\ Uint(1).meant.act = "none" /\ MapIndef.meant.act = "none"
        /\ Text(name).meant.act = "none" /\ Uint(p).meant.act = "none"
        /\ x.meant = [act |-> "define", ns |-> ns, name |-> name, pid |-> p]
    BY DEF Uint, MapIndef, Text, BreakOfKeys, Item, Nothing
  <2> HIDE DEF x, p
  <2>3. ASSUME NEW t, NEW y, IsSeq(t), UsesStand(lids, t), AssignedStand(lids, t, pid),
               y.meant.act = "none"
        PROVE  /\ IsSeq(Append(t, y)) /\ UsesStand(lids, Append(t, y))
               /\ AssignedStand(lids, Append(t, y), pid)
    BY <2>3, AppendFacts, UsesAppend, AssignedAppend
  <2>4. IsSeq(s1) /\ UsesStand(lids, s1) /\ AssignedStand(lids, s1, pid)
    BY <2>2, <2>3
  <2> HIDE DEF s1
  <2>5. IsSeq(s2) /\ UsesStand(lids, s2) /\ AssignedStand(lids, s2, pid)
    BY <2>2, <2>3, <2>4
  <2> HIDE DEF s2
  <2>6. IsSeq(s3) /\ UsesStand(lids, s3) /\ AssignedStand(lids, s3, pid)
    BY <2>2, <2>3, <2>5
  <2> HIDE DEF s3
  <2>7. IsSeq(s4) /\ UsesStand(lids, s4) /\ AssignedStand(lids, s4, pid)
    BY <2>2, <2>3, <2>6
  <2> HIDE DEF s4
  <2>8. x.meant.act # "use"
    BY <2>2
  <2>9. IsSeq(s5) /\ UsesStand(lids, s5)
    BY <2>7, <2>8, AppendFacts, UsesAppend
  <2>10. AssignedStand(lids, s5, pid')
    <3>1. \A y \in NamesIn(ns) : pid[ns][y] # p
      BY <1>1, <1>3
    <3> QED BY <1>1, <2>2, <2>7, <3>1, AssignedDefine
  <2> HIDE DEF s5
  <2> QED BY <2>1, <2>9, <2>10
<1> QED BY <1>2, <1>3

\* The pid itself is sent: it stands for the name as every pid assigned does.
LEMMA PidStands ==
  ASSUME PidsOK, PidsInRange(pid, max_pid), NEW ns \in Namespaces, NEW name \in NamesIn(ns),
         Assign(ns, name), NEW lids, NEW t, IsSeq(t), UsesStand(lids, t),
         AssignedStand(lids, t, pid')
  PROVE  /\ UsesStand(lids, Append(t, PidOf(ns, name, LidToPid(ns, name))))
         /\ AssignedStand(lids, Append(t, PidOf(ns, name, LidToPid(ns, name))), pid')
<1> DEFINE p == LidToPid(ns, name)
           x == PidOf(ns, name, p)
<1>1. p # 0 /\ pid'[ns][name] = p
  BY AssignEffect
<1>2. x.meant = [act |-> "use", ns |-> ns, name |-> name, pid |-> p]
  BY DEF PidOf, Item
<1> HIDE DEF x, p
<1>3. StandsFor(lids, t, Len(t), ns, p, name)
  BY <1>1 DEF AssignedStand
<1>4. UsesStand(lids, Append(t, x))
  BY <1>2, <1>3, UsesAppend
<1>5. AssignedStand(lids, Append(t, x), pid')
  BY <1>2, AssignedAppend
<1> QED BY <1>4, <1>5 DEF x, p

\* The names in the sender's steps.
LEMMA SendNames ==
  ASSUME TypesInv, NamesInv, Send
  PROVE  NamesInv'
<1> USE DEF TypesInv
<1> DEFINE L == pid_to_lid
<1>1. /\ UsesStand(L, stream) /\ PidsInRange(pid, max_pid) /\ ZeroIsZero(L) /\ IsSeq(stream)
      /\ closed = "no" => AssignedStand(L, stream, pid)
  BY DEF NamesInv, StreamOK, NatItems
<1>2. pid_to_lid' = L
  BY DEF Send, rvars, SendGroup, SendId, SendValue, SendArray, SendGroupEnd, SendArrayEnd,
         SenderRestart, SenderClose, SenderCrash
<1>3. ASSUME NEW ns \in Namespaces, NEW name \in NamesIn(ns), Assign(ns, name), closed = "no",
             NEW s, IsSeq(s), UsesStand(L, s), AssignedStand(L, s, pid), NEW z,
             stream' = Append(z, PidOf(ns, name, LidToPid(ns, name))),
             IsSeq(z), UsesStand(L, z), AssignedStand(L, z, pid')
      PROVE  NamesInv'
  <2> DEFINE x == PidOf(ns, name, LidToPid(ns, name))
  <2>1. UsesStand(L, Append(z, x)) /\ AssignedStand(L, Append(z, x), pid')
    BY <1>1, <1>3, PidStands
  <2>2. PidsInRange(pid', max_pid')
    BY <1>1, <1>3, AssignEffect
  <2> HIDE DEF L
  <2>3. UsesStand(L, stream') /\ AssignedStand(L, stream', pid') /\ ZeroIsZero(L)
    BY <1>1, <1>3, <2>1
  <2> QED BY <1>2, <2>2, <2>3 DEF NamesInv
<1>4. ASSUME NEW g \in Groups, SendGroup(g) PROVE NamesInv'
  <2> DEFINE m == MapIndef
             s == Append(stream, m)
             t == WithKeys(s, GroupsNs, g)
             u == Uint(0)
             z == Append(t, u)
  <2>1. /\ stream' = Append(z, PidOf(GroupsNs, g, LidToPid(GroupsNs, g))) /\ closed = "no"
        /\ Assign(GroupsNs, g) /\ GroupsNs \in Namespaces /\ g \in NamesIn(GroupsNs)
    BY <1>1, <1>4, GroupItems DEF SendGroup, SenderReady, Namespaces, NamesIn
  <2>2. m.meant.act = "none" /\ u.meant.act = "none"
    BY DEF MapIndef, Uint, Item, Nothing
  <2> HIDE DEF m, u
  <2>3. IsSeq(s) /\ UsesStand(L, s) /\ AssignedStand(L, s, pid)
    BY <1>1, <2>1, <2>2, AppendFacts, UsesAppend, AssignedAppend
  <2> HIDE DEF s
  <2>4. IsSeq(t) /\ UsesStand(L, t) /\ AssignedStand(L, t, pid')
    BY <1>1, <2>1, <2>3, WithKeysStand
  <2> HIDE DEF t
  <2>5. IsSeq(z) /\ UsesStand(L, z) /\ AssignedStand(L, z, pid')
    BY <2>2, <2>4, AppendFacts, UsesAppend, AssignedAppend
  <2> HIDE DEF z
  <2> QED BY <1>3, <2>1, <2>3, <2>5
<1>5. ASSUME NEW a, SendId(a) PROVE NamesInv'
  <2> DEFINE z == WithKeys(stream, sactive, a)
  <2>1. /\ stream' = Append(z, PidOf(sactive, a, LidToPid(sactive, a))) /\ closed = "no"
        /\ Assign(sactive, a) /\ sactive \in Namespaces /\ a \in NamesIn(sactive)
    BY <1>1, <1>5, IdItems, SendIdIn DEF SendId, SenderReady, Namespaces
  <2>2. IsSeq(z) /\ UsesStand(L, z) /\ AssignedStand(L, z, pid')
    BY <1>1, <2>1, WithKeysStand
  <2> HIDE DEF z
  <2> QED BY <1>1, <1>3, <2>1, <2>2
<1>6. ASSUME NEW x, x.meant.act = "none", stream' = Append(stream, x), closed = "no",
             UNCHANGED <<pid, max_pid>>
      PROVE  NamesInv'
  <2> HIDE DEF L
  <2>1. UsesStand(L, stream') /\ AssignedStand(L, stream', pid)
    BY <1>1, <1>6, UsesAppend, AssignedAppend
  <2>2. AssignedStand(L, stream', pid') /\ PidsInRange(pid', max_pid')
    BY <1>1, <1>6, <2>1
  <2> QED BY <1>1, <1>2, <2>1, <2>2 DEF NamesInv
<1>7. ASSUME NEW v, SendValue(v) PROVE NamesInv'
  <2>1. stream' = Append(stream, Uint(v)) /\ UNCHANGED <<pid, max_pid>> /\ closed = "no"
    BY <1>1, <1>7, OneItem DEF SendValue, SenderReady
  <2>2. Uint(v).meant.act = "none"
    BY DEF Uint, Item, Nothing
  <2> QED BY <1>6, <2>1, <2>2
<1>8. ASSUME NEW n, SendArray(n) PROVE NamesInv'
  <2>1. stream' = Append(stream, Array(n)) /\ UNCHANGED <<pid, max_pid>> /\ closed = "no"
    BY <1>1, <1>8, OneItem DEF SendArray, SenderReady
  <2>2. Array(n).meant.act = "none"
    BY DEF Array, Item, Nothing
  <2> QED BY <1>6, <2>1, <2>2
<1>9. CASE SendGroupEnd
  <2>1. stream' = Append(stream, Break) /\ UNCHANGED <<pid, max_pid>> /\ closed = "no"
    BY <1>1, <1>9, SendGroupEndKeeps, OneItem DEF SendGroupEnd, SenderReady
  <2>2. Break.meant.act = "none"
    BY DEF Break, Item, Nothing
  <2> QED BY <1>6, <2>1, <2>2
<1>10. CASE SendArrayEnd
  <2>1. UNCHANGED <<stream, pid, max_pid, closed>>
    BY <1>10, SendArrayEndKeeps DEF SendArrayEnd
  <2> QED BY <1>2, <2>1 DEF NamesInv
<1>11. CASE SenderRestart
  <2>1. /\ pid' = [ns \in Namespaces |-> [x \in NamesIn(ns) |-> 0]]
        /\ max_pid' = [ns \in Namespaces |-> 1] /\ UNCHANGED <<stream, closed>>
    BY <1>11 DEF SenderRestart
  <2>2. AssignedStand(L, stream', pid') /\ PidsInRange(pid', max_pid')
    BY <2>1 DEF AssignedStand, PidsInRange
  <2> QED BY <1>1, <1>2, <2>1, <2>2 DEF NamesInv
<1>12. CASE SenderClose
  <2>1. UNCHANGED <<stream, pid, max_pid>> /\ closed' # "no"
    BY <1>12 DEF SenderClose, svars
  <2> QED BY <1>1, <1>2, <2>1 DEF NamesInv
<1>13. CASE SenderCrash
  <2>1. UNCHANGED <<pid, max_pid>> /\ closed' # "no"
    BY <1>13 DEF SenderCrash, svars
  <2>2. PICK n \in 0..Len(stream) : stream' = SubSeq(stream, 1, n)
    BY <1>13 DEF SenderCrash
  <2>3. Len(stream') = n /\ n \in Nat /\ Len(stream) \in Nat
        /\ \A i \in 1..n : stream'[i] = stream[i]
    BY <1>1, <2>2, PrefixFacts, SeqFacts
  <2> HIDE DEF L
  <2>4. UsesStand(L, stream')
    <3> SUFFICES ASSUME NEW i \in 1..n, stream[i].meant.act = "use"
                 PROVE  StandsFor(L, stream', i - 1, stream[i].meant.ns, stream[i].meant.pid,
                                  stream[i].meant.name)
      BY <2>3 DEF UsesStand
    <3> DEFINE j == i - 1
    <3>1. i \in 1..Len(stream) /\ j \in Nat /\ \A k \in 1..j : k \in 1..n
      BY <2>3
    <3>2. StandsFor(L, stream, j, stream[i].meant.ns, stream[i].meant.pid, stream[i].meant.name)
      BY <1>1, <3>1 DEF UsesStand
    <3> HIDE DEF j
    <3>3. \A k \in 1..j : stream[k] = stream'[k]
      BY <2>3, <3>1
    <3>4. StandsFor(L, stream', j, stream[i].meant.ns, stream[i].meant.pid, stream[i].meant.name)
      BY <3>1, <3>2, <3>3, StandsSame
    <3> QED BY <3>4 DEF j
  <2> QED BY <1>1, <1>2, <2>1, <2>4 DEF NamesInv
<1> QED BY <1>4, <1>5, <1>7, <1>8, <1>9, <1>10, <1>11, <1>12, <1>13 DEF Send

\* The receiver has read the first item: where it was a definition, the name defined is
\* now known, and nothing else has changed.
LEMMA StandsTaken ==
  ASSUME NEW lids, NEW new, NEW s, IsSeq(s), s # <<>>, NEW ns, NEW p, NEW name,
         Redefines(s[1].meant, ns, p) => Known(new, ns, p, s[1].meant.name),
         ~Redefines(s[1].meant, ns, p) /\ Known(lids, ns, p, name) => Known(new, ns, p, name),
         NEW i \in 1..Len(s), StandsFor(lids, s, i, ns, p, name)
  PROVE  StandsFor(new, Tail(s), i - 1, ns, p, name)
<1> DEFINE t == Tail(s)
           n == i - 1
<1>1. Len(s) \in Nat /\ \A k \in 1..(Len(s) - 1) : t[k] = s[k + 1]
  BY SeqFacts, TailFacts
<1>2. n \in Nat /\ i = n + 1 /\ 1 \in 1..i
  BY <1>1
<1>3. StandsFor(lids, s, i, ns, p, name)
  OBVIOUS
<1> HIDE DEF t, n
<1>4. \A k \in 1..n : k \in 1..(Len(s) - 1) /\ k + 1 \in 1..i /\ t[k] = s[k + 1]
  BY <1>1, <1>2
<1>5. CASE Known(lids, ns, p, name) /\ \A k \in 1..i : ~Redefines(s[k].meant, ns, p)
  <2>1. Known(new, ns, p, name)
    BY <1>2, <1>5
  <2>2. \A k \in 1..n : ~Redefines(t[k].meant, ns, p)
    BY <1>4, <1>5
  <2> QED BY <2>1, <2>2 DEF StandsFor, t, n
<1>6. ASSUME NEW j \in 1..i, Redefines(s[j].meant, ns, p), s[j].meant.name = name,
             \A k \in 1..i : k > j => ~Redefines(s[k].meant, ns, p)
      PROVE  StandsFor(new, t, n, ns, p, name)
  <2>1. CASE j = 1
    <3>1. Known(new, ns, p, name)
      BY <1>6, <2>1
    <3>2. \A k \in 1..n : k + 1 > j
      BY <1>2, <2>1
    <3>3. \A k \in 1..n : ~Redefines(t[k].meant, ns, p)
      BY <1>4, <1>6, <3>2
    <3> QED BY <3>1, <3>3 DEF StandsFor
  <2>2. CASE j # 1
    <3> DEFINE m == j - 1
    <3>1. m \in 1..n /\ j = m + 1 /\ \A k \in 1..n : k > m => k + 1 > j
      BY <1>2, <2>2
    <3> HIDE DEF m
    <3>2. Redefines(t[m].meant, ns, p) /\ t[m].meant.name = name
      BY <1>4, <1>6, <3>1
    <3>3. \A k \in 1..n : k > m => ~Redefines(t[k].meant, ns, p)
      BY <1>4, <1>6, <3>1
    <3> QED BY <3>1, <3>2, <3>3 DEF StandsFor
  <2> QED BY <2>1, <2>2
<1> QED BY <1>3, <1>5, <1>6 DEF StandsFor, t, n

\* What that makes of the streams.
LEMMA NamesTaken ==
  ASSUME NEW lids, NEW new, NEW s, IsSeq(s), s # <<>>,
         \A ns, p : Redefines(s[1].meant, ns, p) => Known(new, ns, p, s[1].meant.name),
         \A ns, p, name :
           ~Redefines(s[1].meant, ns, p) /\ Known(lids, ns, p, name) => Known(new, ns, p, name)
  PROVE  /\ UsesStand(lids, s) => UsesStand(new, Tail(s))
         /\ \A pids : AssignedStand(lids, s, pids) => AssignedStand(new, Tail(s), pids)
<1>1. /\ Len(s) \in Nat /\ Len(s) > 0 /\ Len(Tail(s)) = Len(s) - 1
      /\ \A k \in 1..(Len(s) - 1) : Tail(s)[k] = s[k + 1]
  BY SeqFacts, TailFacts
<1>2. ASSUME NEW i \in 1..Len(s), NEW ns, NEW p, NEW name, StandsFor(lids, s, i, ns, p, name)
      PROVE  StandsFor(new, Tail(s), i - 1, ns, p, name)
  BY <1>2, StandsTaken
<1>3. ASSUME UsesStand(lids, s) PROVE UsesStand(new, Tail(s))
  <2> DEFINE t == Tail(s)
  <2>1. Len(t) = Len(s) - 1 /\ \A k \in 1..(Len(s) - 1) : t[k] = s[k + 1]
    BY <1>1
  <2> HIDE DEF t
  <2> SUFFICES ASSUME NEW i \in 1..(Len(s) - 1), t[i].meant.act = "use"
               PROVE  StandsFor(new, t, i - 1, t[i].meant.ns, t[i].meant.pid, t[i].meant.name)
    BY <2>1 DEF UsesStand, t
  <2> DEFINE j == i + 1
  <2>2. j \in 1..Len(s) /\ j - 1 = i /\ i \in 1..Len(s) /\ t[i] = s[j]
    BY <1>1, <2>1
  <2> HIDE DEF j
  <2>3. StandsFor(lids, s, i, t[i].meant.ns, t[i].meant.pid, t[i].meant.name)
    <3>1. StandsFor(lids, s, j - 1, s[j].meant.ns, s[j].meant.pid, s[j].meant.name)
      BY <1>3, <2>2 DEF UsesStand
    <3> QED BY <2>2, <3>1
  <2> QED BY <1>2, <2>2, <2>3 DEF t
<1>4. ASSUME NEW pids, AssignedStand(lids, s, pids) PROVE AssignedStand(new, Tail(s), pids)
  <2> SUFFICES ASSUME NEW ns \in Namespaces, NEW x \in NamesIn(ns), pids[ns][x] # 0
               PROVE  StandsFor(new, Tail(s), Len(s) - 1, ns, pids[ns][x], x)
    BY <1>1 DEF AssignedStand
  <2>1. StandsFor(lids, s, Len(s), ns, pids[ns][x], x)
    BY <1>4 DEF AssignedStand
  <2>2. Len(s) \in 1..Len(s)
    BY <1>1
  <2> QED BY <1>2, <2>1, <2>2
<1> QED BY <1>3, <1>4

\* A pid that is read is known.
LEMMA HeadIsKnown ==
  ASSUME NEW lids, NEW s, IsSeq(s), s # <<>>, UsesStand(lids, s), Head(s).meant.act = "use"
  PROVE  Known(lids, Head(s).meant.ns, Head(s).meant.pid, Head(s).meant.name)
<1>1. 1 \in 1..Len(s) /\ Head(s) = s[1] /\ 1 - 1 = 0
  BY SeqFacts, TailFacts
<1>2. StandsFor(lids, s, 0, s[1].meant.ns, s[1].meant.pid, s[1].meant.name)
  BY <1>1 DEF UsesStand
<1> QED BY <1>1, <1>2 DEF StandsFor

-----------------------------------------------------------------------------
(* The way of an ideal receiver.                                           *)
(* A position of the receiver is what its call, its client, its blocks and *)
(* the active group are; Step is what reading one item does to it when     *)
(* that item is the one a sender writes there.  The items of the stream    *)
(* lead the receiver to where the sender is, and what is pending is what   *)
(* it is told on that way.                                                 *)

Pos(call, todo, blocks, active) ==
  [call |-> call, todo |-> todo, blocks |-> blocks, active |-> active]
Here == Pos(rcall, rtodo, rblocks, ractive)
HereIdle == Pos(Idle, rtodo, rblocks, ractive)
There == Pos(Idle, stodo, sblocks, sactive)

\* An array without elements to go is closed before anything is read.
ArrayClosed(a) ==
  IF AtArrayEnd(a.todo) THEN Pos(a.call, Popped(a.todo), Popped(a.blocks), a.active) ELSE a

\* Inside a group nb_recv_attr is called before anything is read.
AttrCall == [at |-> "id", want |-> NoGroup, use |-> "attr", name |-> NoName, pid |-> 0]
CallOf(a) == IF a.call = Idle /\ InGroup(a.todo) THEN AttrCall ELSE a.call
NsOf(call, active) == IF call.use = "attr" THEN active ELSE GroupsNs

Call(at, want, use, name, p) ==
  [at |-> at, want |-> want, use |-> use, name |-> name, pid |-> p]
At(c, at) == Call(at, c.want, c.use, c.name, c.pid)

\* Items the client is told nothing of: the map of a group, the keys and pid 0.
MapStep(a, h, it, b) ==
  /\ a.call = Idle /\ it = MapIndef
  /\ h = Said("group", h.name, 0) /\ GroupOf(h.name) \in Due(a.todo) /\ h.name \in Groups
  /\ b = Pos(Call("id", h.name, "key 0", NoName, 0), a.todo,
             Pushed(Counted(a.blocks, 1), "map", 0), a.active)
KeysStep(a, it, b) ==
  /\ CallOf(a).at = "id" /\ it = Uint(1)
  /\ b = Pos(At(CallOf(a), "keys map"), a.todo, Counted(a.blocks, 1), a.active)
KeysMapStep(a, it, b) ==
  /\ a.call.at = "keys map" /\ it = MapIndef
  /\ b = Pos(At(a.call, "keys name"), a.todo,
             Pushed(Counted(a.blocks, 1), "map", 0), a.active)
KeysNameStep(a, it, b) ==
  /\ a.call.at = "keys name" /\ it = Text(it.name)
  /\ b = Pos(Call("keys pid", a.call.want, a.call.use, it.name, a.call.pid), a.todo,
             Counted(a.blocks, 1), a.active)
KeysPidStep(a, it, b) ==
  /\ a.call.at = "keys pid" /\ it = Uint(it.n)
  /\ b = Pos(Call("keys end", a.call.want, a.call.use, a.call.name, it.n), a.todo,
             Counted(a.blocks, 1), a.active)
KeysEndStep(a, it, b) ==
  /\ a.call.at = "keys end"
  /\ it = BreakOfKeys(NsOf(a.call, a.active), a.call.name, a.call.pid)
  /\ a.call.name \in NamesIn(NsOf(a.call, a.active)) /\ a.call.pid > 1
  /\ b = Pos(At(a.call, "id"), a.todo, Popped(a.blocks), a.active)
ZeroStep(a, it, b) ==
  /\ a.call.at = "id" /\ a.call.use = "key 0" /\ it = Uint(0)
  /\ b = Pos(Call("id", a.call.want, "group", a.call.name, a.call.pid), a.todo, Counted(a.blocks, 1), a.active)

\* Items the client is told of: an ID, the end of a group, a value and an array.
GroupStep(a, h, it, b) ==
  /\ a.call.at = "id" /\ a.call.use = "group" /\ h = Said("group", a.call.want, 0)
  /\ it = PidOf(GroupsNs, a.call.want, it.n) /\ it.n > 1
  /\ b = Pos(Idle, EnterGroup(a.todo, a.call.want),
             WithGroup(Counted(a.blocks, 1), a.call.want), a.call.want)
AttrStep(a, h, it, b) ==
  /\ CallOf(a).at = "id" /\ CallOf(a).use = "attr" /\ h = Said("attr", h.name, 0)
  /\ it = PidOf(a.active, h.name, it.n) /\ it.n > 1
  /\ b = Pos(Idle, EnterAttr(a.todo, a.active, h.name), Counted(a.blocks, 1), a.active)
EndStep(a, h, it, b) ==
  /\ a.call = Idle /\ InGroup(a.todo) /\ it = Break /\ h = Said("group end", NoName, 0)
  /\ b = ArrayClosed(Pos(Idle, Popped(a.todo), Popped(a.blocks), Top(Popped(a.blocks)).group))
ValueStep(a, h, it, b) ==
  /\ a.call = Idle /\ Value \in Due(a.todo) /\ it = Uint(it.n)
  /\ h = Said("value", NoName, it.n)
  /\ b = ArrayClosed(Pos(Idle, Begun(a.todo), Counted(a.blocks, 1), a.active))
ArrayStep(a, h, it, b) ==
  /\ a.call = Idle /\ (\E t \in Due(a.todo) : t.kind = "array") /\ it = Array(it.n)
  /\ h = Said("array", NoName, it.n)
  /\ b = ArrayClosed(Pos(Idle, EnterArray(a.todo, it.n),
                         Pushed(Counted(a.blocks, 1), "array", it.n), a.active))

QuietStep(a, h, it, b) ==
  \/ MapStep(a, h, it, b) \/ KeysStep(a, it, b) \/ KeysMapStep(a, it, b)
  \/ KeysNameStep(a, it, b) \/ KeysPidStep(a, it, b) \/ KeysEndStep(a, it, b)
  \/ ZeroStep(a, it, b)
TellingStep(a, h, it, b) ==
  \/ GroupStep(a, h, it, b) \/ AttrStep(a, h, it, b) \/ EndStep(a, h, it, b)
  \/ ValueStep(a, h, it, b) \/ ArrayStep(a, h, it, b)

\* From a, with d to be told, to b, with e to be told.
Step(a, d, it, b, e) ==
  /\ IsSeq(d) /\ d # <<>>
  /\ \/ QuietStep(a, Head(d), it, b) /\ e = d
     \/ TellingStep(a, Head(d), it, b) /\ e = Tail(d)
Path(s, a, d, b, e) ==
  \E at, due :
    /\ at[0] = a /\ due[0] = d /\ at[Len(s)] = b /\ due[Len(s)] = e
    /\ \A i \in 1..Len(s) : Step(at[i - 1], due[i - 1], s[i], at[i], due[i])

\* No items.
LEMMA PathEmpty == ASSUME NEW a, NEW d PROVE Path(<<>>, a, d, a, d)
<1> DEFINE at == [i \in {0} |-> a]
           due == [i \in {0} |-> d]
<1>1. at[0] = a /\ due[0] = d /\ Len(<<>>) = 0
  BY NoElements
<1>2. \A i \in 1..0 : FALSE
  OBVIOUS
<1> HIDE DEF at, due
<1> QED BY <1>1, <1>2 DEF Path

\* Without an item the way leads nowhere.
LEMMA PathNowhere == ASSUME NEW a, NEW d, NEW b, NEW e, Path(<<>>, a, d, b, e) PROVE a = b /\ d = e
BY NoElements DEF Path

\* The first item.
LEMMA PathHead ==
  ASSUME NEW s, IsSeq(s), s # <<>>, NEW a, NEW d, NEW b, NEW e, Path(s, a, d, b, e)
  PROVE  \E c, f : Step(a, d, Head(s), c, f) /\ Path(Tail(s), c, f, b, e)
<1> DEFINE n == Len(s)
           m == n - 1
           t == Tail(s)
<1>1. PICK at, due :
        /\ at[0] = a /\ due[0] = d /\ at[n] = b /\ due[n] = e
        /\ \A i \in 1..n : Step(at[i - 1], due[i - 1], s[i], at[i], due[i])
  BY DEF Path
<1>2. /\ n \in Nat /\ n > 0 /\ Head(s) = s[1] /\ Len(t) = m
      /\ \A i \in 1..m : t[i] = s[i + 1]
  BY SeqFacts, TailFacts
<1> DEFINE at2 == [i \in 0..m |-> at[i + 1]]
           due2 == [i \in 0..m |-> due[i + 1]]
<1> HIDE DEF n, t
<1>3. 1 \in 1..n /\ 1 - 1 = 0 /\ 0 \in 0..m /\ m \in 0..m /\ m + 1 = n /\ 0 + 1 = 1
  BY <1>2
<1>4. Step(a, d, s[1], at[1], due[1])
  <2>1. Step(at[1 - 1], due[1 - 1], s[1], at[1], due[1])
    BY <1>1, <1>3
  <2> QED BY <1>1, <1>3, <2>1
<1>5. at2[0] = at[1] /\ due2[0] = due[1] /\ at2[m] = b /\ due2[m] = e
  BY <1>1, <1>3
<1>6. \A i \in 1..m : Step(at2[i - 1], due2[i - 1], t[i], at2[i], due2[i])
  <2> SUFFICES ASSUME NEW i \in 1..m
               PROVE  Step(at2[i - 1], due2[i - 1], t[i], at2[i], due2[i])
    OBVIOUS
  <2> DEFINE j == i + 1
  <2>1. j \in 1..n /\ i - 1 \in 0..m /\ i \in 0..m /\ (i - 1) + 1 = i /\ j - 1 = i
    BY <1>2
  <2>2. at2[i - 1] = at[i] /\ at2[i] = at[j] /\ due2[i - 1] = due[i] /\ due2[i] = due[j]
        /\ t[i] = s[j]
    BY <1>2, <2>1
  <2> HIDE DEF j, at2, due2
  <2>3. Step(at[j - 1], due[j - 1], s[j], at[j], due[j])
    BY <1>1, <2>1
  <2>4. Step(at[i], due[i], s[j], at[j], due[j])
    BY <2>1, <2>3
  <2> QED BY <2>2, <2>4
<1> HIDE DEF at2, due2, m
<1>7. Path(t, at[1], due[1], b, e)
  BY <1>2, <1>5, <1>6 DEF Path
<1> QED BY <1>2, <1>4, <1>7 DEF t

\* One item more.
LEMMA PathAppend ==
  ASSUME NEW s, IsSeq(s), NEW a, NEW d, NEW b, NEW e, Path(s, a, d, b, e),
         NEW x, NEW c, NEW f, Step(b, e, x, c, f)
  PROVE  Path(Append(s, x), a, d, c, f)
<1> DEFINE n == Len(s)
           m == n + 1
           t == Append(s, x)
<1>1. PICK at, due :
        /\ at[0] = a /\ due[0] = d /\ at[n] = b /\ due[n] = e
        /\ \A i \in 1..n : Step(at[i - 1], due[i - 1], s[i], at[i], due[i])
  BY DEF Path
<1>2. /\ n \in Nat /\ Len(t) = m /\ t[m] = x
      /\ \A i \in 1..n : t[i] = s[i]
  BY SeqFacts, AppendFacts
<1> DEFINE at2 == [i \in 0..m |-> IF i = m THEN c ELSE at[i]]
           due2 == [i \in 0..m |-> IF i = m THEN f ELSE due[i]]
<1> HIDE DEF n, t
<1>3. 0 \in 0..m /\ 0 # m /\ m \in 0..m
  BY <1>2
<1>4. at2[0] = a /\ due2[0] = d /\ at2[m] = c /\ due2[m] = f
  BY <1>1, <1>3
<1>5. \A i \in 1..m : Step(at2[i - 1], due2[i - 1], t[i], at2[i], due2[i])
  <2> SUFFICES ASSUME NEW i \in 1..m
               PROVE  Step(at2[i - 1], due2[i - 1], t[i], at2[i], due2[i])
    OBVIOUS
  <2>1. i - 1 \in 0..m /\ i - 1 # m /\ i \in 0..m
    BY <1>2
  <2>2. at2[i - 1] = at[i - 1] /\ due2[i - 1] = due[i - 1]
    BY <2>1
  <2>3. CASE i = m
    <3>1. i - 1 = n
      BY <1>2, <2>3
    <3>2. at2[i] = c /\ due2[i] = f /\ t[i] = x
      BY <1>2, <2>1, <2>3
    <3> HIDE DEF at2, due2
    <3> QED BY <1>1, <2>2, <3>1, <3>2
  <2>4. CASE i # m
    <3>1. i \in 1..n
      BY <1>2, <2>4
    <3>2. at2[i] = at[i] /\ due2[i] = due[i] /\ t[i] = s[i]
      BY <1>2, <2>1, <2>4, <3>1
    <3> HIDE DEF at2, due2
    <3> QED BY <1>1, <2>2, <3>1, <3>2
  <2> QED BY <2>3, <2>4
<1> HIDE DEF at2, due2, m
<1> QED BY <1>2, <1>4, <1>5 DEF Path, t

\* Another place to start from.
LEMMA PathFrom ==
  ASSUME NEW s, IsSeq(s), s # <<>>, NEW a, NEW d, NEW b, NEW e, Path(s, a, d, b, e), NEW c,
         \A x, f : Step(a, d, Head(s), x, f) => Step(c, d, Head(s), x, f)
  PROVE  Path(s, c, d, b, e)
<1> DEFINE n == Len(s)
<1>1. PICK at, due :
        /\ at[0] = a /\ due[0] = d /\ at[n] = b /\ due[n] = e
        /\ \A i \in 1..n : Step(at[i - 1], due[i - 1], s[i], at[i], due[i])
  BY DEF Path
<1>2. n \in Nat /\ n > 0 /\ Head(s) = s[1]
  BY SeqFacts, TailFacts
<1> DEFINE at2 == [i \in 0..n |-> IF i = 0 THEN c ELSE at[i]]
<1> HIDE DEF n
<1>3. at2[0] = c /\ at2[n] = b
  BY <1>1, <1>2
<1>4. \A i \in 1..n : Step(at2[i - 1], due[i - 1], s[i], at2[i], due[i])
  <2> SUFFICES ASSUME NEW i \in 1..n
               PROVE  Step(at2[i - 1], due[i - 1], s[i], at2[i], due[i])
    OBVIOUS
  <2>1. i - 1 \in 0..n /\ i \in 0..n /\ i # 0 /\ (i = 1 \/ i - 1 # 0)
    BY <1>2
  <2>2. at2[i] = at[i] /\ Step(at[i - 1], due[i - 1], s[i], at[i], due[i])
    BY <1>1, <2>1
  <2>3. CASE i = 1
    <3>1. i - 1 = 0 /\ at2[0] = c
      BY <1>3, <2>3
    <3> HIDE DEF at2
    <3>2. Step(a, d, Head(s), at[i], due[i])
      BY <1>1, <1>2, <2>2, <2>3, <3>1
    <3>3. Step(c, d, Head(s), at[i], due[i])
      BY <3>2
    <3> QED BY <1>1, <1>2, <2>2, <2>3, <3>1, <3>3
  <2>4. CASE i - 1 # 0
    <3>1. at2[i - 1] = at[i - 1]
      BY <2>1, <2>4
    <3> HIDE DEF at2
    <3> QED BY <2>2, <3>1
  <2> QED BY <2>1, <2>3, <2>4
<1> HIDE DEF at2
<1> QED BY <1>1, <1>3, <1>4 DEF Path, n

\* The beginning of a path.
LEMMA PathPrefix ==
  ASSUME NEW s, IsSeq(s), NEW a, NEW d, NEW b, NEW e, Path(s, a, d, b, e), NEW n \in 0..Len(s)
  PROVE  \E c, f : Path(SubSeq(s, 1, n), a, d, c, f)
<1> DEFINE t == SubSeq(s, 1, n)
<1>1. PICK at, due :
        /\ at[0] = a /\ due[0] = d /\ at[Len(s)] = b /\ due[Len(s)] = e
        /\ \A i \in 1..Len(s) : Step(at[i - 1], due[i - 1], s[i], at[i], due[i])
  BY DEF Path
<1>2. Len(s) \in Nat /\ Len(t) = n /\ \A i \in 1..n : t[i] = s[i]
  BY SeqFacts, PrefixFacts
<1> HIDE DEF t
<1>3. \A i \in 1..n : i \in 1..Len(s)
  BY <1>2
<1>4. \A i \in 1..n : Step(at[i - 1], due[i - 1], t[i], at[i], due[i])
  BY <1>1, <1>2, <1>3
<1>5. Path(t, a, d, at[n], due[n])
  BY <1>1, <1>2, <1>4 DEF Path
<1> QED BY <1>5 DEF t

\* More to be told in the end.
LEMMA StepSay ==
  ASSUME NEW a, NEW d, NEW it, NEW b, NEW e, Step(a, d, it, b, e), NEW w
  PROVE  Step(a, Append(d, w), it, b, Append(e, w))
<1> DEFINE D == Append(d, w)
<1>1. IsSeq(D) /\ D # <<>> /\ Head(D) = Head(d) /\ Tail(D) = Append(Tail(d), w)
  BY AppendFacts, HeadOfAppend DEF Step
<1> HIDE DEF D
<1>2. CASE QuietStep(a, Head(d), it, b) /\ e = d
  BY <1>1, <1>2 DEF Step, D
<1>3. CASE TellingStep(a, Head(d), it, b) /\ e = Tail(d)
  BY <1>1, <1>3 DEF Step, D
<1> QED BY <1>2, <1>3 DEF Step

\* The same of a way.
LEMMA PathSay ==
  ASSUME NEW s, IsSeq(s), NEW a, NEW d, NEW b, NEW e, Path(s, a, d, b, e), NEW w
  PROVE  Path(s, a, Append(d, w), b, Append(e, w))
<1> DEFINE n == Len(s)
<1>1. PICK at, due :
        /\ at[0] = a /\ due[0] = d /\ at[n] = b /\ due[n] = e
        /\ \A i \in 1..n : Step(at[i - 1], due[i - 1], s[i], at[i], due[i])
  BY DEF Path
<1>2. n \in Nat
  BY SeqFacts
<1> DEFINE due2 == [i \in 0..n |-> Append(due[i], w)]
<1> HIDE DEF n
<1>3. due2[0] = Append(d, w) /\ due2[n] = Append(e, w)
  BY <1>1, <1>2
<1>4. \A i \in 1..n : Step(at[i - 1], due2[i - 1], s[i], at[i], due2[i])
  <2> SUFFICES ASSUME NEW i \in 1..n
               PROVE  Step(at[i - 1], due2[i - 1], s[i], at[i], due2[i])
    OBVIOUS
  <2>1. i - 1 \in 0..n /\ i \in 0..n
    BY <1>2
  <2>2. due2[i - 1] = Append(due[i - 1], w) /\ due2[i] = Append(due[i], w)
    BY <2>1
  <2> HIDE DEF due2
  <2> QED BY <1>1, <2>2, StepSay
<1> HIDE DEF due2
<1> QED BY <1>1, <1>3, <1>4 DEF Path, n

-----------------------------------------------------------------------------
(* The sender keeps to that way.                                           *)

\* Where the receiver is: on its way between calls and as soon as it has read anything.
Matches(a) ==
  /\ rcall.at = "client" => a = ArrayClosed(Here)
  /\ rcall.at = "group" =>
       /\ a = HereIdle
       /\ rcall = [at |-> "group", want |-> rcall.want, use |-> "none", name |-> NoName, pid |-> 0]
       /\ rtodo = <<>> => pending # <<>> /\ Head(pending) = Said("group", rcall.want, 0)
  /\ rcall.at = "group end" =>
       /\ a = HereIdle
       /\ stream # <<>> => Read.kind = "break"
       /\ stream = <<>> => closed # "no"
  /\ rcall.at \notin {"client", "group", "group end"} => a = Here
Leads(a) ==
  \E b, e :
    /\ Path(stream, a, pending, b, e)
    /\ closed # "crashed" => b = ArrayClosed(There) /\ e = <<>>
InSynch ==
  /\ misread = FALSE
  /\ rcall.at \in Errors => rcall.at = "NB_ERR_EOF" /\ closed = "crashed"
  /\ rcall.at \notin Errors => \E a : Matches(a) /\ Leads(a)

\* Nothing is to be closed where an item is due or a group is open.
LEMMA NotAtArrayEnd ==
  ASSUME NEW call, NEW todo, NEW blocks, NEW active
  PROVE  /\ Due(todo) # {} \/ InGroup(todo) \/ InAttr(todo) \/ todo = <<>> =>
              /\ ~AtArrayEnd(todo)
              /\ ArrayClosed(Pos(call, todo, blocks, active)) = Pos(call, todo, blocks, active)
<1>1. Due(todo) # {} \/ InGroup(todo) \/ InAttr(todo) \/ todo = <<>> => ~AtArrayEnd(todo)
  BY DEF Due, InGroup, InAttr, AtArrayEnd
<1>2. Pos(call, todo, blocks, active).todo = todo
  BY DEF Pos
<1> QED BY <1>1, <1>2 DEF ArrayClosed

\* What counting twice, and counting before a name is entered, comes to.
LEMMA CountedTwice ==
  ASSUME NEW s, ProperBlocks(s), NEW m \in Nat, NEW n \in Nat
  PROVE  Counted(Counted(s, m), n) = Counted(s, m + n)
<1> DEFINE b == Top(s)
           c == CountedBlock(b, m)
           t == Counted(s, m)
           L == Len(s)
<1>1. IsSeq(s) /\ s # <<>> /\ b \in BlockSet /\ L \in Nat /\ L > 0
  BY TopBlock
<1>2. t = [s EXCEPT ![L] = c]
  BY <1>1, CountedIs
<1>3. ProperBlocks(t) /\ Len(t) = L /\ Top(t) = c
  BY CountedFacts
<1>4. IsSeq(t) /\ t # <<>> /\ Top(t) \in BlockSet
  BY <1>3, TopBlock
<1> HIDE DEF t, b, c, L
<1>5. Counted(t, n) = [t EXCEPT ![L] = CountedBlock(c, n)]
  BY <1>3, <1>4, CountedIs
<1>6. m + n \in Nat
  OBVIOUS
<1>7. Counted(s, m + n) = [s EXCEPT ![L] = CountedBlock(b, m + n)]
  BY <1>1, <1>6, CountedIs DEF b, L
<1>8. CountedBlock(c, n) = CountedBlock(b, m + n)
  <2>0. \A x, y : [[b EXCEPT !.num_items = x] EXCEPT !.num_items = y] = [b EXCEPT !.num_items = y]
    BY <1>1 DEF BlockSet
  <2>1. c = CountedBlock(b, m)
    BY DEF c
  <2>2. CASE b.type = "root"
    BY <2>1, <2>2 DEF CountedBlock
  <2>3. CASE b.type = "map"
    <3>1. c = [b EXCEPT !.num_items = (b.num_items + m) % 2] /\ c.type = "map"
          /\ c.num_items = (b.num_items + m) % 2
      BY <1>1, <2>1, <2>3 DEF CountedBlock, BlockSet
    <3>2. b.num_items \in Nat
      BY <1>1 DEF BlockSet
    <3>3. (((b.num_items + m) % 2) + n) % 2 = (b.num_items + (m + n)) % 2
      BY <3>2
    <3>4. CountedBlock(c, n) = [c EXCEPT !.num_items = (c.num_items + n) % 2]
      BY <3>1 DEF CountedBlock
    <3>5. CountedBlock(b, m + n) = [b EXCEPT !.num_items = (b.num_items + (m + n)) % 2]
      BY <2>3 DEF CountedBlock
    <3> QED BY ONLY <2>0, <3>1, <3>3, <3>4, <3>5
  <2>4. CASE b.type = "array"
    <3>1. c = [b EXCEPT !.num_items = b.num_items + m] /\ c.type = "array"
          /\ c.num_items = b.num_items + m
      BY <1>1, <2>1, <2>4 DEF CountedBlock, BlockSet
    <3>2. b.num_items \in Nat
      BY <1>1 DEF BlockSet
    <3>3. (b.num_items + m) + n = b.num_items + (m + n)
      BY <3>2
    <3>4. CountedBlock(c, n) = [c EXCEPT !.num_items = c.num_items + n]
      BY <3>1 DEF CountedBlock
    <3>5. CountedBlock(b, m + n) = [b EXCEPT !.num_items = b.num_items + (m + n)]
      BY <2>4 DEF CountedBlock
    <3> QED BY ONLY <2>0, <3>1, <3>3, <3>4, <3>5
  <2> QED BY <1>1, <2>2, <2>3, <2>4 DEF BlockSet
<1>9. [[s EXCEPT ![L] = c] EXCEPT ![L] = CountedBlock(b, m + n)]
        = [s EXCEPT ![L] = CountedBlock(b, m + n)]
  <2> DEFINE x == CountedBlock(b, m + n)
  <2> HIDE DEF x
  <2>1. [[s EXCEPT ![L] = c] EXCEPT ![L] = x] = [s EXCEPT ![L] = x]
    BY <1>1, SeqFacts
  <2> QED BY <2>1 DEF x
<1> QED BY <1>2, <1>5, <1>7, <1>8, <1>9 DEF t

\* nb_send_group enters the name before it counts, nb_recv_group behind.
LEMMA WithGroupCounted ==
  ASSUME NEW s, ProperBlocks(s), Top(s).type = "map", NEW n \in Nat, NEW g \in Groups
  PROVE  WithGroup(Counted(s, n), g) = Counted(WithGroup(s, g), n)
<1> DEFINE b == Top(s)
           L == Len(s)
           c == CountedBlock(b, n)
           t == Counted(s, n)
           d == [b EXCEPT !.group = g]
           u == WithGroup(s, g)
<1>1. IsSeq(s) /\ s # <<>> /\ b \in BlockSet /\ L \in Nat /\ L > 0 /\ b = s[L]
  BY TopBlock
<1>2. t = [s EXCEPT ![L] = c]
  BY <1>1, CountedIs
<1>3. Len(t) = L /\ Top(t) = c
  BY CountedFacts
<1>4. u = [s EXCEPT ![L] = d]
  BY <1>1 DEF WithGroup
<1>5. Len(u) = L /\ Top(u) = d /\ IsSeq(u) /\ u # <<>>
  BY <1>1, <1>4, ChangedTopFacts
<1>6. d \in BlockSet
  BY <1>1 DEF BlockSet
<1> HIDE DEF t, u
<1>7. Counted(u, n) = [u EXCEPT ![L] = CountedBlock(d, n)]
  BY <1>5, <1>6, CountedIs
<1>8. WithGroup(t, g) = [t EXCEPT ![L] = [c EXCEPT !.group = g]]
  <2>1. t[L] = c
    BY <1>3 DEF Top
  <2> HIDE DEF c, L, b
  <2>2. WithGroup(t, g) = [t EXCEPT ![L].group = g]
    BY <1>3 DEF WithGroup
  <2> QED BY <2>1, <2>2
<1>9. CountedBlock(d, n) = [c EXCEPT !.group = g]
  <2>1. c = [b EXCEPT !.num_items = (b.num_items + n) % 2]
    BY DEF CountedBlock
  <2>2. CountedBlock(d, n) = [d EXCEPT !.num_items = (d.num_items + n) % 2]
    BY <1>1 DEF CountedBlock, BlockSet
  <2> QED BY <1>1, <2>1, <2>2 DEF BlockSet
<1> DEFINE y == CountedBlock(d, n)
<1>10. WithGroup(t, g) = [t EXCEPT ![L] = y] /\ Counted(u, n) = [u EXCEPT ![L] = y]
  BY <1>7, <1>8, <1>9
<1> HIDE DEF b, c, d, L, y
<1>11. [[s EXCEPT ![L] = c] EXCEPT ![L] = y] = [[s EXCEPT ![L] = d] EXCEPT ![L] = y]
  <2>1. DOMAIN s = 1..L
    BY <1>1, SeqFacts DEF L
  <2> QED BY <2>1
<1> QED BY <1>2, <1>4, <1>10, <1>11 DEF t, u

\* The map of the keys comes off as if it had never been there.
LEMMA PoppedKeys ==
  ASSUME NEW c, ProperBlocks(c)
  PROVE  Popped(Counted(Counted(Pushed(c, "map", 0), 1), 1)) = c
<1> DEFINE d == Pushed(c, "map", 0)
           e == Counted(d, 1)
<1>1. ProperBlocks(d) /\ Popped(d) = c
  BY PushedMap
<1> HIDE DEF d
<1>2. 1 \in Nat
  OBVIOUS
<1>3. ProperBlocks(e) /\ Popped(e) = c
  BY <1>1, <1>2, CountedFacts
<1> HIDE DEF e
<1>4. Popped(Counted(e, 1)) = c
  BY <1>2, <1>3, CountedFacts
<1> QED BY <1>4 DEF e, d

\* On the way, keys.
LEMMA KeysPath ==
  ASSUME NEW s, IsSeq(s), NEW a, NEW d, NEW call, NEW todo, NEW blocks, NEW active, NEW e,
         Path(s, a, d, Pos(call, todo, blocks, active), e), IsSeq(e), e # <<>>,
         NEW want, NEW use, NEW name0, NEW pid0,
         CallOf(Pos(call, todo, blocks, active)) =
           Call("id", want, use, name0, pid0),
         ProperBlocks(blocks), NEW ns, ns = (IF use = "attr" THEN active ELSE GroupsNs),
         NEW name \in NamesIn(ns), NEW p, p > 1
  PROVE  Path(KeysPut(s, ns, name, p), a, d,
              Pos(Call("id", want, use, name, p), todo,
                  Counted(Counted(blocks, 1), 1), active), e)
<1> DEFINE b0 == Pos(call, todo, blocks, active)
           c1 == Counted(blocks, 1)
           c2 == Pushed(Counted(c1, 1), "map", 0)
           c3 == Counted(c2, 1)
           c4 == Counted(c3, 1)
           k0 == Call("id", want, use, name0, pid0)
           k1 == Call("keys map", want, use, name0, pid0)
           k2 == Call("keys name", want, use, name0, pid0)
           k3 == Call("keys pid", want, use, name, pid0)
           k4 == Call("keys end", want, use, name, p)
           k5 == Call("id", want, use, name, p)
           b1 == Pos(k1, todo, c1, active)
           b2 == Pos(k2, todo, c2, active)
           b3 == Pos(k3, todo, c3, active)
           b4 == Pos(k4, todo, c4, active)
           b5 == Pos(k5, todo, Popped(c4), active)
           i1 == Uint(1)
           i2 == MapIndef
           i3 == Text(name)
           i4 == Uint(p)
           i5 == BreakOfKeys(ns, name, p)
           s1 == Append(s, i1)
           s2 == Append(s1, i2)
           s3 == Append(s2, i3)
           s4 == Append(s3, i4)
           s5 == Append(s4, i5)
<1>0. /\ k1 = At(k0, "keys map") /\ k2 = At(k1, "keys name") /\ k5 = At(k4, "id")
      /\ k3 = Call("keys pid", k2.want, k2.use, name, k2.pid)
      /\ k4 = Call("keys end", k3.want, k3.use, k3.name, p)
      /\ k0.at = "id" /\ k1.at = "keys map" /\ k2.at = "keys name" /\ k3.at = "keys pid"
      /\ k4.at = "keys end" /\ k4.use = use /\ k4.name = name /\ k4.pid = p
  BY DEF At, Call
<1> HIDE DEF k1, k2, k3, k4, k5
<1>00. CallOf(b0) = k0
  OBVIOUS
<1> HIDE DEF k0, c1, c2, c3, c4
<1>1. Step(b0, e, i1, b1, e)
  <2>1. KeysStep(b0, i1, b1)
    BY <1>0, <1>00 DEF KeysStep, Pos, c1
  <2> HIDE DEF b0, b1
  <2> QED BY <2>1 DEF Step, QuietStep
<1>2. Step(b1, e, i2, b2, e)
  <2>1. KeysMapStep(b1, i2, b2)
    BY <1>0 DEF KeysMapStep, Pos, c2
  <2> HIDE DEF b1, b2
  <2> QED BY <2>1 DEF Step, QuietStep
<1>3. Step(b2, e, i3, b3, e)
  <2>1. KeysNameStep(b2, i3, b3)
    <3>1. i3.name = name
      BY DEF Text, Item
    <3> QED BY <1>0, <3>1 DEF KeysNameStep, Pos, c3
  <2> HIDE DEF b2, b3
  <2> QED BY <2>1 DEF Step, QuietStep
<1>4. Step(b3, e, i4, b4, e)
  <2>1. KeysPidStep(b3, i4, b4)
    <3>1. i4.n = p
      BY DEF Uint, Item
    <3> QED BY <1>0, <3>1 DEF KeysPidStep, Pos, c4
  <2> HIDE DEF b3, b4
  <2> QED BY <2>1 DEF Step, QuietStep
<1>5. Step(b4, e, i5, b5, e)
  <2>1. KeysEndStep(b4, i5, b5)
    <3>1. /\ b4.call = k4 /\ b4.active = active /\ b4.todo = todo /\ b4.blocks = c4
      BY DEF Pos
    <3> HIDE DEF b4
    <3>2. NsOf(b4.call, b4.active) = ns
      BY <1>0, <3>1 DEF NsOf
    <3> QED BY <1>0, <3>1, <3>2 DEF KeysEndStep
  <2> HIDE DEF b4, b5
  <2> QED BY <2>1 DEF Step, QuietStep
<1>6. Popped(c4) = Counted(c1, 1)
  <2>1. 1 \in Nat
    OBVIOUS
  <2>2. ProperBlocks(c1)
    BY <2>1, CountedFacts DEF c1
  <2>3. ProperBlocks(Counted(c1, 1))
    BY <2>1, <2>2, CountedFacts
  <2> QED BY <2>3, PoppedKeys DEF c4, c3, c2
<1>7. Path(s, a, d, b0, e)
  OBVIOUS
<1> HIDE DEF b0, b1, b2, b3, b4, b5, i1, i2, i3, i4, i5
<1>8. Path(s1, a, d, b1, e) /\ IsSeq(s1)
  BY <1>1, <1>7, PathAppend, AppendFacts
<1> HIDE DEF s1
<1>9. Path(s2, a, d, b2, e) /\ IsSeq(s2)
  BY <1>2, <1>8, PathAppend, AppendFacts
<1> HIDE DEF s2
<1>10. Path(s3, a, d, b3, e) /\ IsSeq(s3)
  BY <1>3, <1>9, PathAppend, AppendFacts
<1> HIDE DEF s3
<1>11. Path(s4, a, d, b4, e) /\ IsSeq(s4)
  BY <1>4, <1>10, PathAppend, AppendFacts
<1> HIDE DEF s4
<1>12. Path(s5, a, d, b5, e)
  BY <1>5, <1>11, PathAppend, AppendFacts
<1> QED BY <1>6, <1>12 DEF KeysPut, s1, s2, s3, s4, s5, b5, k5, c1, i1, i2, i3, i4, i5

\* The keys of a name, where there are any, lead back to the call that met them.
LEMMA WithKeysPath ==
  ASSUME NEW s, IsSeq(s), NEW a, NEW d, NEW call, NEW todo, NEW blocks, NEW active, NEW e,
         Path(s, a, d, Pos(call, todo, blocks, active), e), IsSeq(e), e # <<>>,
         NEW want, NEW use, NEW name0, NEW pid0,
         CallOf(Pos(call, todo, blocks, active)) =
           Call("id", want, use, name0, pid0),
         ProperBlocks(blocks), NEW ns, ns = (IF use = "attr" THEN active ELSE GroupsNs),
         NEW name \in NamesIn(ns), LidToPid(ns, name) > 1
  PROVE  \E call2, name2, pid2 :
           LET b == Pos(call2, todo,
                        IF pid[ns][name] # 0 THEN blocks ELSE Counted(blocks, 2), active)
           IN  /\ Path(WithKeys(s, ns, name), a, d, b, e)
               /\ CallOf(b) = Call("id", want, use, name2, pid2)
               /\ call = Idle \/ call2 # Idle
<1>1. CASE pid[ns][name] # 0
  BY <1>1 DEF WithKeys
<1>2. CASE pid[ns][name] = 0
  <2> DEFINE p == LidToPid(ns, name)
             call2 == Call("id", want, use, name, p)
             b == Pos(call2, todo, Counted(Counted(blocks, 1), 1), active)
  <2>1. Path(KeysPut(s, ns, name, p), a, d, b, e)
    BY KeysPath
  <2>2. Counted(Counted(blocks, 1), 1) = Counted(blocks, 2)
    <3>1. 1 \in Nat /\ 1 + 1 = 2
      OBVIOUS
    <3>2. Counted(Counted(blocks, 1), 1) = Counted(blocks, 1 + 1)
      BY <3>1, CountedTwice
    <3> QED BY <3>1, <3>2
  <2>3. call2 # Idle
    BY DEF Call, Idle
  <2>4. CallOf(b) = call2
    BY <2>3 DEF CallOf, Pos
  <2> QED BY <1>2, <2>1, <2>2, <2>3, <2>4 DEF WithKeys
<1> QED BY <1>1, <1>2

\* Items are added behind.
Extends(s, t) == IsSeq(t) /\ (s # <<>> => t # <<>> /\ Head(t) = Head(s))
\* By one item.
LEMMA ExtendsAppend ==
  ASSUME NEW s, NEW t, Extends(s, t), NEW x
  PROVE  Extends(s, Append(t, x))
BY AppendFacts, HeadOfAppend DEF Extends

\* By the keys of a name.
LEMMA ExtendsKeys ==
  ASSUME NEW s, NEW t, Extends(s, t), NEW ns, NEW name
  PROVE  Extends(s, WithKeys(t, ns, name))
<1> DEFINE p == LidToPid(ns, name)
           x1 == Uint(1)
           x2 == MapIndef
           x3 == Text(name)
           x4 == Uint(p)
           x5 == BreakOfKeys(ns, name, p)
<1> HIDE DEF x1, x2, x3, x4, x5
<1>1. Extends(s, Append(Append(Append(t, x1), x2), x3))
  BY ExtendsAppend
<1>2. Extends(s, Append(Append(Append(Append(Append(t, x1), x2), x3), x4), x5))
  BY <1>1, ExtendsAppend
<1> QED BY <1>2 DEF WithKeys, KeysPut, x1, x2, x3, x4, x5

\* Something said: on the old way it is what is to be told in the end, and the items
\* written lead from where the sender was to where it is now.
LEMMA SynchSay ==
  ASSUME InSynch, closed = "no", closed' = "no", UNCHANGED <<rvars, misread>>,
         IsSeq(stream), IsSeq(pending), NEW w, pending' = Append(pending, w),
         Extends(stream, stream'),
         \A a : Path(stream, a, pending', ArrayClosed(There), <<w>>)
                  => Path(stream', a, pending', ArrayClosed(There'), <<>>)
  PROVE  InSynch'
<1>1. rcall.at \notin Errors
  BY DEF InSynch
<1>2. PICK a : Matches(a) /\ Path(stream, a, pending, ArrayClosed(There), <<>>)
  BY <1>1 DEF InSynch, Leads
<1>3. Path(stream, a, pending', ArrayClosed(There), <<w>>)
  <2>1. Append(<<>>, w) = <<w>>
    OBVIOUS
  <2>2. Path(stream, a, Append(pending, w), ArrayClosed(There), Append(<<>>, w))
    BY <1>2, PathSay
  <2> QED BY <2>1, <2>2
<1>4. Path(stream', a, pending', ArrayClosed(There'), <<>>)
  BY <1>3
<1>5. Leads(a)'
  BY <1>4 DEF Leads
<1>6. /\ rcall' = rcall /\ Here' = Here /\ HereIdle' = HereIdle /\ rtodo' = rtodo
  BY DEF rvars, Here, HereIdle
<1>7. pending # <<>> => pending' # <<>> /\ Head(pending') = Head(pending)
  BY AppendFacts, HeadOfAppend
<1>8. stream # <<>> => stream' # <<>> /\ Read' = Read
  BY DEF Extends, Read
<1>9. Matches(a)'
  BY <1>2, <1>6, <1>7, <1>8 DEF Matches
<1> QED BY <1>1, <1>5, <1>6, <1>9 DEF InSynch

\* A single thing to be told.
LEMMA OneSaid == ASSUME NEW w PROVE IsSeq(<<w>>) /\ <<w>> # <<>> /\ Head(<<w>>) = w /\ Tail(<<w>>) = <<>>
<1> DEFINE t == Append(<<>>, w)
<1>1. <<w>> = t
  OBVIOUS
<1>2. IsSeq(t) /\ t # <<>> /\ Len(t) = 0 + 1 /\ t[0 + 1] = w
  BY NoElements, AppendFacts
<1> HIDE DEF t
<1>3. Len(t) = 1 /\ t[1] = w
  BY <1>2
<1>4. Head(t) = w /\ IsSeq(Tail(t)) /\ Len(Tail(t)) = 0
  BY <1>2, <1>3, TailFacts
<1>5. Tail(t) = <<>>
  <2> DEFINE u == Tail(t)
  <2>1. IsSeq(u) /\ Len(u) = 0
    BY <1>4
  <2> HIDE DEF u
  <2>2. u = <<>>
    BY <2>1, SeqFacts
  <2> QED BY <2>2 DEF u
<1> QED BY <1>1, <1>2, <1>4, <1>5

\* One item leads from the sender's old place to its new one.
LEMMA SynchOne ==
  ASSUME InSynch, closed = "no", closed' = "no", UNCHANGED <<rvars, misread>>,
         IsSeq(stream), IsSeq(pending), NEW w, pending' = Append(pending, w),
         NEW x, stream' = Append(stream, x),
         TellingStep(ArrayClosed(There), w, x, ArrayClosed(There'))
  PROVE  InSynch'
<1> DEFINE d == <<w>>
           b == ArrayClosed(There)
           c == ArrayClosed(There')
<1>1. IsSeq(d) /\ d # <<>> /\ Head(d) = w /\ Tail(d) = <<>>
  BY OneSaid
<1> HIDE DEF d, b, c
<1>2. Step(b, d, x, c, <<>>)
  BY <1>1 DEF Step, b, c
<1>3. ASSUME NEW a, Path(stream, a, pending', b, d)
      PROVE  Path(stream', a, pending', c, <<>>)
  BY <1>2, <1>3, PathAppend
<1>4. Extends(stream, stream')
  BY ExtendsAppend DEF Extends
<1> QED BY <1>3, <1>4, SynchSay DEF b, c, d

\* A value is one item, of which the receiver is told.
LEMMA SendValueSynch ==
  ASSUME TypesInv, InSynch, NEW v, SendValue(v)
  PROVE  InSynch'
<1> DEFINE x == Uint(v)
           w == Said("value", NoName, v)
<1>1. IsSeq(stream) /\ IsSeq(pending)
  BY DEF TypesInv, StreamOK, NatItems
<1>2. /\ stream' = Append(stream, x) /\ pending' = Append(pending, w)
      /\ closed = "no" /\ closed' = "no" /\ UNCHANGED <<rvars, misread>>
  BY <1>1, OneItem DEF SendValue, SenderReady
<1>3. /\ Value \in Due(stodo) /\ stodo' = Begun(stodo) /\ sblocks' = Counted(sblocks, 1)
      /\ sactive' = sactive
  BY DEF SendValue
<1>4. ArrayClosed(There) = There
  BY <1>3, NotAtArrayEnd DEF There
<1>5. x.n = v
  BY DEF Uint, Item
<1>6. ValueStep(There, w, x, ArrayClosed(There'))
  <2>1. There' = Pos(Idle, Begun(stodo), Counted(sblocks, 1), sactive)
    BY <1>3 DEF There
  <2>2. /\ There.call = Idle /\ There.todo = stodo /\ There.blocks = sblocks
        /\ There.active = sactive
    BY DEF There, Pos
  <2> QED BY <1>3, <1>5, <2>1, <2>2 DEF ValueStep
<1> HIDE DEF x, w
<1>7. TellingStep(ArrayClosed(There), w, x, ArrayClosed(There'))
  BY <1>4, <1>6 DEF TellingStep
<1> QED BY <1>1, <1>2, <1>7, SynchOne

\* So is the head of an array.
LEMMA SendArraySynch ==
  ASSUME TypesInv, InSynch, NEW n, SendArray(n)
  PROVE  InSynch'
<1> DEFINE x == Array(n)
           w == Said("array", NoName, n)
<1>1. IsSeq(stream) /\ IsSeq(pending)
  BY DEF TypesInv, StreamOK, NatItems
<1>2. /\ stream' = Append(stream, x) /\ pending' = Append(pending, w)
      /\ closed = "no" /\ closed' = "no" /\ UNCHANGED <<rvars, misread>>
  BY <1>1, OneItem DEF SendArray, SenderReady
<1>3. /\ \E t \in Due(stodo) : t.kind = "array"
      /\ stodo' = EnterArray(stodo, n)
      /\ sblocks' = Pushed(Counted(sblocks, 1), "array", n) /\ sactive' = sactive
  BY DEF SendArray
<1>4. ArrayClosed(There) = There
  BY <1>3, NotAtArrayEnd DEF There
<1>5. x.n = n
  BY DEF Array, Item
<1>6. ArrayStep(There, w, x, ArrayClosed(There'))
  <2>1. There' = Pos(Idle, EnterArray(stodo, n), Pushed(Counted(sblocks, 1), "array", n), sactive)
    BY <1>3 DEF There
  <2>2. /\ There.call = Idle /\ There.todo = stodo /\ There.blocks = sblocks
        /\ There.active = sactive
    BY DEF There, Pos
  <2> QED BY <1>3, <1>5, <2>1, <2>2 DEF ArrayStep
<1> HIDE DEF x, w
<1>7. TellingStep(ArrayClosed(There), w, x, ArrayClosed(There'))
  BY <1>4, <1>6 DEF TellingStep
<1> QED BY <1>1, <1>2, <1>7, SynchOne

\* So is the break at the end of a group, behind which an array may be at its end.
LEMMA SendGroupEndSynch ==
  ASSUME TypesInv, InSynch, SendGroupEnd
  PROVE  InSynch'
<1> DEFINE x == Break
           w == Said("group end", NoName, 0)
<1>1. IsSeq(stream) /\ IsSeq(pending) /\ SenderInv
  BY DEF TypesInv, StreamOK, NatItems
<1>2. ~(Top(sblocks).num_items = 1 \/ Top(sblocks).type # "map")
  BY <1>1, SendGroupEndKeeps
<1>3. /\ stream' = Append(stream, x) /\ pending' = Append(pending, w)
      /\ closed = "no" /\ closed' = "no" /\ UNCHANGED <<rvars, misread>>
  BY <1>1, <1>2, OneItem DEF SendGroupEnd, SenderReady
<1>4. /\ InGroup(stodo) /\ stodo' = Popped(stodo) /\ sblocks' = Popped(sblocks)
      /\ sactive' = Top(Popped(sblocks)).group
  BY <1>2 DEF SendGroupEnd
<1>5. ArrayClosed(There) = There
  BY <1>4, NotAtArrayEnd DEF There
<1>6. EndStep(There, w, x, ArrayClosed(There'))
  <2>1. There' = Pos(Idle, Popped(stodo), Popped(sblocks), Top(Popped(sblocks)).group)
    BY <1>4 DEF There
  <2>2. There.call = Idle /\ There.todo = stodo /\ There.blocks = sblocks
    BY DEF There, Pos
  <2> QED BY <1>4, <2>1, <2>2 DEF EndStep
<1> HIDE DEF x, w
<1>7. TellingStep(ArrayClosed(There), w, x, ArrayClosed(There'))
  BY <1>5, <1>6 DEF TellingStep
<1> QED BY <1>1, <1>3, <1>7, SynchOne

\* The ID of an attribute may have keys before it, which are not told.
LEMMA SendIdSynch ==
  ASSUME TypesInv, PidsInRange(pid, max_pid), InSynch, NEW a, SendId(a)
  PROVE  InSynch'
<1> DEFINE p == LidToPid(sactive, a)
           x == PidOf(sactive, a, p)
           w == Said("attr", a, 0)
           t == WithKeys(stream, sactive, a)
           d == <<w>>
           B == IF pid[sactive][a] # 0 THEN sblocks ELSE Counted(sblocks, 2)
<1>1. IsSeq(stream) /\ IsSeq(pending) /\ SenderInv /\ PidsOK
  BY DEF TypesInv, StreamOK, NatItems
<1>2. /\ stream' = Append(t, x) /\ pending' = Append(pending, w)
      /\ closed = "no" /\ closed' = "no" /\ UNCHANGED <<rvars, misread>>
  BY <1>1, IdItems DEF SendId, SenderReady
<1>3. /\ InGroup(stodo) /\ stodo' = EnterAttr(stodo, sactive, a) /\ sactive' = sactive
      /\ sblocks' = Counted(sblocks, 1 + KeyItems(sactive, a)) /\ Assign(sactive, a)
  BY DEF SendId
<1>4. sactive \in Namespaces /\ a \in NamesIn(sactive)
  BY <1>1, SendIdIn DEF Namespaces
<1>5. p > 1
  BY <1>1, <1>3, <1>4, AssignEffect
<1>6. ProperBlocks(sblocks)
  BY <1>1 DEF SenderInv, EndOK
<1>7. ArrayClosed(There) = There /\ CallOf(There) = Call("id", NoGroup, "attr", NoName, 0)
  <2>1. There.call = Idle /\ There.todo = stodo
    BY DEF There, Pos
  <2> QED BY <1>3, <2>1, NotAtArrayEnd DEF There, CallOf, AttrCall, Call
<1>8. sblocks' = Counted(B, 1)
  <2>1. CASE pid[sactive][a] # 0
    BY <1>3, <2>1 DEF KeyItems
  <2>2. CASE pid[sactive][a] = 0
    <3>1. 1 + KeyItems(sactive, a) = 2 + 1 /\ 2 \in Nat /\ 1 \in Nat
      BY <2>2 DEF KeyItems
    <3>2. Counted(Counted(sblocks, 2), 1) = Counted(sblocks, 2 + 1)
      BY <1>6, <3>1, CountedTwice
    <3> QED BY <1>3, <2>2, <3>1, <3>2
  <2> QED BY <2>1, <2>2
<1>9. ArrayClosed(There') = Pos(Idle, EnterAttr(stodo, sactive, a), Counted(B, 1), sactive)
  <2>1. InAttr(stodo')
    <3>1. EndOK(stodo, sblocks, sactive)
      BY <1>1 DEF SenderInv
    <3>2. InAttr(Append(stodo, Frame("attr", sactive, Type[sactive][a], 1)))
      BY <1>3, <3>1, EndPushAttr
    <3> QED BY <1>3, <3>2 DEF EnterAttr
  <2>2. There' = Pos(Idle, stodo', sblocks', sactive')
    BY DEF There
  <2>3. ArrayClosed(Pos(Idle, stodo', sblocks', sactive')) = Pos(Idle, stodo', sblocks', sactive')
    BY <2>1, NotAtArrayEnd
  <2> QED BY <1>3, <1>8, <2>2, <2>3
<1>10. IsSeq(d) /\ d # <<>> /\ Head(d) = w /\ Tail(d) = <<>>
  BY OneSaid
<1>11. Extends(stream, stream')
  <2>1. Extends(stream, stream)
    BY <1>1 DEF Extends
  <2>2. Extends(stream, t)
    BY <2>1, ExtendsKeys
  <2> HIDE DEF t, x
  <2> QED BY <1>2, <2>2, ExtendsAppend
<1>12. ASSUME NEW b, Path(stream, b, pending', There, d)
       PROVE  Path(stream', b, pending', ArrayClosed(There'), <<>>)
  <2> HIDE DEF d
  <2>1. Path(stream, b, pending', Pos(Idle, stodo, sblocks, sactive), d)
    BY <1>12 DEF There
  <2>2. CallOf(Pos(Idle, stodo, sblocks, sactive)) = Call("id", NoGroup, "attr", NoName, 0)
    BY <1>7 DEF There
  <2>3. PICK call2, name2, pid2 :
          /\ Path(t, b, pending', Pos(call2, stodo, B, sactive), d)
          /\ CallOf(Pos(call2, stodo, B, sactive)) = Call("id", NoGroup, "attr", name2, pid2)
    <3>1. sactive = (IF "attr" = "attr" THEN sactive ELSE GroupsNs)
      OBVIOUS
    <3> QED BY <1>1, <1>4, <1>5, <1>6, <1>10, <2>1, <2>2, <3>1, WithKeysPath
  <2> DEFINE c == Pos(call2, stodo, B, sactive)
             f == Pos(Idle, EnterAttr(stodo, sactive, a), Counted(B, 1), sactive)
  <2>4. AttrStep(c, w, x, f)
    <3>1. c.todo = stodo /\ c.blocks = B /\ c.active = sactive
      BY DEF Pos
    <3>2. CallOf(c).at = "id" /\ CallOf(c).use = "attr"
      BY <2>3 DEF Call
    <3>3. w.name = a /\ x.n = p
      BY DEF Said, PidOf, Item
    <3> HIDE DEF c, B
    <3> QED BY <1>5, <3>1, <3>2, <3>3 DEF AttrStep
  <2> HIDE DEF c, f, w, x, t
  <2>5. Step(c, d, x, f, <<>>)
    BY <1>10, <2>4 DEF Step, TellingStep
  <2>6. IsSeq(t)
    BY <1>11, ExtendsKeys, <1>1 DEF Extends, t
  <2>7. Path(Append(t, x), b, pending', f, <<>>)
    BY <2>3, <2>5, <2>6, PathAppend DEF c
  <2> QED BY <1>2, <1>9, <2>7 DEF f
<1> HIDE DEF t, x, w, B
<1> QED BY <1>1, <1>2, <1>7, <1>11, <1>12, SynchSay DEF d

\* The items of a group's start are counted in its block as they are read.
LEMMA GroupBlocks ==
  ASSUME NEW s, ProperBlocks(s), Top(s).type = "map", NEW g \in Groups, NEW B,
         B = (IF pid[GroupsNs][g] # 0 THEN s ELSE Counted(s, 2))
  PROVE  WithGroup(Counted(Counted(B, 1), 1), g)
           = Counted(WithGroup(s, g), 2 + KeyItems(GroupsNs, g))
<1> DEFINE n == 2 + KeyItems(GroupsNs, g)
<1>1. 1 \in Nat /\ 2 \in Nat /\ 1 + 1 = 2 /\ 2 + 2 = 4 /\ 2 + 0 = 2
  OBVIOUS
<1>2. ProperBlocks(B)
  BY <1>1, CountedFacts
<1>3. Counted(Counted(B, 1), 1) = Counted(B, 2)
  <2>1. Counted(Counted(B, 1), 1) = Counted(B, 1 + 1)
    BY <1>1, <1>2, CountedTwice
  <2> QED BY <1>1, <2>1
<1>4. Counted(B, 2) = Counted(s, n) /\ n \in Nat
  <2>1. CASE pid[GroupsNs][g] # 0
    BY <1>1, <2>1 DEF KeyItems
  <2>2. CASE pid[GroupsNs][g] = 0
    <3>1. Counted(Counted(s, 2), 2) = Counted(s, 2 + 2)
      BY <1>1, CountedTwice
    <3>2. n = 2 + 2 /\ B = Counted(s, 2)
      BY <2>2 DEF KeyItems
    <3> QED BY <1>1, <3>1, <3>2
  <2> QED BY <2>1, <2>2
<1> HIDE DEF n
<1>5. WithGroup(Counted(s, n), g) = Counted(WithGroup(s, g), n)
  BY <1>4, WithGroupCounted
<1> QED BY <1>3, <1>4, <1>5 DEF n

\* A group's start: its map, perhaps keys, pid 0 and the pid of its name.
LEMMA SendGroupSynch ==
  ASSUME TypesInv, PidsInRange(pid, max_pid), InSynch, NEW g \in Groups, SendGroup(g)
  PROVE  InSynch'
<1> DEFINE p == LidToPid(GroupsNs, g)
           m == MapIndef
           z == Uint(0)
           x == PidOf(GroupsNs, g, p)
           w == Said("group", g, 0)
           d == <<w>>
           t == Append(stream, m)
           u == WithKeys(t, GroupsNs, g)
           v == Append(u, z)
           S == Counted(sblocks, 1)
           P == Pushed(S, "map", 0)
           B == IF pid[GroupsNs][g] # 0 THEN P ELSE Counted(P, 2)
           C == WithGroup(Counted(Counted(B, 1), 1), g)
<1>1. IsSeq(stream) /\ IsSeq(pending) /\ SenderInv /\ PidsOK
  BY DEF TypesInv, StreamOK, NatItems
<1>2. /\ stream' = Append(v, x) /\ pending' = Append(pending, w)
      /\ closed = "no" /\ closed' = "no" /\ UNCHANGED <<rvars, misread>>
  BY <1>1, GroupItems DEF SendGroup, SenderReady
<1>3. /\ GroupOf(g) \in Due(stodo) /\ stodo' = EnterGroup(stodo, g) /\ sactive' = g
      /\ sblocks' = Counted(WithGroup(P, g), 2 + KeyItems(GroupsNs, g))
      /\ Assign(GroupsNs, g)
  BY DEF SendGroup
<1>4. GroupsNs \in Namespaces /\ g \in NamesIn(GroupsNs)
  BY DEF Namespaces, NamesIn
<1>5. p > 1
  BY <1>1, <1>3, <1>4, AssignEffect
<1>6. ProperBlocks(S) /\ ProperBlocks(P) /\ Top(P).type = "map"
  <2>1. ProperBlocks(sblocks) /\ 1 \in Nat
    BY <1>1 DEF SenderInv, EndOK
  <2>2. ProperBlocks(S)
    BY <2>1, CountedFacts
  <2> HIDE DEF S
  <2> QED BY <2>2, PushedMap
<1>7. ArrayClosed(There) = There
  BY <1>3, NotAtArrayEnd DEF There
<1>8. sblocks' = C
  <2> HIDE DEF P
  <2>1. C = Counted(WithGroup(P, g), 2 + KeyItems(GroupsNs, g))
    BY <1>6, GroupBlocks
  <2> QED BY <1>3, <2>1
<1> HIDE DEF B, C, P, S
<1>9. ArrayClosed(There') = Pos(Idle, EnterGroup(stodo, g), C, g)
  <2>1. InGroup(stodo')
    <3>1. IsSeq(Begun(stodo))
      <4>1. EndOK(stodo, sblocks, sactive) /\ Due(stodo) # {}
        BY <1>1, <1>3 DEF SenderInv
      <4>2. stodo = <<>> \/ Top(stodo).left > 0
        BY <4>1, DueIsBegun
      <4>3. EndOK(Begun(stodo), Counted(sblocks, 1), sactive)
        BY <4>1, <4>2, EndBegun
      <4> QED BY <4>3 DEF EndOK, ProperFrames
    <3>2. Top(stodo') = Frame("group", g, Value, 0) /\ stodo' # <<>>
      BY <1>3, <3>1, AppendFacts DEF EnterGroup
    <3> QED BY <3>2 DEF InGroup, Frame
  <2>2. There' = Pos(Idle, stodo', sblocks', sactive')
    BY DEF There
  <2>3. ArrayClosed(Pos(Idle, stodo', sblocks', sactive')) = Pos(Idle, stodo', sblocks', sactive')
    BY <2>1, NotAtArrayEnd
  <2> QED BY <1>3, <1>8, <2>2, <2>3
<1>10. IsSeq(d) /\ d # <<>> /\ Head(d) = w /\ Tail(d) = <<>>
  BY OneSaid
<1>11. Extends(stream, stream') /\ IsSeq(t) /\ IsSeq(u) /\ IsSeq(v)
  <2>1. Extends(stream, stream)
    BY <1>1 DEF Extends
  <2>2. Extends(stream, t)
    BY <2>1, ExtendsAppend
  <2> HIDE DEF t
  <2>3. Extends(stream, u)
    BY <2>2, ExtendsKeys
  <2> HIDE DEF u, z, x
  <2>4. Extends(stream, v)
    BY <2>3, ExtendsAppend
  <2> HIDE DEF v
  <2>5. Extends(stream, stream')
    BY <1>2, <2>4, ExtendsAppend
  <2> QED BY <2>2, <2>3, <2>4, <2>5 DEF Extends
<1>12. ASSUME NEW b, Path(stream, b, pending', There, d)
       PROVE  Path(stream', b, pending', ArrayClosed(There'), <<>>)
  <2> DEFINE key == "key 0"
             k0 == Call("id", g, key, NoName, 0)
             e0 == Pos(k0, stodo, P, sactive)
  <2>1. w.name = g /\ w = Said("group", g, 0)
    BY DEF Said
  <2> HIDE DEF w
  <2>2. MapStep(There, w, m, e0)
    <3>1. /\ There.call = Idle /\ There.todo = stodo /\ There.blocks = sblocks
          /\ There.active = sactive
      BY DEF There, Pos
    <3> HIDE DEF k0
    <3> QED BY <1>3, <2>1, <3>1 DEF MapStep, P, S, k0
  <2> HIDE DEF e0, m, d
  <2>3. Step(There, d, m, e0, d)
    BY <1>10, <2>2 DEF Step, QuietStep
  <2>4. Path(t, b, pending', e0, d)
    BY <1>1, <1>12, <2>3, PathAppend
  <2>5. k0 # Idle /\ CallOf(e0) = k0
    <3>1. k0 # Idle
      BY DEF Call, Idle
    <3> QED BY <3>1 DEF e0, CallOf, Pos
  <2>6. PICK call2, name2, pid2 :
          /\ Path(u, b, pending', Pos(call2, stodo, B, sactive), d)
          /\ CallOf(Pos(call2, stodo, B, sactive)) = Call("id", g, key, name2, pid2)
          /\ call2 # Idle
    <3>1. GroupsNs = (IF key = "attr" THEN sactive ELSE GroupsNs)
      OBVIOUS
    <3> HIDE DEF key
    <3>2. Path(t, b, pending', Pos(k0, stodo, P, sactive), d)
      BY <2>4 DEF e0
    <3>3. CallOf(Pos(k0, stodo, P, sactive)) = Call("id", g, key, NoName, 0)
      BY <2>5 DEF e0
    <3> HIDE DEF t, k0, u, x, z, v
    <3>4. \E call2, name2, pid2 :
            LET c == Pos(call2, stodo, IF pid[GroupsNs][g] # 0 THEN P ELSE Counted(P, 2), sactive)
            IN  /\ Path(WithKeys(t, GroupsNs, g), b, pending', c, d)
                /\ CallOf(c) = Call("id", g, key, name2, pid2)
                /\ k0 = Idle \/ call2 # Idle
      <4> DEFINE D == pending'
      <4>1. Path(t, b, D, Pos(k0, stodo, P, sactive), d) /\ LidToPid(GroupsNs, g) > 1
        BY <1>5, <3>2
      <4> HIDE DEF D, p
      <4>2. IsSeq(t) /\ IsSeq(d) /\ d # <<>> /\ ProperBlocks(P) /\ g \in NamesIn(GroupsNs)
        BY <1>4, <1>6, <1>10, <1>11
      <4>3. \E call2, name2, pid2 :
              LET c == Pos(call2, stodo, IF pid[GroupsNs][g] # 0 THEN P ELSE Counted(P, 2), sactive)
              IN  /\ Path(WithKeys(t, GroupsNs, g), b, D, c, d)
                  /\ CallOf(c) = Call("id", g, key, name2, pid2)
                  /\ k0 = Idle \/ call2 # Idle
        BY <4>1, <4>2, <3>1, <3>3, WithKeysPath
      <4> QED BY <4>3 DEF D
    <3> QED BY <2>5, <3>4 DEF B, u
  <2> DEFINE e1 == Pos(call2, stodo, B, sactive)
             k2 == Call("id", g, "group", name2, pid2)
             e2 == Pos(k2, stodo, Counted(B, 1), sactive)
             e3 == Pos(Idle, EnterGroup(stodo, g), C, g)
  <2>7. e1.call = Call("id", g, key, name2, pid2)
    BY <2>6 DEF CallOf, Pos
  <2>8. ZeroStep(e1, z, e2)
    <3>1. e1.todo = stodo /\ e1.blocks = B /\ e1.active = sactive
      BY DEF Pos
    <3> HIDE DEF e1, key
    <3>2. /\ e1.call.at = "id" /\ e1.call.use = key /\ e1.call.want = g
          /\ e1.call.name = name2 /\ e1.call.pid = pid2
      BY <2>7 DEF Call
    <3> QED BY <3>1, <3>2 DEF ZeroStep, key
  <2>9. GroupStep(e2, w, x, e3)
    <3>1. e2.todo = stodo /\ e2.blocks = Counted(B, 1) /\ e2.active = sactive
      BY DEF Pos
    <3>2. e2.call.at = "id" /\ e2.call.use = "group" /\ e2.call.want = g
      BY DEF Pos, Call
    <3>3. x.n = p
      BY DEF PidOf, Item
    <3> HIDE DEF e2
    <3>4. x = PidOf(GroupsNs, g, x.n)
      BY <3>3
    <3> QED BY <1>5, <2>1, <3>1, <3>2, <3>3, <3>4 DEF GroupStep, C
  <2>10. Path(u, b, pending', e1, d)
    BY <2>6
  <2> HIDE DEF e1, e2, e3, x, z, u
  <2>11. Step(e1, d, z, e2, d)
    BY <1>10, <2>8 DEF Step, QuietStep
  <2>12. Path(v, b, pending', e2, d)
    BY <1>11, <2>10, <2>11, PathAppend
  <2> HIDE DEF v
  <2>13. Step(e2, d, x, e3, <<>>)
    BY <1>10, <2>9 DEF Step, TellingStep
  <2>14. Path(Append(v, x), b, pending', e3, <<>>)
    BY <1>11, <2>12, <2>13, PathAppend
  <2> QED BY <1>2, <1>9, <2>14 DEF e3
<1> HIDE DEF v, x, w
<1> QED BY <1>1, <1>2, <1>7, <1>11, <1>12, SynchSay DEF d

\* The end of an array is read as soon as its last element is.
LEMMA SendArrayEndSynch ==
  ASSUME TypesInv, InSynch, SendArrayEnd
  PROVE  InSynch'
<1>1. SenderInv /\ Top(sblocks).type = "array"
  BY SendArrayEndKeeps DEF TypesInv
<1>2. /\ AtArrayEnd(stodo) /\ sblocks' = Popped(sblocks) /\ stodo' = Popped(stodo)
      /\ closed = "no" /\ UNCHANGED <<sactive, closed, stream, rvars, pending, misread>>
  BY <1>1 DEF SendArrayEnd, SenderReady
<1>3. InGroup(Popped(stodo))
  <2>1. EndOK(stodo, sblocks, sactive) /\ InArray(stodo)
    BY <1>1, <1>2 DEF SenderInv, AtArrayEnd, InArray
  <2> QED BY <2>1, EndPop
<1>4. There' = ArrayClosed(There)
  BY <1>2 DEF There, ArrayClosed, Pos
<1>5. ArrayClosed(There') = There'
  <2>1. ArrayClosed(Pos(Idle, Popped(stodo), Popped(sblocks), sactive))
          = Pos(Idle, Popped(stodo), Popped(sblocks), sactive)
    BY <1>3, NotAtArrayEnd
  <2> QED BY <1>2, <2>1 DEF There
<1>6. /\ Here' = Here /\ HereIdle' = HereIdle /\ rcall' = rcall /\ rtodo' = rtodo
      /\ Read' = Read
  BY <1>2 DEF rvars, Here, HereIdle, Read
<1>7. ASSUME NEW a, Matches(a) PROVE Matches(a)'
  BY <1>2, <1>6, <1>7 DEF Matches
<1>8. ASSUME NEW a, Leads(a) PROVE Leads(a)'
  <2>1. PICK b, e :
          /\ Path(stream, a, pending, b, e)
          /\ closed # "crashed" => b = ArrayClosed(There) /\ e = <<>>
    BY <1>8 DEF Leads
  <2>2. Path(stream', a, pending', b, e)
    BY <1>2, <2>1
  <2> QED BY <1>2, <1>4, <1>5, <2>1, <2>2 DEF Leads
<1> QED BY <1>2, <1>6, <1>7, <1>8 DEF InSynch

\* Nothing about the way changes.
LEMMA SynchSame ==
  ASSUME InSynch, closed = "no", closed' # "crashed", ArrayClosed(There') = ArrayClosed(There),
         UNCHANGED <<stream, rvars, pending, misread>>
  PROVE  InSynch'
<1>1. /\ Here' = Here /\ HereIdle' = HereIdle /\ rcall' = rcall /\ rtodo' = rtodo
      /\ Read' = Read
  BY DEF rvars, Here, HereIdle, Read
<1>2. ASSUME NEW a, Matches(a) PROVE Matches(a)'
  BY <1>1, <1>2 DEF Matches
<1>3. ASSUME NEW a, Leads(a) PROVE Leads(a)'
  <2>1. PICK b, e :
          /\ Path(stream, a, pending, b, e)
          /\ closed # "crashed" => b = ArrayClosed(There) /\ e = <<>>
    BY <1>3 DEF Leads
  <2>2. Path(stream', a, pending', b, e)
    BY <2>1
  <2> QED BY <2>1, <2>2 DEF Leads
<1> QED BY <1>1, <1>2, <1>3 DEF InSynch

\* What the crash leaves of the stream is the beginning of the way.
LEMMA SenderCrashSynch ==
  ASSUME TypesInv, InSynch, SenderCrash
  PROVE  InSynch'
<1>1. IsSeq(stream) /\ closed = "no" /\ closed' = "crashed" /\ UNCHANGED <<rvars, pending, misread>>
  BY DEF TypesInv, StreamOK, NatItems, SenderCrash
<1>2. PICK n \in 0..Len(stream) : stream' = SubSeq(stream, 1, n)
  BY DEF SenderCrash
<1>3. IsSeq(stream') /\ Len(stream') = n /\ \A i \in 1..n : stream'[i] = stream[i]
  BY <1>1, <1>2, PrefixFacts
<1>4. stream' # <<>> => stream # <<>> /\ Read' = Read
  <2> SUFFICES ASSUME stream' # <<>> PROVE stream # <<>> /\ Read' = Read
    OBVIOUS
  <2>1. Len(stream) \in Nat /\ n \in Nat /\ n > 0
    BY <1>1, <1>3, SeqFacts
  <2>2. stream # <<>> /\ 1 \in 1..n
    BY <1>1, <2>1, SeqFacts
  <2>3. Head(stream) = stream[1] /\ Head(stream') = stream'[1]
    BY <1>1, <1>3, <2>2, TailFacts
  <2> QED BY <1>3, <2>2, <2>3 DEF Read
<1>5. /\ Here' = Here /\ HereIdle' = HereIdle /\ rcall' = rcall /\ rtodo' = rtodo
  BY <1>1 DEF rvars, Here, HereIdle
<1>6. ASSUME NEW a, Matches(a) PROVE Matches(a)'
  BY <1>1, <1>4, <1>5, <1>6 DEF Matches
<1>7. ASSUME NEW a, Leads(a) PROVE Leads(a)'
  <2>1. PICK b, e : Path(stream, a, pending, b, e)
    BY <1>7 DEF Leads
  <2>2. \E c, f : Path(SubSeq(stream, 1, n), a, pending, c, f)
    BY <1>1, <2>1, PathPrefix
  <2>3. PICK c, f : Path(stream', a, pending', c, f)
    BY <1>1, <1>2, <2>2
  <2> QED BY <1>1, <2>3 DEF Leads
<1> QED BY <1>1, <1>5, <1>6, <1>7 DEF InSynch

\* The way after every step of the sender.
LEMMA SendSynch ==
  ASSUME TypesInv, PidsInRange(pid, max_pid), InSynch, Send
  PROVE  InSynch'
<1>1. ASSUME NEW g \in Groups, SendGroup(g) PROVE InSynch'
  BY <1>1, SendGroupSynch
<1>2. ASSUME NEW x, SendId(x) PROVE InSynch'
  BY <1>2, SendIdSynch
<1>3. ASSUME NEW x, SendValue(x) PROVE InSynch'
  BY <1>3, SendValueSynch
<1>4. ASSUME NEW x, SendArray(x) PROVE InSynch'
  BY <1>4, SendArraySynch
<1>5. CASE SendGroupEnd
  BY <1>5, SendGroupEndSynch
<1>6. CASE SendArrayEnd
  BY <1>6, SendArrayEndSynch
<1>7. CASE SenderRestart
  <2>1. stodo = <<>> /\ sblocks = Root /\ sactive = NoGroup
    <3>1. stodo = <<>> /\ EndOK(stodo, sblocks, sactive)
      BY <1>7 DEF SenderRestart, TypesInv, SenderInv
    <3> QED BY <3>1, EndTop
  <2>2. There' = There /\ closed = "no" /\ closed' = "no"
        /\ UNCHANGED <<stream, rvars, pending, misread>>
    BY <1>7, <2>1 DEF SenderRestart, SenderReady, There
  <2> QED BY <2>2, SynchSame
<1>8. CASE SenderClose
  <2>1. There' = There /\ closed = "no" /\ closed' # "crashed"
        /\ UNCHANGED <<stream, rvars, pending, misread>>
    BY <1>8 DEF SenderClose, svars, There
  <2> QED BY <2>1, SynchSame
<1>9. CASE SenderCrash
  BY <1>9, SenderCrashSynch
<1> QED BY <1>1, <1>2, <1>3, <1>4, <1>5, <1>6, <1>7, <1>8, <1>9 DEF Send

-----------------------------------------------------------------------------
(* The receiver goes that way.                                             *)

\* The fields of a call.
LEMMA CallFields ==
  ASSUME NEW at, NEW want, NEW use, NEW name, NEW p
  PROVE  LET c == Call(at, want, use, name, p)
         IN  c.at = at /\ c.want = want /\ c.use = use /\ c.name = name /\ c.pid = p
BY DEF Call

\* The receiver's call is one.
LEMMA RcallIsCall == ASSUME TypesInv PROVE IsCall(rcall) /\ (rcall.at = "client" => rcall = Idle)
BY DEF TypesInv, ReceiverInv, ReceiverOK

\* An item of the way is read.
LEMMA Took ==
  ASSUME TypesInv, InSynch, rcall.at \notin Errors, stream # <<>>, stream' = Tail(stream),
         UNCHANGED <<closed, svars>>,
         \A a, c, f : Matches(a) /\ Step(a, pending, Read, c, f)
           => Matches(c)' /\ pending' = f /\ misread' = FALSE /\ rcall'.at \notin Errors
  PROVE  InSynch'
<1>1. PICK a : Matches(a) /\ Leads(a)
  BY DEF InSynch
<1>2. PICK b, e :
        /\ Path(stream, a, pending, b, e)
        /\ closed # "crashed" => b = ArrayClosed(There) /\ e = <<>>
  BY <1>1 DEF Leads
<1>3. IsSeq(stream)
  BY DEF TypesInv, StreamOK, NatItems
<1>4. PICK c, f : Step(a, pending, Read, c, f) /\ Path(Tail(stream), c, f, b, e)
  BY <1>2, <1>3, PathHead DEF Read
<1>5. Matches(c)' /\ pending' = f /\ misread' = FALSE /\ rcall'.at \notin Errors
  BY <1>1, <1>4
<1>6. There' = There
  BY DEF svars, There
<1>7. Path(stream', c, pending', b, e)
  BY <1>4, <1>5
<1>8. Leads(c)'
  BY <1>2, <1>6, <1>7 DEF Leads
<1> QED BY <1>5, <1>8 DEF InSynch

\* The receiver moves and nothing is read.
LEMMA Moved ==
  ASSUME TypesInv, InSynch, rcall.at \notin Errors, rcall'.at \notin Errors,
         UNCHANGED <<stream, closed, svars, pending, misread>>,
         \A a : Matches(a) => Matches(a)'
  PROVE  InSynch'
<1>1. PICK a : Matches(a) /\ Leads(a)
  BY DEF InSynch
<1>2. PICK b, e :
        /\ Path(stream, a, pending, b, e)
        /\ closed # "crashed" => b = ArrayClosed(There) /\ e = <<>>
  BY <1>1 DEF Leads
<1>3. There' = There
  BY DEF svars, There
<1>4. Path(stream', a, pending', b, e)
  BY <1>2
<1>5. Leads(a)'
  BY <1>2, <1>3, <1>4 DEF Leads
<1> QED BY <1>1, <1>5 DEF InSynch

\* A group, a value and an array are never due at once.
LEMMA DueOne ==
  ASSUME NEW todo, NEW g
  PROVE  /\ GroupOf(g) \in Due(todo) => Value \notin Due(todo)
         /\ \A t \in Due(todo) : t.kind = "array" => GroupOf(g) \notin Due(todo) /\ Value \notin Due(todo)
         /\ \A h : todo # <<>> /\ GroupOf(g) \in Due(todo) /\ GroupOf(h) \in Due(todo) => g = h
<1>1. \A h : GroupOf(h).kind = "group" /\ GroupOf(h).of = h
  BY DEF GroupOf
<1>2. Value.kind = "value"
  BY DEF Value
<1>3. CASE todo = <<>>
  <2>1. Due(todo) = {GroupOf(h) : h \in TopGroups}
    BY <1>3 DEF Due
  <2>2. \A t \in Due(todo) : t.kind = "group"
    BY <1>1, <2>1
  <2> QED BY <1>2, <1>3, <2>2
<1>4. CASE todo # <<>>
  <2>1. \A t, u \in Due(todo) : t = u
    BY <1>4 DEF Due
  <2> QED BY <1>1, <1>2, <2>1
<1> QED BY <1>3, <1>4

\* The steps from between two calls, where something is due and in a group.
LEMMA StepsFromClient ==
  ASSUME NEW a, a.call = Idle, NEW h, NEW it, NEW b
  PROVE  /\ ~InGroup(a.todo) =>
              /\ QuietStep(a, h, it, b) => MapStep(a, h, it, b)
              /\ TellingStep(a, h, it, b) => ValueStep(a, h, it, b) \/ ArrayStep(a, h, it, b)
         /\ InGroup(a.todo) /\ Due(a.todo) = {} =>
              /\ QuietStep(a, h, it, b) => KeysStep(a, it, b)
              /\ TellingStep(a, h, it, b) => AttrStep(a, h, it, b) \/ EndStep(a, h, it, b)
<1>1. a.call.at = "client"
  BY DEF Idle
<1>2. ~InGroup(a.todo) => CallOf(a).at = "client"
  BY <1>1 DEF CallOf
<1>3. ~KeysMapStep(a, it, b) /\ ~KeysNameStep(a, it, b) /\ ~KeysPidStep(a, it, b)
      /\ ~KeysEndStep(a, it, b) /\ ~ZeroStep(a, it, b) /\ ~GroupStep(a, h, it, b)
  BY <1>1 DEF KeysMapStep, KeysNameStep, KeysPidStep, KeysEndStep, ZeroStep, GroupStep
<1>4. ~InGroup(a.todo) => ~KeysStep(a, it, b) /\ ~AttrStep(a, h, it, b) /\ ~EndStep(a, h, it, b)
  BY <1>2 DEF KeysStep, AttrStep, EndStep
<1>5. Due(a.todo) = {} => ~MapStep(a, h, it, b) /\ ~ValueStep(a, h, it, b) /\ ~ArrayStep(a, h, it, b)
  BY DEF MapStep, ValueStep, ArrayStep
<1> QED BY <1>3, <1>4, <1>5 DEF QuietStep, TellingStep

\* And from within a call.
LEMMA StepsFromCall ==
  ASSUME NEW a, a.call.at # "client", NEW it, NEW b, NEW h, QuietStep(a, h, it, b) \/ TellingStep(a, h, it, b)
  PROVE  /\ a.call.at = "id" =>
              \/ KeysStep(a, it, b) \/ ZeroStep(a, it, b)
              \/ GroupStep(a, h, it, b) \/ AttrStep(a, h, it, b)
         /\ a.call.at = "keys map" => KeysMapStep(a, it, b)
         /\ a.call.at = "keys name" => KeysNameStep(a, it, b)
         /\ a.call.at = "keys pid" => KeysPidStep(a, it, b)
         /\ a.call.at = "keys end" => KeysEndStep(a, it, b)
         /\ a.call.at # "id" => ~TellingStep(a, h, it, b)
         /\ CallOf(a) = a.call
<1>1. a.call # Idle
  BY DEF Idle
<1>2. CallOf(a) = a.call
  BY <1>1 DEF CallOf
<1>3. ~MapStep(a, h, it, b) /\ ~EndStep(a, h, it, b) /\ ~ValueStep(a, h, it, b) /\ ~ArrayStep(a, h, it, b)
  BY <1>1 DEF MapStep, EndStep, ValueStep, ArrayStep
<1>4. a.call.at # "id" => /\ ~KeysStep(a, it, b) /\ ~ZeroStep(a, it, b)
                          /\ ~GroupStep(a, h, it, b) /\ ~AttrStep(a, h, it, b)
  BY <1>2 DEF KeysStep, ZeroStep, GroupStep, AttrStep
<1>5. /\ a.call.at # "keys map" => ~KeysMapStep(a, it, b)
      /\ a.call.at # "keys name" => ~KeysNameStep(a, it, b)
      /\ a.call.at # "keys pid" => ~KeysPidStep(a, it, b)
      /\ a.call.at # "keys end" => ~KeysEndStep(a, it, b)
  BY DEF KeysMapStep, KeysNameStep, KeysPidStep, KeysEndStep
<1> QED BY <1>2, <1>3, <1>4, <1>5 DEF QuietStep, TellingStep

\* The client asks for the group that comes next.
LEMMA RecvGroupSynch ==
  ASSUME TypesInv, InSynch, NEW g, RecvGroup(g)
  PROVE  InSynch'
<1>1. rcall.at = "client" /\ rcall = Idle /\ IsCall(rcall)
  BY RcallIsCall DEF RecvGroup, AtClient
<1>2. rcall' = Call("group", g, "none", NoName, 0)
  <2>1. rcall' = [rcall EXCEPT !.at = "group", !.want = g]
    BY DEF RecvGroup
  <2>2. rcall.use = "none" /\ rcall.name = NoName /\ rcall.pid = 0
    BY <1>1 DEF Idle
  <2>3. rcall' = [at |-> "group", want |-> g, use |-> rcall.use, name |-> rcall.name,
                  pid |-> rcall.pid]
    BY <1>1, <2>1 DEF IsCall
  <2> QED BY <2>2, <2>3 DEF Call
<1>3. /\ rcall'.at = "group" /\ rcall'.want = g
      /\ rcall' = [at |-> "group", want |-> g, use |-> "none", name |-> NoName, pid |-> 0]
  BY <1>2 DEF Call
<1>4. /\ GroupOf(g) \in Due(rtodo)
      /\ rtodo = <<>> => pending # <<>> /\ Head(pending) = Said("group", g, 0)
      /\ UNCHANGED <<svars, stream, closed, rblocks, ractive, rtodo, pending, misread>>
  BY DEF RecvGroup
<1>5. ArrayClosed(Here) = Here /\ HereIdle' = Here
  <2>1. ArrayClosed(Here) = Here
    BY <1>4, NotAtArrayEnd DEF Here
  <2> QED BY <1>1, <1>4, <2>1 DEF Here, HereIdle
<1>6. ASSUME NEW a, Matches(a) PROVE Matches(a)'
  <2>1. a = HereIdle'
    BY <1>1, <1>5, <1>6 DEF Matches
  <2>2. rtodo' = <<>> => pending' # <<>> /\ Head(pending') = Said("group", rcall'.want, 0)
    BY <1>3, <1>4
  <2>3. rcall' = [at |-> "group", want |-> rcall'.want, use |-> "none", name |-> NoName, pid |-> 0]
    BY <1>3
  <2> HIDE <1>2, <1>3
  <2>4. rcall'.at = "group"
    BY <1>3
  <2> QED BY <2>1, <2>2, <2>3, <2>4 DEF Matches
<1>7. rcall.at \notin Errors /\ rcall'.at \notin Errors
  BY <1>1, <1>3 DEF Errors
<1> QED BY <1>4, <1>6, <1>7, Moved

\* The kinds of items.
LEMMA Kinds ==
  /\ \A n : Uint(n).kind = "uint" /\ Array(n).kind = "array" /\ Uint(n).n = n
  /\ \A name : Text(name).kind = "text"
  /\ MapIndef.kind = "map" /\ Break.kind = "break"
  /\ \A ns, name, p : PidOf(ns, name, p).kind = "uint"
  /\ \A ns, name, p : BreakOfKeys(ns, name, p).kind = "break"
BY DEF Uint, Array, Text, MapIndef, Break, PidOf, BreakOfKeys, Item

\* Where the receiver is on its way between two items of one call.
LEMMA MatchesInside ==
  ASSUME NEW c, c = Here', rcall'.at \in {"id", "keys map", "keys name", "keys pid", "keys end"}
  PROVE  Matches(c)' /\ rcall'.at \notin Errors
BY DEF Matches, Errors

\* The map of the group that was asked for.
LEMMA RecvGroupMapSynch ==
  ASSUME TypesInv, InSynch, RecvGroupMap
  PROVE  InSynch'
<1>1. /\ rcall.at = "group" /\ stream # <<>> /\ stream' = Tail(stream)
      /\ UNCHANGED <<svars, closed, ractive, rtodo>> /\ IsCall(rcall)
  BY RcallIsCall DEF RecvGroupMap, Reads, ReadsOther
<1>2. /\ GroupOf(rcall.want) \in Due(rtodo) /\ EndOK(rtodo, rblocks, ractive)
  BY <1>1 DEF TypesInv, ReceiverInv, ReceiverOK
<1>3. ASSUME NEW a, NEW c, NEW f, Matches(a), Step(a, pending, Read, c, f)
      PROVE  Matches(c)' /\ pending' = f /\ misread' = FALSE /\ rcall'.at \notin Errors
  <2> DEFINE h == Head(pending)
             P == Pushed(Counted(rblocks, 1), "map", 0)
  <2>1. /\ a = HereIdle
        /\ rcall = [at |-> "group", want |-> rcall.want, use |-> "none", name |-> NoName, pid |-> 0]
        /\ rtodo = <<>> => pending # <<>> /\ Head(pending) = Said("group", rcall.want, 0)
    BY <1>1, <1>3 DEF Matches
  <2>2. a.call = Idle /\ a.todo = rtodo /\ a.blocks = rblocks /\ a.active = ractive
    BY <2>1 DEF HereIdle, Pos
  <2>3. ~InGroup(rtodo)
    BY <1>2, DueIsBegun
  <2>4. \/ QuietStep(a, h, Read, c) /\ f = pending
        \/ TellingStep(a, h, Read, c) /\ f = Tail(pending)
    BY <1>3 DEF Step
  <2>5. MapStep(a, h, Read, c) \/ ValueStep(a, h, Read, c) \/ ArrayStep(a, h, Read, c)
    BY <2>2, <2>3, <2>4, StepsFromClient
  <2>6. ~ValueStep(a, h, Read, c) /\ ~ArrayStep(a, h, Read, c)
    BY <1>2, <2>2, DueOne DEF ValueStep, ArrayStep
  <2>7. MapStep(a, h, Read, c) /\ f = pending
    <3>1. MapStep(a, h, Read, c)
      BY <2>5, <2>6
    <3>2. Read.kind = "map"
      BY <3>1 DEF MapStep, MapIndef, Item
    <3>3. ~TellingStep(a, h, Read, c)
      <4>1. ~EndStep(a, h, Read, c)
        BY <2>2, <2>3 DEF EndStep
      <4>2. ~GroupStep(a, h, Read, c) /\ ~AttrStep(a, h, Read, c)
        BY <3>2 DEF GroupStep, AttrStep, PidOf, Item
      <4> QED BY <2>6, <4>1, <4>2 DEF TellingStep
    <3> QED BY <2>4, <3>1, <3>3
  <2> HIDE DEF h
  <2>8. h.name = rcall.want
    <3>1. CASE rtodo = <<>>
      <4>1. h = Said("group", rcall.want, 0)
        BY <2>1, <3>1 DEF h
      <4> QED BY <4>1 DEF Said
    <3>2. CASE rtodo # <<>>
      <4>1. GroupOf(h.name) \in Due(rtodo)
        BY <2>2, <2>7 DEF MapStep
      <4> QED BY <1>2, <3>2, <4>1, DueOne
    <3> QED BY <3>1, <3>2
  <2>9. Read.kind = "map"
    BY <2>7 DEF MapStep, MapIndef, Item
  <2>10. /\ rblocks' = P /\ UNCHANGED <<pending, misread>>
         /\ rcall' = [rcall EXCEPT !.at = "id", !.use = "key 0"]
    BY <2>9 DEF RecvGroupMap, Reads, ReadsOther, Read
  <2>11. rcall' = Call("id", rcall.want, "key 0", NoName, 0)
    <3>1. rcall' = [at |-> "id", want |-> rcall.want, use |-> "key 0", name |-> rcall.name,
                    pid |-> rcall.pid]
      BY <1>1, <2>10 DEF IsCall
    <3>2. rcall.name = NoName /\ rcall.pid = 0
      BY <2>1
    <3> QED BY <3>1, <3>2 DEF Call
  <2>12. c = Pos(Call("id", h.name, "key 0", NoName, 0), rtodo, P, ractive)
    BY <2>2, <2>7 DEF MapStep
  <2>13. c = Here'
    <3>1. Here' = Pos(rcall', rtodo, P, ractive)
      BY <1>1, <2>10 DEF Here
    <3> QED BY <2>8, <2>11, <2>12, <3>1
  <2>14. rcall'.at = "id"
    BY <2>11 DEF Call
  <2>15. misread' = FALSE
    BY <2>10 DEF InSynch
  <2> QED BY <2>7, <2>10, <2>13, <2>14, <2>15, MatchesInside
<1>4. rcall.at \notin Errors
  BY <1>1 DEF Errors
<1> QED BY <1>1, <1>3, <1>4, Took

\* The keys, an item at a time.
LEMMA RecvKeysMapSynch ==
  ASSUME TypesInv, InSynch, RecvKeysMap
  PROVE  InSynch'
<1>1. /\ rcall.at = "keys map" /\ stream # <<>> /\ stream' = Tail(stream)
      /\ UNCHANGED <<svars, closed, ractive, rtodo>> /\ IsCall(rcall)
  BY RcallIsCall DEF RecvKeysMap, Reads, ReadsOther
<1>2. ASSUME NEW a, NEW c, NEW f, Matches(a), Step(a, pending, Read, c, f)
      PROVE  Matches(c)' /\ pending' = f /\ misread' = FALSE /\ rcall'.at \notin Errors
  <2>1. a = Here
    BY <1>1, <1>2 DEF Matches
  <2>2. a.call = rcall /\ a.todo = rtodo /\ a.blocks = rblocks /\ a.active = ractive
    BY <2>1 DEF Here, Pos
  <2>3. KeysMapStep(a, Read, c) /\ f = pending
    <3> DEFINE h == Head(pending)
    <3>1. a.call.at = "keys map" /\ a.call.at # "client"
      BY <1>1, <2>2
    <3>2. \/ QuietStep(a, h, Read, c) /\ f = pending
          \/ TellingStep(a, h, Read, c) /\ f = Tail(pending)
      BY <1>2 DEF Step
    <3> HIDE DEF h
    <3> QED BY <3>1, <3>2, StepsFromCall
  <2>4. Read.kind = "map"
    BY <2>3, Kinds DEF KeysMapStep
  <2>5. /\ rblocks' = Pushed(Counted(rblocks, 1), "map", 0) /\ UNCHANGED <<pending, misread>>
        /\ rcall' = [rcall EXCEPT !.at = "keys name"]
    BY <2>4 DEF RecvKeysMap, Reads, ReadsOther, Read, GoTo
  <2>6. rcall' = At(rcall, "keys name")
    <3>1. rcall' = [at |-> "keys name", want |-> rcall.want, use |-> rcall.use,
                    name |-> rcall.name, pid |-> rcall.pid]
      BY <1>1, <2>5 DEF IsCall
    <3> QED BY <3>1 DEF At, Call
  <2>7. c = Here'
    BY <1>1, <2>2, <2>3, <2>5, <2>6 DEF KeysMapStep, Here
  <2>8. rcall'.at = "keys name"
    BY <2>6 DEF At, Call
  <2>9. misread' = FALSE
    BY <2>5 DEF InSynch
  <2> QED BY <2>3, <2>5, <2>7, <2>8, <2>9, MatchesInside
<1>3. rcall.at \notin Errors
  BY <1>1 DEF Errors
<1> QED BY <1>1, <1>2, <1>3, Took

\* The name in the map of keys.
LEMMA RecvKeysNameSynch ==
  ASSUME TypesInv, InSynch, RecvKeysName
  PROVE  InSynch'
<1>1. /\ rcall.at = "keys name" /\ stream # <<>> /\ stream' = Tail(stream)
      /\ UNCHANGED <<svars, closed, ractive, rtodo>> /\ IsCall(rcall)
  BY RcallIsCall DEF RecvKeysName, Reads, ReadsOther
<1>2. ASSUME NEW a, NEW c, NEW f, Matches(a), Step(a, pending, Read, c, f)
      PROVE  Matches(c)' /\ pending' = f /\ misread' = FALSE /\ rcall'.at \notin Errors
  <2>1. a = Here
    BY <1>1, <1>2 DEF Matches
  <2>2. a.call = rcall /\ a.todo = rtodo /\ a.blocks = rblocks /\ a.active = ractive
    BY <2>1 DEF Here, Pos
  <2>3. KeysNameStep(a, Read, c) /\ f = pending
    <3> DEFINE h == Head(pending)
    <3>1. a.call.at = "keys name" /\ a.call.at # "client"
      BY <1>1, <2>2
    <3>2. \/ QuietStep(a, h, Read, c) /\ f = pending
          \/ TellingStep(a, h, Read, c) /\ f = Tail(pending)
      BY <1>2 DEF Step
    <3> HIDE DEF h
    <3> QED BY <3>1, <3>2, StepsFromCall
  <2>4. Read.kind = "text"
    BY <2>3, Kinds DEF KeysNameStep
  <2>5. /\ rblocks' = Counted(rblocks, 1) /\ UNCHANGED <<pending, misread>>
        /\ rcall' = [rcall EXCEPT !.at = "keys pid", !.name = Read.name]
    BY <2>4 DEF RecvKeysName, Reads, ReadsOther, Read
  <2>6. rcall' = Call("keys pid", rcall.want, rcall.use, Read.name, rcall.pid)
    <3>1. rcall' = [at |-> "keys pid", want |-> rcall.want, use |-> rcall.use,
                    name |-> Read.name, pid |-> rcall.pid]
      BY <1>1, <2>5 DEF IsCall
    <3> QED BY <3>1 DEF Call
  <2>7. c = Here'
    BY <1>1, <2>2, <2>3, <2>5, <2>6 DEF KeysNameStep, Here
  <2>8. rcall'.at = "keys pid"
    BY <2>6 DEF Call
  <2>9. misread' = FALSE
    BY <2>5 DEF InSynch
  <2> QED BY <2>3, <2>5, <2>7, <2>8, <2>9, MatchesInside
<1>3. rcall.at \notin Errors
  BY <1>1 DEF Errors
<1> QED BY <1>1, <1>2, <1>3, Took

\* And its pid.
LEMMA RecvKeysPidSynch ==
  ASSUME TypesInv, InSynch, RecvKeysPid
  PROVE  InSynch'
<1>1. /\ rcall.at = "keys pid" /\ stream # <<>> /\ stream' = Tail(stream)
      /\ UNCHANGED <<svars, closed, ractive, rtodo>> /\ IsCall(rcall)
  BY RcallIsCall DEF RecvKeysPid, Reads, ReadsOther
<1>2. ASSUME NEW a, NEW c, NEW f, Matches(a), Step(a, pending, Read, c, f)
      PROVE  Matches(c)' /\ pending' = f /\ misread' = FALSE /\ rcall'.at \notin Errors
  <2>1. a = Here
    BY <1>1, <1>2 DEF Matches
  <2>2. a.call = rcall /\ a.todo = rtodo /\ a.blocks = rblocks /\ a.active = ractive
    BY <2>1 DEF Here, Pos
  <2>3. KeysPidStep(a, Read, c) /\ f = pending
    <3> DEFINE h == Head(pending)
    <3>1. a.call.at = "keys pid" /\ a.call.at # "client"
      BY <1>1, <2>2
    <3>2. \/ QuietStep(a, h, Read, c) /\ f = pending
          \/ TellingStep(a, h, Read, c) /\ f = Tail(pending)
      BY <1>2 DEF Step
    <3> HIDE DEF h
    <3> QED BY <3>1, <3>2, StepsFromCall
  <2>4. Read.kind = "uint"
    BY <2>3, Kinds DEF KeysPidStep
  <2>5. /\ rblocks' = Counted(rblocks, 1) /\ UNCHANGED <<pending, misread>>
        /\ rcall' = [rcall EXCEPT !.at = "keys end", !.pid = Read.n]
    BY <2>4 DEF RecvKeysPid, Reads, ReadsOther, Read
  <2>6. rcall' = Call("keys end", rcall.want, rcall.use, rcall.name, Read.n)
    <3>1. rcall' = [at |-> "keys end", want |-> rcall.want, use |-> rcall.use,
                    name |-> rcall.name, pid |-> Read.n]
      BY <1>1, <2>5 DEF IsCall
    <3> QED BY <3>1 DEF Call
  <2>7. c = Here'
    BY <1>1, <2>2, <2>3, <2>5, <2>6 DEF KeysPidStep, Here
  <2>8. rcall'.at = "keys end"
    BY <2>6 DEF Call
  <2>9. misread' = FALSE
    BY <2>5 DEF InSynch
  <2> QED BY <2>3, <2>5, <2>7, <2>8, <2>9, MatchesInside
<1>3. rcall.at \notin Errors
  BY <1>1 DEF Errors
<1> QED BY <1>1, <1>2, <1>3, Took

\* The name is one of the receiver's own.
LEMMA NameIsLearnt ==
  ASSUME NEW ns \in Namespaces, NEW name \in NamesIn(ns), NEW p
  PROVE  Learnt(ns, name, p) # {}
<1>1. RLids[ns] \in Seq(NamesIn(ns))
  BY SchemaAssumption
<1>2. PICK i \in 1..Len(RLids[ns]) : RLids[ns][i] = name
  BY SchemaAssumption
<1> DEFINE lid == i - 1
<1>3. Len(RLids[ns]) \in Nat
  BY <1>1, LenProperties
<1>4. lid \in 0..Len(RLids[ns]) - 1 /\ lid + 1 = i
  BY <1>2, <1>3
<1> HIDE DEF lid
<1>5. RName(ns, lid) = name
  BY <1>2, <1>4 DEF RName
<1>6. [Ensured(pid_to_lid[ns], p) EXCEPT ![p + 1] = lid] \in Learnt(ns, name, p)
  BY <1>4, <1>5 DEF Learnt
<1> QED BY <1>6

\* The end of that map: the search for the name does not fail.
LEMMA RecvKeysEndSynch ==
  ASSUME TypesInv, InSynch, RecvKeysEnd
  PROVE  InSynch'
<1>1. /\ rcall.at = "keys end" /\ stream # <<>> /\ stream' = Tail(stream)
      /\ UNCHANGED <<svars, closed, ractive, rtodo>> /\ IsCall(rcall)
  BY RcallIsCall DEF RecvKeysEnd, Reads, ReadsOther
<1>2. ASSUME NEW a, NEW c, NEW f, Matches(a), Step(a, pending, Read, c, f)
      PROVE  Matches(c)' /\ pending' = f /\ misread' = FALSE /\ rcall'.at \notin Errors
  <2>1. a = Here
    BY <1>1, <1>2 DEF Matches
  <2>2. a.call = rcall /\ a.todo = rtodo /\ a.blocks = rblocks /\ a.active = ractive
    BY <2>1 DEF Here, Pos
  <2>3. KeysEndStep(a, Read, c) /\ f = pending
    <3> DEFINE h == Head(pending)
    <3>1. a.call.at = "keys end" /\ a.call.at # "client"
      BY <1>1, <2>2
    <3>2. \/ QuietStep(a, h, Read, c) /\ f = pending
          \/ TellingStep(a, h, Read, c) /\ f = Tail(pending)
      BY <1>2 DEF Step
    <3> HIDE DEF h
    <3> QED BY <3>1, <3>2, StepsFromCall
  <2>4. Read.kind = "break"
    <3> DEFINE ns == NsOf(a.call, a.active)
               name == a.call.name
               p == a.call.pid
    <3>1. Read = BreakOfKeys(ns, name, p)
      BY <2>3 DEF KeysEndStep
    <3> HIDE DEF ns, name, p
    <3> QED BY <3>1, Kinds
  <2>5. Learnt(LookupNs, rcall.name, rcall.pid) # {}
    <3>1. LookupNs \in Namespaces
      BY <1>1, LookupNsIn DEF TypesInv, InKeys
    <3>2. rcall.name \in NamesIn(LookupNs)
      BY <2>2, <2>3 DEF KeysEndStep, NsOf, LookupNs
    <3> QED BY <3>1, <3>2, NameIsLearnt
  <2>6. /\ rblocks' = Popped(rblocks) /\ UNCHANGED <<pending, misread>>
        /\ rcall' = [rcall EXCEPT !.at = "id"]
    BY <2>4, <2>5 DEF RecvKeysEnd, Reads, ReadsOther, Read, GoTo
  <2>7. rcall' = At(rcall, "id")
    <3>1. rcall' = [at |-> "id", want |-> rcall.want, use |-> rcall.use,
                    name |-> rcall.name, pid |-> rcall.pid]
      BY <1>1, <2>6 DEF IsCall
    <3> QED BY <3>1 DEF At, Call
  <2>8. c = Here'
    BY <1>1, <2>2, <2>3, <2>6, <2>7 DEF KeysEndStep, Here
  <2>9. rcall'.at = "id"
    BY <2>7 DEF At, Call
  <2>10. misread' = FALSE
    BY <2>6 DEF InSynch
  <2> QED BY <2>3, <2>6, <2>8, <2>9, <2>10, MatchesInside
<1>3. rcall.at \notin Errors
  BY <1>1 DEF Errors
<1> QED BY <1>1, <1>2, <1>3, Took

\* A pid found is one of a name the receiver has entered.
LEMMA PidIsKnown ==
  ASSUME TypesInv, NamesInv, stream # <<>>, NEW ns, ns \in Namespaces, NEW name,
         Read = PidOf(ns, name, Read.n)
  PROVE  ~Reported(ns, Read.n) /\ RName(ns, Lookup(ns, Read.n)) = name
<1> DEFINE p == Read.n
           r == PidOf(ns, name, p)
<1>1. /\ r.meant.act = "use" /\ r.meant.ns = ns /\ r.meant.name = name /\ r.meant.pid = p
  BY DEF PidOf, Item
<1>2. /\ Read.meant.act = "use" /\ Read.meant.ns = ns /\ Read.meant.name = name
      /\ Read.meant.pid = p
  <2> HIDE DEF r
  <2>1. Read = r
    BY DEF r
  <2> HIDE DEF p
  <2> QED BY <1>1, <2>1
<1>3. IsSeq(stream) /\ UsesStand(pid_to_lid, stream) /\ p \in Nat /\ Len(pid_to_lid[ns]) \in Nat
  <2>1. p \in Nat
    BY ReadNat DEF TypesInv
  <2>2. Len(pid_to_lid[ns]) \in Nat
    BY LenProperties DEF TypesInv, LidsOK
  <2> QED BY <2>1, <2>2 DEF TypesInv, StreamOK, NatItems, NamesInv
<1> HIDE DEF p
<1>4. Known(pid_to_lid, ns, p, name)
  BY <1>2, <1>3, HeadIsKnown DEF Read
<1>5. ~Reported(ns, p) /\ RName(ns, Lookup(ns, p)) = name
  BY <1>3, <1>4 DEF Known, Reported, Lookup
<1> QED BY <1>5 DEF p

\* Pid 0 is known without having been announced.
LEMMA ZeroIsKnown ==
  ASSUME TypesInv, NamesInv
  PROVE  ~Reported(GroupsNs, 0) /\ Lookup(GroupsNs, 0) = 0
<1>1. Len(pid_to_lid[GroupsNs]) \in Nat
  BY LenProperties DEF TypesInv, LidsOK, Namespaces
<1>2. 0 < Len(pid_to_lid[GroupsNs]) => pid_to_lid[GroupsNs][1] = 0
  BY <1>1 DEF NamesInv, ZeroIsZero, Namespaces
<1>3. 0 + 1 = 1
  OBVIOUS
<1> QED BY <1>1, <1>2, <1>3 DEF Reported, Lookup

\* The client is told what was said.
LEMMA DeliverIsNext ==
  ASSUME InSynch, pending # <<>>, NEW w, w = Head(pending), Deliver(w)
  PROVE  misread' = FALSE /\ pending' = Tail(pending)
BY DEF InSynch, Deliver

\* The receiver is between two calls again, with something due or in a group.
LEMMA MatchesClient ==
  ASSUME NEW c, c = ArrayClosed(Here'), rcall'.at = "client"
  PROVE  Matches(c)' /\ rcall'.at \notin Errors
<1>1. rcall'.at \notin Errors
  BY DEF Errors
<1>2. ArrayClosed(Here)' = ArrayClosed(Here')
  BY DEF ArrayClosed
<1> QED BY <1>1, <1>2 DEF Matches

\* What recv_id finds when a group's ID is looked for.
LEMMA RecvIdGroupSynch ==
  ASSUME TypesInv, NamesInv, InSynch, RecvId, stream # <<>>, NEW a, NEW c, NEW h, h = Head(pending),
         pending # <<>>,
         a.call = rcall, a.todo = rtodo, a.blocks = rblocks, a.active = ractive,
         rcall.at = "id", GroupStep(a, h, Read, c)
  PROVE  Matches(c)' /\ pending' = Tail(pending) /\ misread' = FALSE /\ rcall'.at \notin Errors
<1> DEFINE g == rcall.want
           lid == Lookup(GroupsNs, Read.n)
<1>1. /\ rcall.use = "group" /\ h = Said("group", g, 0) /\ Read = PidOf(GroupsNs, g, Read.n)
      /\ Read.n > 1
      /\ c = Pos(Idle, EnterGroup(rtodo, g), WithGroup(Counted(rblocks, 1), g), g)
  BY DEF GroupStep
<1>2. ~Reported(GroupsNs, Read.n) /\ RName(GroupsNs, lid) = g
  <2>1. GroupsNs \in Namespaces
    BY DEF Namespaces
  <2> HIDE DEF g
  <2> QED BY <1>1, <2>1, PidIsKnown
<1>3. LookupNs = GroupsNs
  BY <1>1 DEF LookupNs
<1>4. Read.kind = "uint" /\ Read.n # 1
  <2>1. Read.n \in Nat
    BY ReadNat DEF TypesInv
  <2> HIDE DEF g
  <2> QED BY <1>1, <2>1, Kinds
<1>5. IdGroup(lid)
  <2>1. IdKey0(lid) \/ IdGroup(lid) \/ IdAttr(lid)
    <3> HIDE DEF lid, g
    <3>1. LET l == Lookup(LookupNs, Read.n) IN IdKey0(l) \/ IdGroup(l) \/ IdAttr(l)
      BY <1>2, <1>3, <1>4 DEF RecvId, Reads, ReadsOther, Read
    <3> QED BY <1>3, <3>1 DEF lid
  <2>2. ~IdKey0(lid)
    BY <1>1 DEF IdKey0
  <2>3. ~IdAttr(lid)
    BY <1>1 DEF IdAttr
  <2> QED BY <2>1, <2>2, <2>3
<1> HIDE DEF lid
<1>6. /\ ractive' = g /\ rblocks' = WithGroup(Counted(rblocks, 1), g)
      /\ rtodo' = EnterGroup(rtodo, g) /\ Deliver(Said("group", g, 0)) /\ Return
  BY <1>2, <1>5 DEF IdGroup
<1>7. misread' = FALSE /\ pending' = Tail(pending)
  BY <1>1, <1>6, DeliverIsNext
<1>8. rcall' = Idle /\ rcall'.at = "client"
  BY <1>6 DEF Return, Idle
<1>9. c = Here'
  BY <1>1, <1>6, <1>8 DEF Here
<1>10. ArrayClosed(Here') = Here'
  <2>1. IsSeq(Begun(rtodo))
    BY <1>1 DEF TypesInv, ReceiverInv, ReceiverOK, AskOK, EndOK, ProperFrames
  <2>2. Top(rtodo') = Frame("group", g, Value, 0) /\ rtodo' # <<>>
    BY <1>6, <2>1, AppendFacts DEF EnterGroup
  <2>3. InGroup(rtodo')
    BY <2>2 DEF InGroup, Frame
  <2>4. ArrayClosed(Pos(rcall', rtodo', rblocks', ractive')) = Pos(rcall', rtodo', rblocks', ractive')
    BY <2>3, NotAtArrayEnd
  <2> QED BY <2>4 DEF Here
<1> QED BY <1>7, <1>8, <1>9, <1>10, MatchesClient

\* And when an attribute's is.
LEMMA RecvIdAttrSynch ==
  ASSUME TypesInv, NamesInv, InSynch, RecvId, stream # <<>>, NEW a, NEW c, NEW h, h = Head(pending),
         pending # <<>>,
         a.call = rcall, a.todo = rtodo, a.blocks = rblocks, a.active = ractive,
         CallOf(a) = rcall, rcall.at = "id", AttrStep(a, h, Read, c)
  PROVE  Matches(c)' /\ pending' = Tail(pending) /\ misread' = FALSE /\ rcall'.at \notin Errors
<1> DEFINE lid == Lookup(ractive, Read.n)
           x == h.name
<1>1. /\ rcall.use = "attr" /\ h = Said("attr", x, 0) /\ Read = PidOf(ractive, x, Read.n)
      /\ Read.n > 1
      /\ c = Pos(Idle, EnterAttr(rtodo, ractive, x), Counted(rblocks, 1), ractive)
  BY DEF AttrStep
<1>2. LookupNs = ractive /\ ractive \in Namespaces
  <2>1. LookupNs \in Namespaces
    BY LookupNsIn DEF TypesInv
  <2> QED BY <1>1, <2>1 DEF LookupNs
<1> HIDE DEF x
<1>3. ~Reported(ractive, Read.n) /\ RName(ractive, lid) = x
  BY <1>1, <1>2, PidIsKnown
<1>4. Read.kind = "uint" /\ Read.n # 1
  <2>1. Read.n \in Nat
    BY ReadNat DEF TypesInv
  <2> QED BY <1>1, <2>1, Kinds
<1>5. IdAttr(lid)
  <2>1. IdKey0(lid) \/ IdGroup(lid) \/ IdAttr(lid)
    <3> HIDE DEF lid
    <3>1. LET l == Lookup(LookupNs, Read.n) IN IdKey0(l) \/ IdGroup(l) \/ IdAttr(l)
      BY <1>2, <1>3, <1>4 DEF RecvId, Reads, ReadsOther, Read
    <3> QED BY <1>2, <3>1 DEF lid
  <2>2. ~IdKey0(lid)
    BY <1>1 DEF IdKey0
  <2>3. ~IdGroup(lid)
    BY <1>1 DEF IdGroup
  <2> QED BY <2>1, <2>2, <2>3
<1> HIDE DEF lid
<1>6. /\ ractive' = ractive /\ rblocks' = Counted(rblocks, 1)
      /\ rtodo' = EnterAttr(rtodo, ractive, x) /\ Deliver(Said("attr", x, 0)) /\ Return
  BY <1>3, <1>5 DEF IdAttr
<1>7. misread' = FALSE /\ pending' = Tail(pending)
  BY <1>1, <1>6, DeliverIsNext
<1>8. rcall' = Idle /\ rcall'.at = "client"
  BY <1>6 DEF Return, Idle
<1>9. c = Here'
  BY <1>1, <1>6, <1>8 DEF Here
<1>10. ArrayClosed(Here') = Here'
  <2>1. IsSeq(rtodo)
    BY <1>1 DEF TypesInv, ReceiverInv, ReceiverOK, AskOK, EndOK, ProperFrames
  <2>2. Top(rtodo') = Frame("attr", ractive, Type[ractive][x], 1) /\ rtodo' # <<>>
    BY <1>6, <2>1, AppendFacts DEF EnterAttr
  <2>3. InAttr(rtodo')
    BY <2>2 DEF InAttr, Frame
  <2>4. ArrayClosed(Pos(rcall', rtodo', rblocks', ractive')) = Pos(rcall', rtodo', rblocks', ractive')
    BY <2>3, NotAtArrayEnd
  <2> QED BY <2>4 DEF Here
<1> QED BY <1>7, <1>8, <1>9, <1>10, MatchesClient

\* recv_id: keys, pid 0 or the pid of a name.
LEMMA RecvIdSynch ==
  ASSUME TypesInv, NamesInv, InSynch, RecvId
  PROVE  InSynch'
<1>1. /\ rcall.at = "id" /\ stream # <<>> /\ stream' = Tail(stream)
      /\ UNCHANGED <<svars, closed>> /\ IsCall(rcall)
  BY RcallIsCall DEF RecvId, Reads, ReadsOther
<1>2. ASSUME NEW a, NEW c, NEW f, Matches(a), Step(a, pending, Read, c, f)
      PROVE  Matches(c)' /\ pending' = f /\ misread' = FALSE /\ rcall'.at \notin Errors
  <2> DEFINE h == Head(pending)
  <2>1. a = Here
    BY <1>1, <1>2 DEF Matches
  <2>2. a.call = rcall /\ a.todo = rtodo /\ a.blocks = rblocks /\ a.active = ractive
    BY <2>1 DEF Here, Pos
  <2>3. /\ IsSeq(pending) /\ pending # <<>>
        /\ \/ QuietStep(a, h, Read, c) /\ f = pending
           \/ TellingStep(a, h, Read, c) /\ f = Tail(pending)
    BY <1>2 DEF Step
  <2> HIDE DEF h
  <2>4. a.call.at = "id" /\ a.call.at # "client"
    BY <1>1, <2>2
  <2>5. /\ CallOf(a) = rcall
        /\ \/ KeysStep(a, Read, c) \/ ZeroStep(a, Read, c)
           \/ GroupStep(a, h, Read, c) \/ AttrStep(a, h, Read, c)
    BY <2>2, <2>3, <2>4, StepsFromCall
  <2>6. misread = FALSE
    BY DEF InSynch
  <2>7. CASE KeysStep(a, Read, c)
    <3>1. Read = Uint(1) /\ c = Pos(At(rcall, "keys map"), rtodo, Counted(rblocks, 1), ractive)
      BY <2>2, <2>5, <2>7 DEF KeysStep
    <3>2. Read.kind = "uint" /\ Read.n = 1
      BY <3>1, Kinds
    <3>3. /\ rblocks' = Counted(rblocks, 1) /\ rcall' = [rcall EXCEPT !.at = "keys map"]
          /\ UNCHANGED <<ractive, rtodo, pending, misread>>
      BY <3>2 DEF RecvId, Reads, ReadsOther, Read, GoTo
    <3>4. rcall' = At(rcall, "keys map")
      <4>1. rcall' = [at |-> "keys map", want |-> rcall.want, use |-> rcall.use,
                      name |-> rcall.name, pid |-> rcall.pid]
        BY <1>1, <3>3 DEF IsCall
      <4> QED BY <4>1 DEF At, Call
    <3>5. c = Here' /\ rcall'.at = "keys map"
      <4>1. rcall'.at = "keys map"
        BY <3>4 DEF At, Call
      <4> QED BY <3>1, <3>3, <3>4, <4>1 DEF Here
    <3>6. f = pending
      <4>1. ~TellingStep(a, h, Read, c)
        <5>4. ~GroupStep(a, h, Read, c) /\ ~AttrStep(a, h, Read, c)
          <6>1. ~(Read.n > 1)
            BY <3>2
          <6> QED BY <6>1 DEF GroupStep, AttrStep
        <5>5. a.call # Idle
          BY <2>4 DEF Idle
        <5> QED BY <5>4, <5>5 DEF TellingStep, EndStep, ValueStep, ArrayStep
      <4> QED BY <2>3, <4>1
    <3> QED BY <2>6, <3>3, <3>5, <3>6, MatchesInside
  <2>8. CASE ZeroStep(a, Read, c)
    <3>1. /\ Read = Uint(0) /\ rcall.use = "key 0"
          /\ c = Pos(Call("id", rcall.want, "group", rcall.name, rcall.pid), rtodo,
                     Counted(rblocks, 1), ractive)
      BY <2>2, <2>8 DEF ZeroStep
    <3>2. Read.kind = "uint" /\ Read.n = 0 /\ Read.n # 1
      <4>1. Read = Uint(0)
        BY <3>1
      <4>2. Read.kind = "uint" /\ Read.n = 0
        BY <4>1, Kinds
      <4> QED BY <4>2
    <3>3. LookupNs = GroupsNs
      BY <3>1 DEF LookupNs
    <3>4. IdKey0(0)
      <4>1. ~Reported(GroupsNs, 0) /\ Lookup(GroupsNs, 0) = 0
        BY ZeroIsKnown
      <4>2. IdKey0(0) \/ IdGroup(0) \/ IdAttr(0)
        <5>1. LET l == Lookup(LookupNs, Read.n) IN IdKey0(l) \/ IdGroup(l) \/ IdAttr(l)
          <6>1. ~Reported(LookupNs, Read.n)
            BY <3>2, <3>3, <4>1
          <6> QED BY <3>2, <6>1 DEF RecvId, Reads, ReadsOther, Read
        <5> QED BY <3>2, <3>3, <4>1, <5>1
      <4>3. ~IdGroup(0) /\ ~IdAttr(0)
        BY <3>1 DEF IdGroup, IdAttr
      <4> QED BY <4>2, <4>3
    <3>5. /\ rblocks' = Counted(rblocks, 1) /\ rcall' = [rcall EXCEPT !.use = "group"]
          /\ UNCHANGED <<ractive, rtodo, pending, misread>>
      BY <3>4 DEF IdKey0
    <3>6. rcall' = Call("id", rcall.want, "group", rcall.name, rcall.pid)
      <4>1. rcall' = [at |-> rcall.at, want |-> rcall.want, use |-> "group",
                      name |-> rcall.name, pid |-> rcall.pid]
        BY <1>1, <3>5 DEF IsCall
      <4> QED BY <1>1, <4>1 DEF Call
    <3>7. c = Here' /\ rcall'.at = "id"
      <4>1. rcall'.at = "id"
        BY <3>6 DEF Call
      <4> QED BY <3>1, <3>5, <3>6, <4>1 DEF Here
    <3>8. f = pending
      <4>1. ~TellingStep(a, h, Read, c)
        <5>1. a.call # Idle
          BY <2>4 DEF Idle
        <5>2. ~GroupStep(a, h, Read, c) /\ ~AttrStep(a, h, Read, c)
          BY <2>2, <2>5, <3>1 DEF GroupStep, AttrStep
        <5> QED BY <5>1, <5>2 DEF TellingStep, EndStep, ValueStep, ArrayStep
      <4> QED BY <2>3, <4>1
    <3> QED BY <2>6, <3>5, <3>7, <3>8, MatchesInside
  <2>9. ASSUME GroupStep(a, h, Read, c) \/ AttrStep(a, h, Read, c)
        PROVE  f = Tail(pending)
    <3>1. ~KeysStep(a, Read, c) /\ ~ZeroStep(a, Read, c)
      <4>1. Read.n > 1 /\ Read.n \in Nat
        <5>1. Read.n \in Nat
          BY <1>1, ReadNat DEF TypesInv
        <5> QED BY <2>9, <5>1 DEF GroupStep, AttrStep
      <4>2. Read # Uint(1) /\ Read # Uint(0)
        BY <4>1, Kinds
      <4> QED BY <4>2 DEF KeysStep, ZeroStep
    <3>2. a.call # Idle
      BY <2>4 DEF Idle
    <3>3. ~QuietStep(a, h, Read, c)
      <4>1. ~KeysMapStep(a, Read, c) /\ ~KeysNameStep(a, Read, c) /\ ~KeysPidStep(a, Read, c)
            /\ ~KeysEndStep(a, Read, c) /\ ~MapStep(a, h, Read, c)
        BY <2>4, <3>2 DEF KeysMapStep, KeysNameStep, KeysPidStep, KeysEndStep, MapStep
      <4> QED BY <3>1, <4>1 DEF QuietStep
    <3> QED BY <2>3, <3>3
  <2>10. CASE GroupStep(a, h, Read, c)
    <3>1. f = Tail(pending)
      BY <2>9, <2>10
    <3>2. h = Head(pending)
      BY DEF h
    <3>3. Matches(c)' /\ pending' = Tail(pending) /\ misread' = FALSE /\ rcall'.at \notin Errors
      BY <1>1, <2>2, <2>3, <2>10, <3>2, RecvIdGroupSynch
    <3> QED BY <3>1, <3>3
  <2>11. CASE AttrStep(a, h, Read, c)
    <3>1. f = Tail(pending)
      BY <2>9, <2>11
    <3>2. h = Head(pending)
      BY DEF h
    <3>3. Matches(c)' /\ pending' = Tail(pending) /\ misread' = FALSE /\ rcall'.at \notin Errors
      BY <1>1, <2>2, <2>3, <2>5, <2>11, <3>2, RecvIdAttrSynch
    <3> QED BY <3>1, <3>3
  <2> QED BY <2>5, <2>7, <2>8, <2>10, <2>11
<1>3. rcall.at \notin Errors
  BY <1>1 DEF Errors
<1> QED BY <1>1, <1>2, <1>3, Took

\* In a group nothing is due, and where something is due no group is being gone through.
LEMMA InGroupNothingDue ==
  ASSUME NEW todo, NEW blocks, NEW active, EndOK(todo, blocks, active), InGroup(todo)
  PROVE  Due(todo) = {} /\ ~AtArrayEnd(todo)
<1>1. Due(todo) = {}
  BY DueIsBegun
<1>2. ~AtArrayEnd(todo)
  BY DEF InGroup, AtArrayEnd
<1> QED BY <1>1, <1>2

\* nb_recv_attr peeks and goes on to the ID, or to the end of the group.
LEMMA RecvAttrSynch ==
  ASSUME TypesInv, InSynch, RecvAttr
  PROVE  InSynch'
<1>1. /\ rcall.at = "client" /\ rcall = Idle /\ IsCall(rcall) /\ InGroup(rtodo)
      /\ UNCHANGED <<svars, stream, closed, rblocks, ractive, rtodo, pending, misread>>
  BY RcallIsCall DEF RecvAttr, AtClient
<1>2. EndOK(rtodo, rblocks, ractive) /\ Due(rtodo) = {} /\ ractive # NoGroup
  <2>1. EndOK(rtodo, rblocks, ractive)
    BY <1>1 DEF TypesInv, ReceiverInv, ReceiverOK
  <2>2. ractive \in Groups
    BY <1>1, <2>1, EndTop
  <2> QED BY <1>1, <2>1, <2>2, InGroupNothingDue, SchemaAssumption
<1>3. ArrayClosed(Here) = Here /\ Here = HereIdle
  <2>1. ArrayClosed(Here) = Here
    BY <1>1, NotAtArrayEnd DEF Here
  <2> QED BY <1>1, <2>1 DEF Here, HereIdle
<1>4. HereIdle' = HereIdle
  BY <1>1 DEF HereIdle
<1>5. rcall.at \notin Errors
  BY <1>1 DEF Errors
<1>6. CASE AtBreak
  <2>1. rcall'.at = "group end"
    <3>1. rcall' = [rcall EXCEPT !.at = "group end"]
      BY <1>6 DEF RecvAttr, GoTo
    <3>2. rcall' = [at |-> "group end", want |-> rcall.want, use |-> rcall.use,
                    name |-> rcall.name, pid |-> rcall.pid]
      BY <1>1, <3>1 DEF IsCall
    <3> QED BY <3>2
  <2>2. stream' # <<>> /\ Read'.kind = "break"
    <3>1. Read' = Read
      BY <1>1 DEF Read
    <3> QED BY <1>1, <1>6, <3>1 DEF AtBreak
  <2>3. ASSUME NEW a, Matches(a) PROVE Matches(a)'
    <3>1. a = HereIdle'
      BY <1>1, <1>3, <1>4, <2>3 DEF Matches
    <3> QED BY <2>1, <2>2, <3>1 DEF Matches
  <2>4. rcall'.at \notin Errors
    BY <2>1 DEF Errors
  <2> QED BY <1>1, <1>5, <2>3, <2>4, Moved
<1>7. CASE stream = <<>>
  <2>1. rcall'.at = "id"
    <3>1. rcall' = [rcall EXCEPT !.at = "id", !.use = "attr"]
      BY <1>2, <1>7 DEF RecvAttr, AtBreak
    <3>2. rcall' = [at |-> "id", want |-> rcall.want, use |-> "attr",
                    name |-> rcall.name, pid |-> rcall.pid]
      BY <1>1, <3>1 DEF IsCall
    <3> QED BY <3>2
  <2>2. PICK a : Matches(a) /\ Leads(a)
    BY <1>5 DEF InSynch
  <2>3. PICK b, e :
          /\ Path(<<>>, a, pending, b, e)
          /\ closed # "crashed" => b = ArrayClosed(There) /\ e = <<>>
    BY <1>7, <2>2 DEF Leads
  <2>4. b = a /\ e = pending
    BY <2>3, PathNowhere
  <2>5. a = Here
    BY <1>1, <1>3, <2>2 DEF Matches
  <2>6. closed = "crashed"
    <3> SUFFICES ASSUME closed # "crashed" PROVE FALSE
      OBVIOUS
    <3>1. stodo = <<>>
      BY <1>7 DEF TypesInv, SenderInv, RecvAttr
    <3>2. ArrayClosed(There) = There
      BY <3>1, NotAtArrayEnd DEF There
    <3>3. a.todo = <<>>
      BY <2>3, <2>4, <3>1, <3>2 DEF There, Pos
    <3>4. a.todo = rtodo
      BY <2>5 DEF Here, Pos
    <3> QED BY <1>1, <3>3, <3>4 DEF InGroup
  <2>7. PICK c : c = Here'
    OBVIOUS
  <2>8. Matches(c)'
    BY <2>1, <2>7, MatchesInside
  <2>9. Leads(c)'
    <3>1. \E x, y : Path(<<>>, c, pending, x, y)
      BY PathEmpty
    <3>2. stream' = <<>> /\ pending' = pending /\ closed' = "crashed"
      BY <1>1, <1>7, <2>6
    <3> QED BY <3>1, <3>2 DEF Leads
  <2>10. rcall'.at \notin Errors
    BY <2>1 DEF Errors
  <2> QED BY <1>1, <1>5, <2>8, <2>9, <2>10 DEF InSynch
<1>8. CASE stream # <<>> /\ ~AtBreak
  <2>1. rcall' = AttrCall /\ rcall'.at = "id"
    <3>1. rcall' = [rcall EXCEPT !.at = "id", !.use = "attr"]
      BY <1>2, <1>8 DEF RecvAttr
    <3>2. rcall' = [at |-> "id", want |-> rcall.want, use |-> "attr",
                    name |-> rcall.name, pid |-> rcall.pid]
      BY <1>1, <3>1 DEF IsCall
    <3>3. rcall.want = NoGroup /\ rcall.name = NoName /\ rcall.pid = 0
      BY <1>1 DEF Idle
    <3> QED BY <3>2, <3>3 DEF AttrCall
  <2>2. stream # <<>> /\ Read.kind # "break"
    BY <1>8 DEF AtBreak, RecvAttr
  <2>3. PICK a : Matches(a) /\ Leads(a)
    BY <1>5 DEF InSynch
  <2>4. a = Here
    BY <1>1, <1>3, <2>3 DEF Matches
  <2>5. a.call = Idle /\ a.todo = rtodo /\ a.blocks = rblocks /\ a.active = ractive
    BY <1>1, <2>4 DEF Here, Pos
  <2>c. PICK c : c = Here'
    OBVIOUS
  <2>6. c.call = AttrCall /\ c.todo = rtodo /\ c.blocks = rblocks /\ c.active = ractive
    BY <1>1, <2>1, <2>c DEF Here, Pos
  <2>7. CallOf(a) = AttrCall /\ CallOf(c) = AttrCall
    <3>1. AttrCall # Idle
      BY DEF AttrCall, Idle
    <3> QED BY <1>1, <2>5, <2>6, <3>1 DEF CallOf
  <2>8. ASSUME NEW x, NEW f, Step(a, pending, Head(stream), x, f)
        PROVE  Step(c, pending, Head(stream), x, f)
    <3> DEFINE h == Head(pending)
    <3>1. /\ IsSeq(pending) /\ pending # <<>>
          /\ \/ QuietStep(a, h, Read, x) /\ f = pending
             \/ TellingStep(a, h, Read, x) /\ f = Tail(pending)
      BY <2>8 DEF Step, Read
    <3> HIDE DEF h
    <3>2. InGroup(a.todo) /\ Due(a.todo) = {}
      BY <1>1, <1>2, <2>5
    <3>3. ~EndStep(a, h, Read, x)
      BY <2>2, Kinds DEF EndStep
    <3>4. KeysStep(a, Read, x) \/ AttrStep(a, h, Read, x)
      BY <2>5, <3>1, <3>2, <3>3, StepsFromClient
    <3>5. KeysStep(a, Read, x) => KeysStep(c, Read, x)
      BY <2>5, <2>6, <2>7 DEF KeysStep
    <3>6. AttrStep(a, h, Read, x) => AttrStep(c, h, Read, x)
      BY <2>5, <2>6, <2>7 DEF AttrStep
    <3>7. CASE QuietStep(a, h, Read, x) /\ f = pending
      <4>1. KeysStep(a, Read, x)
        <5>1. a.call.at = "client"
          BY <2>5 DEF Idle
        <5>2. /\ ~KeysMapStep(a, Read, x) /\ ~KeysNameStep(a, Read, x)
              /\ ~KeysPidStep(a, Read, x) /\ ~KeysEndStep(a, Read, x) /\ ~ZeroStep(a, Read, x)
          BY <5>1 DEF KeysMapStep, KeysNameStep, KeysPidStep, KeysEndStep, ZeroStep
        <5>3. ~MapStep(a, h, Read, x)
          BY <3>2 DEF MapStep
        <5> QED BY <3>7, <5>2, <5>3 DEF QuietStep
      <4> QED BY <3>1, <3>5, <3>7, <4>1 DEF Step, QuietStep, Read, h
    <3>8. CASE TellingStep(a, h, Read, x) /\ f = Tail(pending)
      <4>1. AttrStep(a, h, Read, x)
        <5>1. ~ValueStep(a, h, Read, x) /\ ~ArrayStep(a, h, Read, x)
          BY <3>2 DEF ValueStep, ArrayStep
        <5>2. ~GroupStep(a, h, Read, x)
          <6>1. a.call.at = "client"
            BY <2>5 DEF Idle
          <6> QED BY <6>1 DEF GroupStep
        <5> QED BY <3>3, <3>8, <5>1, <5>2 DEF TellingStep
      <4> QED BY <3>1, <3>6, <3>8, <4>1 DEF Step, TellingStep, Read, h
    <3> QED BY <3>1, <3>7, <3>8
  <2>9. PICK b, e :
          /\ Path(stream, a, pending, b, e)
          /\ closed # "crashed" => b = ArrayClosed(There) /\ e = <<>>
    BY <2>3 DEF Leads
  <2>10. Path(stream, c, pending, b, e)
    <3>1. IsSeq(stream)
      BY DEF TypesInv, StreamOK, NatItems
    <3> QED BY <2>2, <2>8, <2>9, <3>1, PathFrom
  <2>11. Leads(c)'
    <3>1. There' = There
      BY <1>1 DEF svars, There
    <3>2. Path(stream', c, pending', b, e)
      BY <1>1, <2>10
    <3> QED BY <1>1, <2>9, <3>1, <3>2 DEF Leads
  <2>12. Matches(c)' /\ rcall'.at \notin Errors
    BY <2>1, <2>c, MatchesInside
  <2>13. misread' = FALSE
    BY <1>1 DEF InSynch
  <2> QED BY <2>11, <2>12, <2>13 DEF InSynch
<1> QED BY <1>6, <1>7, <1>8

\* nb_recv_group_end takes the break.
LEMMA RecvGroupEndSynch ==
  ASSUME TypesInv, InSynch, RecvGroupEnd
  PROVE  InSynch'
<1>1. /\ rcall.at = "group end" /\ IsCall(rcall) /\ UNCHANGED <<svars, closed>>
  BY RcallIsCall DEF RecvGroupEnd
<1>2. /\ EndOK(rtodo, rblocks, ractive) /\ InGroup(rtodo) /\ Due(rtodo) = {}
      /\ Top(rblocks).group # NoGroup /\ Top(rblocks).type = "map"
  <2>1. EndOK(rtodo, rblocks, ractive) /\ InGroup(rtodo)
    BY <1>1 DEF TypesInv, ReceiverInv, ReceiverOK
  <2>2. ractive \in Groups /\ Top(rblocks).type = "map" /\ Top(rblocks).group = ractive
    BY <2>1, EndTop DEF EndOK
  <2> QED BY <2>1, <2>2, InGroupNothingDue, SchemaAssumption
<1>3. /\ stream # <<>> /\ Read.kind = "break" /\ stream' = Tail(stream)
      /\ rblocks' = Popped(rblocks) /\ rtodo' = Popped(rtodo)
      /\ ractive' = Top(Popped(rblocks)).group
      /\ Deliver(Said("group end", NoName, 0)) /\ Return
  BY <1>2 DEF RecvGroupEnd, Reads, Read
<1>4. rcall' = Idle /\ rcall'.at = "client"
  BY <1>3 DEF Return, Idle
<1>5. ASSUME NEW a, NEW c, NEW f, Matches(a), Step(a, pending, Read, c, f)
      PROVE  Matches(c)' /\ pending' = f /\ misread' = FALSE /\ rcall'.at \notin Errors
  <2> DEFINE h == Head(pending)
  <2>1. a = HereIdle
    BY <1>1, <1>5 DEF Matches
  <2>2. a.call = Idle /\ a.todo = rtodo /\ a.blocks = rblocks /\ a.active = ractive
    BY <2>1 DEF HereIdle, Pos
  <2>3. /\ IsSeq(pending) /\ pending # <<>>
        /\ \/ QuietStep(a, h, Read, c) /\ f = pending
           \/ TellingStep(a, h, Read, c) /\ f = Tail(pending)
    BY <1>5 DEF Step
  <2> HIDE DEF h
  <2>4. ~KeysStep(a, Read, c) /\ ~AttrStep(a, h, Read, c)
    <3>1. Read.kind # "uint"
      BY <1>3
    <3>2. \A n : Read # Uint(n)
      BY <3>1, Kinds
    <3>3. \A ns, name, p : Read # PidOf(ns, name, p)
      BY <3>1, Kinds
    <3> QED BY <3>2, <3>3 DEF KeysStep, AttrStep
  <2>5. EndStep(a, h, Read, c) /\ f = Tail(pending)
    BY <1>2, <2>2, <2>3, <2>4, StepsFromClient
  <2>6. h = Said("group end", NoName, 0)
        /\ c = ArrayClosed(Pos(Idle, Popped(rtodo), Popped(rblocks), Top(Popped(rblocks)).group))
    BY <2>2, <2>5 DEF EndStep
  <2>7. misread' = FALSE /\ pending' = Tail(pending)
    BY <1>3, <2>3, <2>6, DeliverIsNext DEF h
  <2>8. c = ArrayClosed(Here')
    BY <1>3, <1>4, <2>6 DEF Here
  <2> QED BY <1>4, <2>5, <2>7, <2>8, MatchesClient
<1>6. rcall.at \notin Errors
  BY <1>1 DEF Errors
<1> QED BY <1>1, <1>3, <1>5, <1>6, Took

\* The client receives a value.
LEMMA RecvValueSynch ==
  ASSUME TypesInv, InSynch, RecvValue
  PROVE  InSynch'
<1>1. /\ rcall.at = "client" /\ rcall = Idle /\ UNCHANGED <<svars, closed>>
      /\ Value \in Due(rtodo) /\ stream # <<>> /\ stream' = Tail(stream) /\ ractive' = ractive
  BY RcallIsCall DEF RecvValue, AtClient, Reads, ReadsOther
<1>2. ~InGroup(rtodo) /\ ArrayClosed(Here) = Here
  <2>1. EndOK(rtodo, rblocks, ractive)
    BY <1>1 DEF TypesInv, ReceiverInv, ReceiverOK
  <2> QED BY <1>1, <2>1, DueIsBegun, NotAtArrayEnd DEF Here
<1>3. ASSUME NEW a, NEW c, NEW f, Matches(a), Step(a, pending, Read, c, f)
      PROVE  Matches(c)' /\ pending' = f /\ misread' = FALSE /\ rcall'.at \notin Errors
  <2> DEFINE h == Head(pending)
  <2>1. a = Here
    BY <1>1, <1>2, <1>3 DEF Matches
  <2>2. a.call = Idle /\ a.todo = rtodo /\ a.blocks = rblocks /\ a.active = ractive
    BY <1>1, <2>1 DEF Here, Pos
  <2>3. /\ IsSeq(pending) /\ pending # <<>>
        /\ \/ QuietStep(a, h, Read, c) /\ f = pending
           \/ TellingStep(a, h, Read, c) /\ f = Tail(pending)
    BY <1>3 DEF Step
  <2> HIDE DEF h
  <2>4. ~MapStep(a, h, Read, c) /\ ~ArrayStep(a, h, Read, c)
    BY <1>1, <2>2, DueOne DEF MapStep, ArrayStep
  <2>5. ValueStep(a, h, Read, c) /\ f = Tail(pending)
    BY <1>2, <2>2, <2>3, <2>4, StepsFromClient
  <2>6. /\ Read = Uint(Read.n) /\ h = Said("value", NoName, Read.n)
        /\ c = ArrayClosed(Pos(Idle, Begun(rtodo), Counted(rblocks, 1), ractive))
    BY <2>2, <2>5 DEF ValueStep
  <2>7. Read.kind = "uint"
    <3> DEFINE n == Read.n
    <3>1. Read = Uint(n)
      BY <2>6
    <3> HIDE DEF n
    <3> QED BY <3>1, Kinds
  <2>8. /\ rblocks' = Counted(rblocks, 1) /\ rtodo' = Begun(rtodo)
        /\ Deliver(Said("value", NoName, Read.n)) /\ rcall' = rcall
    BY <2>7 DEF RecvValue, Reads, ReadsOther, Read
  <2>9. misread' = FALSE /\ pending' = Tail(pending)
    BY <2>3, <2>6, <2>8, DeliverIsNext DEF h
  <2>10. c = ArrayClosed(Here') /\ rcall'.at = "client"
    BY <1>1, <2>6, <2>8 DEF Here
  <2> QED BY <2>5, <2>9, <2>10, MatchesClient
<1>4. rcall.at \notin Errors
  BY <1>1 DEF Errors
<1> QED BY <1>1, <1>3, <1>4, Took

\* The client receives the header of an array.
LEMMA RecvArraySynch ==
  ASSUME TypesInv, InSynch, RecvArray
  PROVE  InSynch'
<1>1. /\ rcall.at = "client" /\ rcall = Idle /\ UNCHANGED <<svars, closed>>
      /\ \E t \in Due(rtodo) : t.kind = "array"
      /\ stream # <<>> /\ stream' = Tail(stream) /\ ractive' = ractive
  BY RcallIsCall DEF RecvArray, AtClient, Reads, ReadsOther
<1>2. ~InGroup(rtodo) /\ ArrayClosed(Here) = Here
  <2>1. EndOK(rtodo, rblocks, ractive)
    BY <1>1 DEF TypesInv, ReceiverInv, ReceiverOK
  <2> QED BY <1>1, <2>1, DueIsBegun, NotAtArrayEnd DEF Here
<1>3. ASSUME NEW a, NEW c, NEW f, Matches(a), Step(a, pending, Read, c, f)
      PROVE  Matches(c)' /\ pending' = f /\ misread' = FALSE /\ rcall'.at \notin Errors
  <2> DEFINE h == Head(pending)
  <2>1. a = Here
    BY <1>1, <1>2, <1>3 DEF Matches
  <2>2. a.call = Idle /\ a.todo = rtodo /\ a.blocks = rblocks /\ a.active = ractive
    BY <1>1, <2>1 DEF Here, Pos
  <2>3. /\ IsSeq(pending) /\ pending # <<>>
        /\ \/ QuietStep(a, h, Read, c) /\ f = pending
           \/ TellingStep(a, h, Read, c) /\ f = Tail(pending)
    BY <1>3 DEF Step
  <2> HIDE DEF h
  <2>4. ~MapStep(a, h, Read, c) /\ ~ValueStep(a, h, Read, c)
    BY <1>1, <2>2, DueOne DEF MapStep, ValueStep
  <2>5. ArrayStep(a, h, Read, c) /\ f = Tail(pending)
    BY <1>2, <2>2, <2>3, <2>4, StepsFromClient
  <2>6. /\ Read = Array(Read.n) /\ h = Said("array", NoName, Read.n)
        /\ c = ArrayClosed(Pos(Idle, EnterArray(rtodo, Read.n),
                               Pushed(Counted(rblocks, 1), "array", Read.n), ractive))
    BY <2>2, <2>5 DEF ArrayStep
  <2>7. Read.kind = "array"
    <3> DEFINE n == Read.n
    <3>1. Read = Array(n)
      BY <2>6
    <3> HIDE DEF n
    <3> QED BY <3>1, Kinds
  <2>8. /\ rblocks' = Pushed(Counted(rblocks, 1), "array", Read.n)
        /\ rtodo' = EnterArray(rtodo, Read.n)
        /\ Deliver(Said("array", NoName, Read.n)) /\ rcall' = rcall
    BY <2>7 DEF RecvArray, Reads, ReadsOther, Read
  <2>9. misread' = FALSE /\ pending' = Tail(pending)
    BY <2>3, <2>6, <2>8, DeliverIsNext DEF h
  <2>10. c = ArrayClosed(Here') /\ rcall'.at = "client"
    BY <1>1, <2>6, <2>8 DEF Here
  <2> QED BY <2>5, <2>9, <2>10, MatchesClient
<1>4. rcall.at \notin Errors
  BY <1>1 DEF Errors
<1> QED BY <1>1, <1>3, <1>4, Took

\* As many items as were announced have been counted when the elements are done.
LEMMA RecvArrayEndSynch ==
  ASSUME TypesInv, InSynch, RecvArrayEnd
  PROVE  InSynch'
<1>1. /\ rcall.at = "client" /\ rcall = Idle /\ AtArrayEnd(rtodo)
      /\ UNCHANGED <<svars, stream, closed, ractive>>
  BY RcallIsCall DEF RecvArrayEnd, AtClient
<1>2. EndOK(rtodo, rblocks, ractive) /\ InArray(rtodo) /\ Top(rtodo).left = 0
  BY <1>1 DEF TypesInv, ReceiverInv, ReceiverOK, AtArrayEnd, InArray
<1>3. Top(rblocks).type = "array" /\ Top(rblocks).num_items = Top(rblocks).len
  <2>1. /\ Top(rblocks).type = "array"
        /\ Top(rblocks).num_items + 0 = Top(rblocks).len
    BY <1>2, EndTop
  <2>2. Top(rblocks).num_items \in Nat
    BY <1>2, TopBlock DEF EndOK, BlockSet
  <2> QED BY <2>1, <2>2
<1>4. /\ rblocks' = Popped(rblocks) /\ rtodo' = Popped(rtodo) /\ rcall' = rcall
      /\ UNCHANGED <<pending, misread>>
  BY <1>3 DEF RecvArrayEnd
<1>5. InGroup(Popped(rtodo))
  BY <1>2, EndPop
<1>6. Here' = ArrayClosed(Here)
  BY <1>1, <1>4 DEF Here, ArrayClosed, Pos
<1>7. ArrayClosed(Here') = Here'
  <2>1. ArrayClosed(Pos(Idle, Popped(rtodo), Popped(rblocks), ractive))
          = Pos(Idle, Popped(rtodo), Popped(rblocks), ractive)
    BY <1>5, NotAtArrayEnd
  <2> QED BY <1>1, <1>4, <2>1 DEF Here
<1>8. ASSUME NEW a, Matches(a) PROVE Matches(a)'
  <2>1. a = ArrayClosed(Here')
    BY <1>1, <1>6, <1>7, <1>8 DEF Matches
  <2>2. rcall'.at = "client"
    BY <1>1, <1>4
  <2> QED BY <2>1, <2>2, MatchesClient
<1>9. rcall.at \notin Errors /\ rcall'.at \notin Errors
  BY <1>1, <1>4 DEF Errors
<1> QED BY <1>1, <1>4, <1>8, <1>9, Moved

\* A stream that ends where an item is due was cut off: nothing is due to a receiver who has
\* read all that a sender wrote who closed between two messages.
LEMMA RecvEofSynch ==
  ASSUME TypesInv, InSynch, RecvEof
  PROVE  InSynch'
<1>1. /\ stream = <<>> /\ closed # "no" /\ rcall.at \notin Errors /\ IsCall(rcall)
      /\ UNCHANGED <<closed, misread>>
      /\ rcall.at = "client" => rcall = Idle /\ rtodo # <<>> /\ \E t \in Due(rtodo) : t.kind # "group"
  BY RcallIsCall DEF RecvEof, Fail, AtClient
<1>2. rcall'.at = "NB_ERR_EOF"
  <2>1. rcall' = [rcall EXCEPT !.at = "NB_ERR_EOF"]
    BY DEF RecvEof, Fail
  <2>2. rcall' = [at |-> "NB_ERR_EOF", want |-> rcall.want, use |-> rcall.use,
                  name |-> rcall.name, pid |-> rcall.pid]
    BY <1>1, <2>1 DEF IsCall
  <2> QED BY <2>2
<1>3. closed = "crashed"
  <2> SUFFICES ASSUME closed # "crashed" PROVE FALSE
    OBVIOUS
  <2>1. PICK a : Matches(a) /\ Leads(a)
    BY <1>1 DEF InSynch
  <2>2. Path(<<>>, a, pending, ArrayClosed(There), <<>>)
    BY <1>1, <2>1 DEF Leads
  <2>3. a = ArrayClosed(There) /\ pending = <<>>
    BY <2>2, PathNowhere
  <2>4. stodo = <<>>
    BY <1>1 DEF TypesInv, SenderInv
  <2>5. a = There
    BY <2>3, <2>4, NotAtArrayEnd DEF There
  <2>6. a.call = Idle /\ a.todo = <<>>
    BY <2>4, <2>5 DEF There, Pos
  <2>7. CASE rcall.at = "client"
    <3>1. ArrayClosed(Here) = Here
      BY <1>1, <2>7, NotAtArrayEnd DEF Here
    <3>2. a.todo = rtodo
      BY <2>1, <2>7, <3>1 DEF Matches, Here, Pos
    <3> QED BY <1>1, <2>6, <2>7, <3>2
  <2>8. CASE rcall.at = "group"
    <3>1. a = HereIdle /\ (rtodo = <<>> => pending # <<>>)
      BY <2>1, <2>8 DEF Matches
    <3>2. a.todo = rtodo
      BY <3>1 DEF HereIdle, Pos
    <3> QED BY <2>3, <2>6, <3>1, <3>2
  <2>9. CASE rcall.at = "group end"
    <3>1. a = HereIdle /\ InGroup(rtodo)
      BY <2>1, <2>9 DEF Matches, TypesInv, ReceiverInv, ReceiverOK
    <3>2. a.todo = rtodo
      BY <3>1 DEF HereIdle, Pos
    <3> QED BY <2>6, <3>1, <3>2 DEF InGroup
  <2>10. CASE rcall.at \notin {"client", "group", "group end"}
    <3>1. a = Here
      BY <2>1, <2>10 DEF Matches
    <3>2. a.call = rcall
      BY <3>1 DEF Here, Pos
    <3>3. rcall.at = "client"
      BY <2>6, <3>2 DEF Idle
    <3> QED BY <2>10, <3>3
  <2> QED BY <2>7, <2>8, <2>9, <2>10
<1>4. rcall'.at \in Errors
  BY <1>2 DEF Errors
<1> QED BY <1>1, <1>2, <1>3, <1>4 DEF InSynch

\* The way after every step of the receiver.
LEMMA ReceiveSynch ==
  ASSUME TypesInv, NamesInv, InSynch, Receive
  PROVE  InSynch'
<1>1. ASSUME NEW g \in Groups, RecvGroup(g) PROVE InSynch'
  BY <1>1, RecvGroupSynch
<1> QED BY <1>1, RecvGroupMapSynch, RecvIdSynch, RecvKeysMapSynch, RecvKeysNameSynch,
           RecvKeysPidSynch, RecvKeysEndSynch, RecvAttrSynch, RecvGroupEndSynch, RecvValueSynch,
           RecvArraySynch, RecvArrayEndSynch, RecvEofSynch DEF Receive

\* What is read next is an item of the way.
LEMMA NextStep ==
  ASSUME TypesInv, InSynch, rcall.at \notin Errors, stream # <<>>
  PROVE  \E a, c, f : Matches(a) /\ Step(a, pending, Read, c, f)
<1>1. PICK a : Matches(a) /\ Leads(a)
  BY DEF InSynch
<1>2. PICK b, e : Path(stream, a, pending, b, e)
  BY <1>1 DEF Leads
<1>3. IsSeq(stream)
  BY DEF TypesInv, StreamOK, NatItems
<1>4. PICK c, f : Step(a, pending, Read, c, f)
  BY <1>2, <1>3, PathHead DEF Read
<1> QED BY <1>1, <1>4

\* What the items of the way mean.
LEMMA PlainMeans ==
  ASSUME NEW it, \/ it = MapIndef \/ it = Break \/ \E n : it = Uint(n) \/ it = Array(n) \/ it = Text(n)
  PROVE  it.meant.act = "none"
<1>1. it.meant = Nothing
  BY DEF MapIndef, Break, Uint, Array, Text, Item
<1> QED BY <1>1 DEF Nothing

\* A pid is a use of its name,
LEMMA UseMeans ==
  ASSUME NEW it, NEW ns, NEW name, NEW p, it = PidOf(ns, name, p)
  PROVE  /\ it.meant.act = "use" /\ it.meant.ns = ns /\ it.meant.name = name
         /\ it.meant.pid = p
<1> DEFINE m == [act |-> "use", ns |-> ns, name |-> name, pid |-> p]
<1>1. m.act = "use" /\ m.ns = ns /\ m.name = name /\ m.pid = p
  OBVIOUS
<1>2. it.meant = m
  BY DEF PidOf, Item
<1> HIDE DEF m
<1> QED BY <1>1, <1>2

\* and the break behind a pid and its name a definition.
LEMMA DefinitionMeans ==
  ASSUME NEW it, NEW ns, NEW name, NEW p, it = BreakOfKeys(ns, name, p)
  PROVE  /\ it.meant.act = "define" /\ it.meant.ns = ns /\ it.meant.name = name
         /\ it.meant.pid = p
<1> DEFINE m == [act |-> "define", ns |-> ns, name |-> name, pid |-> p]
<1>1. m.act = "define" /\ m.ns = ns /\ m.name = name /\ m.pid = p
  OBVIOUS
<1>2. it.meant = m
  BY DEF BreakOfKeys, Item
<1> HIDE DEF m
<1> QED BY <1>1, <1>2

\* Only the end of a map of keys defines a pid, and only inside such a map.
LEMMA OnlyKeysDefine ==
  ASSUME NEW a, NEW h, NEW it, NEW b, QuietStep(a, h, it, b) \/ TellingStep(a, h, it, b),
         a.call.at # "keys end"
  PROVE  it.meant.act # "define"
<1>1. ~KeysEndStep(a, it, b)
  BY DEF KeysEndStep
<1>2. CASE GroupStep(a, h, it, b) \/ AttrStep(a, h, it, b)
  <2>1. PICK ns, name : it = PidOf(ns, name, it.n)
    BY <1>2 DEF GroupStep, AttrStep
  <2>2. it.meant.act = "use"
    BY <2>1, UseMeans
  <2> QED BY <2>2
<1>3. CASE \/ MapStep(a, h, it, b) \/ KeysMapStep(a, it, b) \/ KeysStep(a, it, b)
           \/ ZeroStep(a, it, b) \/ KeysNameStep(a, it, b) \/ KeysPidStep(a, it, b)
           \/ ValueStep(a, h, it, b) \/ EndStep(a, h, it, b) \/ ArrayStep(a, h, it, b)
  <2>1. it = MapIndef \/ it = Break \/ \E n : it = Uint(n) \/ it = Array(n) \/ it = Text(n)
    BY <1>3 DEF MapStep, KeysMapStep, KeysStep, ZeroStep, KeysNameStep, KeysPidStep,
                ValueStep, EndStep, ArrayStep
  <2>2. it.meant.act = "none"
    BY <2>1, PlainMeans
  <2> QED BY <2>2
<1> QED BY <1>1, <1>2, <1>3 DEF QuietStep, TellingStep

\* Outside a map of keys nothing that is read defines a pid.
LEMMA ReadNoDefinition ==
  ASSUME TypesInv, InSynch, rcall.at \notin Errors, rcall.at # "keys end", stream # <<>>
  PROVE  Read.meant.act # "define"
<1>1. PICK a, c, f : Matches(a) /\ Step(a, pending, Read, c, f)
  BY NextStep
<1>2. a.call.at # "keys end"
  <2>1. CASE rcall.at = "client"
    <3>1. a = ArrayClosed(Here)
      BY <1>1, <2>1 DEF Matches
    <3>2. a.call = rcall
      BY <3>1 DEF ArrayClosed, Here, Pos
    <3> QED BY <3>2
  <2>2. CASE rcall.at \in {"group", "group end"}
    <3>1. a = HereIdle
      BY <1>1, <2>2 DEF Matches
    <3>2. a.call = Idle
      BY <3>1 DEF HereIdle, Pos
    <3>3. Idle.at = "client"
      BY DEF Idle
    <3> QED BY <3>2, <3>3
  <2>3. CASE rcall.at \notin {"client", "group", "group end"}
    <3>1. a = Here
      BY <1>1, <2>3 DEF Matches
    <3>2. a.call = rcall
      BY <3>1 DEF Here, Pos
    <3> QED BY <3>2
  <2> QED BY <2>1, <2>2, <2>3
<1> DEFINE h == Head(pending)
<1>3. QuietStep(a, h, Read, c) \/ TellingStep(a, h, Read, c)
  BY <1>1 DEF Step
<1> HIDE DEF h
<1> QED BY <1>2, <1>3, OnlyKeysDefine

\* The end of the map of keys is what the receiver takes it for.
LEMMA ReadDefinition ==
  ASSUME TypesInv, InSynch, rcall.at = "keys end", stream # <<>>
  PROVE  /\ Read.kind = "break" /\ rcall.pid > 1 /\ rcall.name \in NamesIn(LookupNs)
         /\ Read.meant.act = "define" /\ Read.meant.ns = LookupNs
         /\ Read.meant.name = rcall.name /\ Read.meant.pid = rcall.pid
<1>1. rcall.at \notin Errors
  BY DEF Errors
<1>2. PICK a, c, f : Matches(a) /\ Step(a, pending, Read, c, f)
  BY <1>1, NextStep
<1>3. a = Here
  BY <1>2 DEF Matches
<1>4. a.call = rcall /\ a.active = ractive
  BY <1>3 DEF Here, Pos
<1>5. KeysEndStep(a, Read, c)
  <2> DEFINE h == Head(pending)
  <2>1. QuietStep(a, h, Read, c) \/ TellingStep(a, h, Read, c)
    BY <1>2 DEF Step
  <2>2. a.call.at = "keys end" /\ a.call.at # "client"
    BY <1>4
  <2> HIDE DEF h
  <2> QED BY <2>1, <2>2, StepsFromCall
<1>6. NsOf(a.call, a.active) = LookupNs
  BY <1>4 DEF NsOf, LookupNs
<1>7. /\ Read = BreakOfKeys(LookupNs, rcall.name, rcall.pid)
      /\ rcall.pid > 1 /\ rcall.name \in NamesIn(LookupNs)
  BY <1>4, <1>5, <1>6 DEF KeysEndStep
<1>8. PICK ns, name, q : /\ Read = BreakOfKeys(ns, name, q)
                         /\ ns = LookupNs /\ name = rcall.name /\ q = rcall.pid
  BY <1>7
<1>9. PICK it : it = Read
  OBVIOUS
<1>10. it = BreakOfKeys(ns, name, q)
  BY <1>8, <1>9
<1>11. /\ it.meant.act = "define" /\ it.meant.ns = ns
       /\ it.meant.name = name /\ it.meant.pid = q
  BY ONLY <1>10, DefinitionMeans
<1>12. it.kind = "break"
  BY ONLY <1>10, Kinds
<1> QED BY <1>7, <1>8, <1>9, <1>11, <1>12

\* An item is taken that is no definition.
LEMMA TakenNames ==
  ASSUME TypesInv, NamesInv, InSynch, rcall.at \notin Errors, rcall.at # "keys end",
         stream # <<>>, stream' = Tail(stream), UNCHANGED <<svars, closed, pid_to_lid>>
  PROVE  NamesInv'
<1> DEFINE L == pid_to_lid
           s == stream
<1>1. IsSeq(s) /\ s # <<>> /\ s[1] = Read
  <2>1. IsSeq(s)
    BY DEF TypesInv, StreamOK, NatItems
  <2> QED BY <2>1, TailFacts DEF Read
<1>2. \A ns, p : ~Redefines(s[1].meant, ns, p)
  <2>1. s[1].meant.act # "define"
    BY <1>1, ReadNoDefinition
  <2> HIDE DEF s
  <2> QED BY <2>1 DEF Redefines
<1>3. /\ UsesStand(L, s) /\ PidsInRange(pid, max_pid) /\ ZeroIsZero(L)
      /\ closed = "no" => AssignedStand(L, s, pid)
  BY DEF NamesInv
<1> HIDE DEF L, s
<1>4. /\ UsesStand(L, s) => UsesStand(L, Tail(s))
      /\ \A pids : AssignedStand(L, s, pids) => AssignedStand(L, Tail(s), pids)
  BY <1>1, <1>2, NamesTaken
<1>5. UsesStand(L, Tail(s)) /\ (closed = "no" => AssignedStand(L, Tail(s), pid))
  BY <1>3, <1>4
<1>6. /\ pid_to_lid' = L /\ stream' = Tail(s) /\ closed' = closed /\ pid' = pid
      /\ max_pid' = max_pid
  BY DEF L, s, svars
<1> QED BY <1>3, <1>5, <1>6 DEF NamesInv

\* A name is learnt.
LEMMA RecvKeysEndNames ==
  ASSUME TypesInv, NamesInv, InSynch, RecvKeysEnd
  PROVE  NamesInv'
<1> DEFINE L == pid_to_lid
           s == stream
           n == LookupNs
           q == rcall.pid
<1>1. /\ rcall.at = "keys end" /\ s # <<>> /\ stream' = Tail(s)
      /\ UNCHANGED <<svars, closed>>
  BY DEF RecvKeysEnd, Reads, ReadsOther
<1>2. /\ Read.kind = "break" /\ q > 1 /\ rcall.name \in NamesIn(n)
      /\ Read.meant.act = "define" /\ Read.meant.ns = n
      /\ Read.meant.name = rcall.name /\ Read.meant.pid = q
  BY <1>1, ReadDefinition
<1>3. n \in Namespaces /\ q \in Nat
  <2>1. n \in Namespaces
    BY <1>1, LookupNsIn DEF TypesInv, InKeys
  <2> QED BY <2>1, RcallIsCall DEF IsCall
<1>4. Learnt(n, rcall.name, q) # {}
  BY <1>2, <1>3, NameIsLearnt
<1>5. PICK new \in Learnt(n, rcall.name, q) : pid_to_lid' = [L EXCEPT ![n] = new]
  BY <1>2, <1>4 DEF RecvKeysEnd, Reads, ReadsOther, Read
<1>6. LidsOK
  BY DEF TypesInv
<1>7. /\ q < Len(new) /\ RName(n, new[q + 1]) = rcall.name
      /\ \A i \in Nat : i # q /\ i < Len(L[n]) => i < Len(new) /\ new[i + 1] = L[n][i + 1]
      /\ q > 0 /\ (Len(L[n]) > 0 => L[n][1] = 0) => new[1] = 0
  BY <1>3, <1>6, LearntFacts
<1> DEFINE M == pid_to_lid'
<1>8. IsSeq(s) /\ s # <<>> /\ s[1] = Read
  <2>1. IsSeq(s)
    BY DEF TypesInv, StreamOK, NatItems
  <2> QED BY <1>1, <2>1, TailFacts DEF Read
<1>9. M[n] = new /\ \A ns : ns # n => M[ns] = L[ns]
  BY <1>3, <1>5, <1>6 DEF LidsOK
<1>10. /\ UsesStand(L, s) /\ PidsInRange(pid, max_pid) /\ ZeroIsZero(L)
       /\ closed = "no" => AssignedStand(L, s, pid)
  BY DEF NamesInv
<1>11. \A ns, p : Redefines(s[1].meant, ns, p) <=> ns = n /\ p = q
  BY <1>2, <1>8 DEF Redefines
<1>12. s[1].meant.name = rcall.name
  BY <1>2, <1>8
<1>13. /\ pid' = pid /\ max_pid' = max_pid /\ closed' = closed /\ stream' = Tail(s)
       /\ pid_to_lid' = M
  BY <1>1 DEF svars
<1> HIDE DEF M, L, s, n, q
<1>14. \A ns, p : Redefines(s[1].meant, ns, p) => Known(M, ns, p, s[1].meant.name)
  BY <1>3, <1>7, <1>9, <1>11, <1>12 DEF Known
<1>15. ASSUME NEW ns, NEW p, NEW name, ~Redefines(s[1].meant, ns, p), Known(L, ns, p, name)
       PROVE  Known(M, ns, p, name)
  <2>1. CASE ns # n
    BY <1>9, <1>15, <2>1 DEF Known
  <2>2. CASE ns = n
    <3>1. p # q
      BY <1>11, <1>15, <2>2
    <3>2. p \in Nat
      BY <1>15 DEF Known
    <3> QED BY <1>7, <1>9, <1>15, <2>2, <3>1, <3>2 DEF Known
  <2> QED BY <2>1, <2>2
<1>16. /\ UsesStand(L, s) => UsesStand(M, Tail(s))
       /\ \A pids : AssignedStand(L, s, pids) => AssignedStand(M, Tail(s), pids)
  BY <1>8, <1>14, <1>15, NamesTaken
<1>17. UsesStand(M, Tail(s)) /\ (closed = "no" => AssignedStand(M, Tail(s), pid))
  BY <1>10, <1>16
<1>18. ZeroIsZero(M)
  BY <1>2, <1>3, <1>7, <1>9, <1>10 DEF ZeroIsZero
<1> QED BY <1>10, <1>13, <1>17, <1>18 DEF NamesInv

\* The names in the receiver's steps.
LEMMA ReceiveNames ==
  ASSUME TypesInv, NamesInv, InSynch, Receive
  PROVE  NamesInv'
<1>1. /\ stream' = stream \/ (stream # <<>> /\ stream' = Tail(stream))
      /\ UNCHANGED <<svars, closed>>
  BY ReceiveTakes
<1>2. CASE RecvKeysEnd
  BY <1>2, RecvKeysEndNames
<1>3. CASE ~RecvKeysEnd
  <2>1. UNCHANGED pid_to_lid
    BY <1>3 DEF Receive, RecvGroup, RecvGroupMap, RecvId, RecvKeysMap, RecvKeysName,
                RecvKeysPid, RecvAttr, RecvGroupEnd, RecvValue, RecvArray, RecvArrayEnd, RecvEof
  <2>2. CASE stream' = stream
    BY <1>1, <2>1, <2>2 DEF NamesInv, svars
  <2>3. CASE stream' # stream
    <3>1. rcall.at \in {"client", "group", "id", "keys map", "keys name", "keys pid", "group end"}
      BY <1>3, <2>3 DEF Receive, RecvGroup, RecvGroupMap, RecvId, RecvKeysMap, RecvKeysName,
                  RecvKeysPid, RecvAttr, RecvGroupEnd, RecvValue, RecvArray, RecvArrayEnd,
                  RecvEof, AtClient
    <3>2. rcall.at \notin Errors /\ rcall.at # "keys end"
      BY <3>1 DEF Errors
    <3>3. stream # <<>> /\ stream' = Tail(stream)
      BY <1>1, <2>3
    <3> QED BY <1>1, <2>1, <3>2, <3>3, TakenNames
  <2> QED BY <2>2, <2>3
<1> QED BY <1>2, <1>3

-----------------------------------------------------------------------------
(* What follows for a receiver that is there from the beginning.           *)

Exchange == TypesInv /\ NamesInv /\ InSynch

\* Nothing was sent and nothing is known.
LEMMA NamesStart == Init => NamesInv
<1> SUFFICES ASSUME Init PROVE NamesInv
  OBVIOUS
<1>1. stream = <<>> /\ Len(stream) = 0
  BY NoElements DEF Init
<1>2. UsesStand(pid_to_lid, stream)
  BY <1>1 DEF UsesStand
<1>3. \A ns \in Namespaces : /\ max_pid[ns] = 1 /\ pid_to_lid[ns] = <<>>
                             /\ \A x \in NamesIn(ns) : pid[ns][x] = 0
  BY DEF Init
<1>4. AssignedStand(pid_to_lid, stream, pid)
  BY <1>3 DEF AssignedStand
<1>5. PidsInRange(pid, max_pid)
  BY <1>3 DEF PidsInRange
<1>6. ZeroIsZero(pid_to_lid)
  BY <1>3, NoElements DEF ZeroIsZero
<1> QED BY <1>2, <1>4, <1>5, <1>6 DEF NamesInv

\* Both ends are where they begin.
LEMMA SynchStart == Init => InSynch
<1> SUFFICES ASSUME Init PROVE InSynch
  OBVIOUS
<1>1. /\ rcall = Idle /\ rtodo = <<>> /\ rblocks = Root /\ ractive = NoGroup
      /\ stodo = <<>> /\ sblocks = Root /\ sactive = NoGroup
      /\ stream = <<>> /\ pending = <<>> /\ misread = FALSE
  BY DEF Init, Idle
<1>2. rcall.at = "client" /\ rcall.at \notin Errors
  BY <1>1 DEF Idle, Errors
<1> DEFINE a == ArrayClosed(Here)
<1>3. Here = There
  BY <1>1 DEF Here, There
<1>4. a = ArrayClosed(There)
  BY <1>3
<1> HIDE DEF a
<1>5. Path(stream, a, pending, a, <<>>)
  BY <1>1, PathEmpty
<1>6. Leads(a)
  BY <1>4, <1>5 DEF Leads
<1>7. Matches(a)
  BY <1>2 DEF Matches, a
<1> QED BY <1>1, <1>2, <1>6, <1>7 DEF InSynch

\* Every step of sender and receiver.
LEMMA ExchangeKeeps == ~LateReceiver /\ Exchange /\ [Next]_vars => Exchange'
<1> SUFFICES ASSUME ~LateReceiver, Exchange, [Next]_vars PROVE Exchange'
  OBVIOUS
<1>1. TypesInv /\ NamesInv /\ InSynch
  BY DEF Exchange
<1>2. TypesInv'
  BY <1>1, TypesKeep
<1>3. CASE Send
  <2>1. PidsInRange(pid, max_pid)
    BY <1>1 DEF NamesInv
  <2> QED BY <1>1, <1>2, <1>3, <2>1, SendNames, SendSynch DEF Exchange
<1>4. CASE Receive
  BY <1>1, <1>2, <1>4, ReceiveNames, ReceiveSynch DEF Exchange
<1>5. CASE UNCHANGED vars
  <2>1. UNCHANGED <<pid, max_pid, closed, stream, pid_to_lid>>
    BY <1>5 DEF vars, svars, rvars
  <2>2. NamesInv'
    BY <1>1, <2>1 DEF NamesInv
  <2>3. /\ Here' = Here /\ HereIdle' = HereIdle /\ There' = There /\ Read' = Read
        /\ UNCHANGED <<rcall, rtodo, pending, misread, closed, stream>>
    BY <1>5 DEF vars, svars, rvars, Here, HereIdle, There, Read
  <2>4. ASSUME NEW a, Matches(a) PROVE Matches(a)'
    BY <2>3, <2>4 DEF Matches
  <2>5. ASSUME NEW a, Leads(a) PROVE Leads(a)'
    <3>1. PICK b, e :
            /\ Path(stream, a, pending, b, e)
            /\ closed # "crashed" => b = ArrayClosed(There) /\ e = <<>>
      BY <2>5 DEF Leads
    <3>2. Path(stream', a, pending', b, e)
      BY <2>3, <3>1
    <3> QED BY <2>3, <3>1, <3>2 DEF Leads
  <2>6. InSynch'
    BY <1>1, <2>3, <2>4, <2>5 DEF InSynch
  <2> QED BY <1>2, <2>2, <2>6 DEF Exchange
<1>6. ~ReceiverRestart
  BY DEF ReceiverRestart
<1> QED BY <1>3, <1>4, <1>5, <1>6 DEF Next

\* A receiver that is there from the beginning.
LEMMA ExchangeAlways == ASSUME ~LateReceiver PROVE Spec => []Exchange
<1>1. Init => Exchange
  BY TypesStart, NamesStart, SynchStart DEF Exchange
<1>2. Exchange /\ [Next]_vars => Exchange'
  BY ExchangeKeeps
<1> QED BY <1>1, <1>2, PTL DEF Spec

\* The receiving client is told what was said, in the order in which it was said, whatever
\* the schema, the two numberings and the values are and however often the sender restarts.
THEOREM ReceivedAlways == ASSUME ~LateReceiver PROVE Spec => []ReceivedAsSent
<1>1. Exchange => ReceivedAsSent
  BY DEF Exchange, InSynch, ReceivedAsSent
<1> QED BY <1>1, ExchangeAlways, PTL

\* The decoder, recv_id and recv_keys find no fault with what a sender writes: the one
\* error there is is the end of the stream of a sender that crashed.
THEOREM OnlyEofAlways == ASSUME ~LateReceiver PROVE Spec => []OnlyEofFails
<1>1. Exchange => OnlyEofFails
  BY DEF Exchange, InSynch, OnlyEofFails
<1> QED BY <1>1, ExchangeAlways, PTL

\* A receiver that has read everything has the blocks of the sender.
THEOREM BlocksAgreeAlways == ASSUME ~LateReceiver PROVE Spec => []BlocksAgree
<1>1. Exchange => BlocksAgree
  <2> SUFFICES ASSUME Exchange, stream = <<>>, closed = "no", AtClient, ~AtArrayEnd(stodo),
                      ~AtArrayEnd(rtodo)
               PROVE  rblocks = sblocks
    BY DEF BlocksAgree
  <2>1. rcall.at = "client" /\ rcall.at \notin Errors
    BY DEF AtClient, Errors
  <2>2. PICK a : Matches(a) /\ Leads(a)
    BY <2>1 DEF Exchange, InSynch
  <2>3. Path(<<>>, a, pending, ArrayClosed(There), <<>>)
    BY <2>2 DEF Leads
  <2>4. a = ArrayClosed(There) /\ a = ArrayClosed(Here)
    BY <2>1, <2>2, <2>3, PathNowhere DEF Matches
  <2>5. Here.todo = rtodo /\ There.todo = stodo
    BY DEF Here, There, Pos
  <2>6. Here = There
    BY <2>4, <2>5 DEF ArrayClosed
  <2>7. Here.blocks = rblocks /\ There.blocks = sblocks
    BY DEF Here, There, Pos
  <2> QED BY <2>6, <2>7
<1> QED BY <1>1, ExchangeAlways, PTL

\* recv_id takes every pid for the name the sender meant by it.
THEOREM PidUnderstoodAlways == ASSUME ~LateReceiver PROVE Spec => []PidUnderstoodOrReported
<1>1. Exchange => PidUnderstoodOrReported
  <2> SUFFICES ASSUME Exchange, rcall.at = "id", stream # <<>>, Read.meant.act = "use"
               PROVE  /\ LookupNs = Read.meant.ns
                      /\ RName(LookupNs, Lookup(LookupNs, Read.n)) = Read.meant.name
    BY DEF PidUnderstoodOrReported
  <2>1. TypesInv /\ NamesInv /\ InSynch
    BY DEF Exchange
  <2>2. rcall.at \notin Errors
    BY DEF Errors
  <2>3. PICK a, c, f : Matches(a) /\ Step(a, pending, Read, c, f)
    BY <2>1, <2>2, NextStep
  <2>4. a = Here
    BY <2>3 DEF Matches
  <2>5. a.call = rcall /\ a.active = ractive
    BY <2>4 DEF Here, Pos
  <2> DEFINE h == Head(pending)
  <2>6. QuietStep(a, h, Read, c) \/ TellingStep(a, h, Read, c)
    BY <2>3 DEF Step
  <2> HIDE DEF h
  <2>7. /\ KeysStep(a, Read, c) \/ ZeroStep(a, Read, c)
           \/ GroupStep(a, h, Read, c) \/ AttrStep(a, h, Read, c)
        /\ CallOf(a) = rcall
    <3>1. a.call.at # "client" /\ a.call.at = "id"
      BY <2>5
    <3> QED BY <2>5, <2>6, <3>1, StepsFromCall
  <2>8. ~KeysStep(a, Read, c) /\ ~ZeroStep(a, Read, c)
    <3> SUFFICES ASSUME KeysStep(a, Read, c) \/ ZeroStep(a, Read, c) PROVE FALSE
      OBVIOUS
    <3>1. PICK it : it = Read
      OBVIOUS
    <3>2. \E n : it = Uint(n)
      BY <3>1 DEF KeysStep, ZeroStep
    <3>3. it.meant.act = "none"
      BY <3>2, PlainMeans
    <3> QED BY <3>1, <3>3
  <2>9. PICK name : Read = PidOf(LookupNs, name, Read.n)
    <3>1. CASE GroupStep(a, h, Read, c)
      BY <2>5, <3>1 DEF GroupStep, LookupNs
    <3>2. CASE AttrStep(a, h, Read, c)
      BY <2>5, <2>7, <3>2 DEF AttrStep, LookupNs
    <3> QED BY <2>7, <2>8, <3>1, <3>2
  <2>10. LookupNs \in Namespaces
    BY <2>1, LookupNsIn DEF TypesInv
  <2>11. RName(LookupNs, Lookup(LookupNs, Read.n)) = name
    BY <2>1, <2>9, <2>10, PidIsKnown
  <2>12. Read.meant.ns = LookupNs /\ Read.meant.name = name
    <3>1. PICK it, ns, p : it = Read /\ ns = LookupNs /\ p = Read.n
      OBVIOUS
    <3>2. it = PidOf(ns, name, p)
      BY <2>9, <3>1
    <3>3. it.meant.ns = ns /\ it.meant.name = name
      BY ONLY <3>2, UseMeans
    <3> QED BY <3>1, <3>3
  <2> QED BY <2>11, <2>12
<1> QED BY <1>1, ExchangeAlways, PTL

-----------------------------------------------------------------------------
(* The messages among the items of the stream.                             *)
(* Messages is a recursive function; what it returns for one item more or  *)
(* less follows from the first number for which it would not hold.         *)

\* What holds at the beginning and from one number to the next holds of all of them.
LEMMA Upwards ==
  ASSUME NEW n \in Nat, NEW S, 0 \in S, \A i \in 1..n : i - 1 \in S => i \in S
  PROVE  0..n \subseteq S
<1> SUFFICES ASSUME NEW k \in 0..n, k \notin S PROVE FALSE
  OBVIOUS
<1> DEFINE R == OpToRel(<, Nat)
           T == {i \in 0..n : i \notin S}
<1>1. IsWellFoundedOn(R, Nat)
  BY NatLessThanWellFounded
<1>2. \A x, y \in Nat : x < y => <<x, y>> \in R
  BY DEF OpToRel
<1>3. T # {} /\ T \in SUBSET Nat
  OBVIOUS
<1> HIDE DEF R
<1>4. PICK i \in T : \A j \in T : ~(<<j, i>> \in R)
  <2> HIDE DEF T
  <2> QED BY <1>1, <1>3, WFMin
<1>5. i \in 1..n /\ i - 1 \in Nat /\ i \in Nat /\ i - 1 < i /\ i - 1 \in 0..n
  BY <1>4
<1>6. i - 1 \in T
  BY <1>4, <1>5
<1>7. ~(i - 1 < i)
  BY <1>2, <1>4, <1>5, <1>6
<1> QED BY <1>5, <1>7

\* The messages among the first items of s, one item after the other.
Scans(h, s) ==
  h = [i \in 0..Len(s) |-> IF i = 0 THEN <<>> ELSE Heard(h[i - 1], s[i])]

\* There is such a function.
LEMMA ScanExists == ASSUME NEW s, IsSeq(s) PROVE \E h : Scans(h, s)
<1> DEFINE n == Len(s)
           Up(g, k) == g = [i \in 0..k |-> IF i = 0 THEN <<>> ELSE Heard(g[i - 1], s[i])]
           S == {k \in 0..n : \E g : Up(g, k)}
<1>1. n \in Nat
  BY SeqFacts
<1>2. 0 \in S
  <2> DEFINE g == [i \in 0..0 |-> <<>>]
  <2>1. \A i \in 0..0 : i = 0
    OBVIOUS
  <2>2. g = [i \in 0..0 |-> IF i = 0 THEN <<>> ELSE Heard(g[i - 1], s[i])]
    BY <2>1
  <2> HIDE DEF g
  <2>3. Up(g, 0)
    BY <2>2
  <2> QED BY <1>1, <2>3
<1>3. ASSUME NEW k \in 1..n, k - 1 \in S PROVE k \in S
  <2>1. PICK g : Up(g, k - 1)
    BY <1>3
  <2> DEFINE f == [i \in 0..k |-> IF i = k THEN Heard(g[k - 1], s[k]) ELSE g[i]]
  <2>2. k \in Nat /\ k > 0
    BY <1>1
  <2>3. f = [i \in 0..k |-> IF i = 0 THEN <<>> ELSE Heard(f[i - 1], s[i])]
    <3>1. ASSUME NEW i \in 0..k
          PROVE  f[i] = IF i = 0 THEN <<>> ELSE Heard(f[i - 1], s[i])
      <4>1. CASE i = k
        <5>1. k - 1 \in 0..k /\ k - 1 # k
          BY <2>2
        <5>2. f[k - 1] = g[k - 1]
          BY <5>1
        <5>3. f[i] = Heard(g[k - 1], s[k])
          BY <4>1
        <5> HIDE DEF f, Up
        <5> QED BY <2>2, <4>1, <5>2, <5>3
      <4>2. CASE i # k
        <5>1. i \in 0..(k - 1)
          BY <2>2, <4>2
        <5>2. g[i] = IF i = 0 THEN <<>> ELSE Heard(g[i - 1], s[i])
          BY <2>1, <5>1
        <5>3. f[i] = g[i]
          BY <4>2
        <5>4. CASE i = 0
          <6> HIDE DEF f, Up
          <6> QED BY <5>2, <5>3, <5>4
        <5>5. CASE i # 0
          <6>1. i - 1 \in 0..k /\ i - 1 # k
            BY <2>2, <5>1, <5>5
          <6>2. f[i - 1] = g[i - 1]
            BY <6>1
          <6> HIDE DEF f, Up
          <6> QED BY <5>2, <5>3, <5>5, <6>2
        <5> QED BY <5>4, <5>5
      <4> QED BY <4>1, <4>2
    <3>2. f = [i \in 0..k |-> f[i]]
      OBVIOUS
    <3> HIDE DEF f
    <3> QED BY <3>1, <3>2
  <2> HIDE DEF f
  <2>4. Up(f, k)
    BY <2>3
  <2> HIDE DEF Up
  <2> QED BY <2>4
<1>4. n \in S
  <2> HIDE DEF S, n
  <2> QED BY <1>1, <1>2, <1>3, Upwards
<1>5. PICK h : Up(h, n)
  BY <1>4
<1> QED BY <1>5 DEF Scans

\* It is the one Messages is defined by.
LEMMA MessagesScanned ==
  ASSUME NEW s, IsSeq(s), NEW h, Scans(h, s)
  PROVE Messages(s) = h[Len(s)]
<1> DEFINE n == Len(s)
           f == CHOOSE g : Scans(g, s)
<1>1. n \in Nat
  BY SeqFacts
<1>2. Scans(f, s)
  OBVIOUS
<1>3. Messages(s) = f[n]
  BY DEF Messages, Scans
<1> DEFINE S == {i \in 0..n : f[i] = h[i]}
<1> HIDE DEF f
<1>4. 0 \in S
  BY <1>1, <1>2 DEF Scans
<1>5. ASSUME NEW i \in 1..n, i - 1 \in S PROVE i \in S
  <2>1. i \in 0..n /\ i # 0 /\ f[i - 1] = h[i - 1]
    BY <1>1, <1>5
  <2>2. f[i] = Heard(f[i - 1], s[i]) /\ h[i] = Heard(h[i - 1], s[i])
    BY <1>2, <2>1 DEF Scans
  <2> QED BY <2>1, <2>2
<1>6. n \in S
  <2> HIDE DEF S, n
  <2> QED BY <1>1, <1>4, <1>5, Upwards
<1> QED BY <1>3, <1>6

\* One item after the other.
LEMMA ScanFacts ==
  ASSUME NEW s, IsSeq(s), NEW h, Scans(h, s)
  PROVE  /\ h[0] = <<>>
         /\ \A i \in 1..Len(s) : h[i] = Heard(h[i - 1], s[i])
         /\ \A i \in 0..Len(s) : IsSeq(h[i])
<1> DEFINE n == Len(s)
           S == {i \in 0..n : IsSeq(h[i])}
<1>1. n \in Nat
  BY SeqFacts
<1>2. h[0] = <<>>
  BY <1>1 DEF Scans
<1>3. \A i \in 1..n : h[i] = Heard(h[i - 1], s[i])
  BY <1>1 DEF Scans
<1>4. 0 \in S
  BY <1>1, <1>2, NoElements
<1>5. ASSUME NEW i \in 1..n, i - 1 \in S PROVE i \in S
  BY <1>1, <1>3, <1>5, AppendFacts DEF Heard
<1>6. 0..n \subseteq S
  <2> HIDE DEF S, n
  <2> QED BY <1>1, <1>4, <1>5, Upwards
<1> QED BY <1>2, <1>3, <1>6

\* The same of any function that goes from item to item.
LEMMA ScanIs ==
  ASSUME NEW s, IsSeq(s), NEW h, h[0] = <<>>,
         \A i \in 1..Len(s) : h[i] = Heard(h[i - 1], s[i])
  PROVE  Messages(s) = h[Len(s)]
<1> DEFINE n == Len(s)
           g == [i \in 0..n |-> h[i]]
<1>1. n \in Nat
  BY SeqFacts
<1>2. g = [i \in 0..n |-> IF i = 0 THEN <<>> ELSE Heard(g[i - 1], s[i])]
  <2>1. ASSUME NEW i \in 0..n PROVE g[i] = IF i = 0 THEN <<>> ELSE Heard(g[i - 1], s[i])
    <3>1. CASE i = 0
      BY <3>1
    <3>2. CASE i # 0
      <4>1. i \in 1..n /\ i - 1 \in 0..n
        BY <1>1, <3>2
      <4>2. g[i] = h[i] /\ g[i - 1] = h[i - 1]
        BY <4>1
      <4>3. h[i] = Heard(h[i - 1], s[i])
        BY <4>1
      <4> HIDE DEF g
      <4> QED BY <3>2, <4>2, <4>3
    <3> QED BY <3>1, <3>2
  <2>2. g = [i \in 0..n |-> g[i]]
    OBVIOUS
  <2> HIDE DEF g
  <2> QED BY <2>1, <2>2
<1>3. Messages(s) = g[n]
  <2> HIDE DEF g
  <2> QED BY <1>2, MessagesScanned DEF Scans
<1> QED BY <1>1, <1>3

\* One item more.
LEMMA MessagesAppend ==
  ASSUME NEW s, IsSeq(s), NEW x
  PROVE  Messages(Append(s, x)) = Heard(Messages(s), x)
<1> DEFINE n == Len(s)
           t == Append(s, x)
<1>1. PICK h : Scans(h, s)
  BY ScanExists
<1>2. /\ h[0] = <<>> /\ \A i \in 1..n : h[i] = Heard(h[i - 1], s[i])
      /\ Messages(s) = h[n]
  BY <1>1, ScanFacts, MessagesScanned
<1> DEFINE g == [i \in 0..(n + 1) |-> IF i = n + 1 THEN Heard(h[n], x) ELSE h[i]]
<1>3. /\ n \in Nat /\ IsSeq(t) /\ Len(t) = n + 1 /\ t[n + 1] = x
      /\ \A i \in 1..n : t[i] = s[i]
  BY SeqFacts, AppendFacts
<1> HIDE DEF n, t
<1>4. g[0] = <<>> /\ g[n + 1] = Heard(h[n], x) /\ \A i \in 0..n : g[i] = h[i]
  BY <1>2, <1>3
<1> HIDE DEF g
<1>5. ASSUME NEW i \in 1..Len(t) PROVE g[i] = Heard(g[i - 1], t[i])
  <2>1. CASE i = n + 1
    <3>1. i - 1 = n /\ n \in 0..n
      BY <1>3, <2>1
    <3> QED BY <1>3, <1>4, <2>1, <3>1
  <2>2. CASE i # n + 1
    <3>1. i \in 1..n /\ i - 1 \in 0..n /\ i \in 0..n
      BY <1>3, <2>2
    <3> QED BY <1>2, <1>3, <1>4, <3>1
  <2> QED BY <2>1, <2>2
<1>6. Messages(t) = g[Len(t)]
  BY <1>3, <1>4, <1>5, ScanIs
<1> QED BY <1>2, <1>3, <1>4, <1>6 DEF t

\* Nothing and no messages.
LEMMA NoMessages == Messages(<<>>) = <<>>
<1> DEFINE h == [i \in 0..0 |-> <<>>]
<1>1. h[0] = <<>> /\ Len(<<>>) = 0 /\ \A i \in 1..0 : FALSE
  BY NoElements
<1> HIDE DEF h
<1>2. Messages(<<>>) = h[0]
  BY <1>1, NoElements, ScanIs
<1> QED BY <1>1, <1>2

\* They are a sequence.
LEMMA MessagesIsSeq == ASSUME NEW s, IsSeq(s) PROVE IsSeq(Messages(s))
<1>1. PICK h : Scans(h, s)
  BY ScanExists
<1>2. Len(s) \in 0..Len(s)
  BY SeqFacts
<1> QED BY <1>1, <1>2, ScanFacts, MessagesScanned

\* Without the first item: one message less, if it was one.
LEMMA MessagesTail ==
  ASSUME NEW s, IsSeq(s), s # <<>>
  PROVE  /\ s[1].meant.act = "none" => Messages(Tail(s)) = Messages(s)
         /\ s[1].meant.act # "none" =>
              /\ Messages(s) # <<>> /\ Head(Messages(s)) = s[1].meant
              /\ Messages(Tail(s)) = Tail(Messages(s))
<1> DEFINE n == Len(s)
           m == n - 1
           t == Tail(s)
           first == s[1].meant
<1>1. PICK h : Scans(h, s)
  BY ScanExists
<1>2. /\ h[0] = <<>> /\ \A i \in 1..n : h[i] = Heard(h[i - 1], s[i])
      /\ \A i \in 0..n : IsSeq(h[i])
      /\ Messages(s) = h[n]
  BY <1>1, ScanFacts, MessagesScanned
<1>3. /\ n \in Nat /\ n > 0 /\ m \in Nat /\ n = m + 1 /\ IsSeq(t) /\ Len(t) = m
      /\ \A i \in 1..m : t[i] = s[i + 1]
  BY SeqFacts, TailFacts
<1>4. h[1] = Heard(<<>>, s[1])
  <2>1. 1 \in 1..n /\ 1 - 1 = 0
    BY <1>3
  <2>2. h[1] = Heard(h[1 - 1], s[1])
    BY <1>2, <2>1
  <2> QED BY <1>2, <2>1, <2>2
<1> HIDE DEF n, m, t
<1>5. CASE first.act = "none"
  <2> DEFINE g == [i \in 0..m |-> h[i + 1]]
  <2>1. g[0] = <<>> /\ g[m] = h[n]
    BY <1>3, <1>4, <1>5 DEF Heard
  <2>2. ASSUME NEW i \in 1..Len(t) PROVE g[i] = Heard(g[i - 1], t[i])
    <3>1. i \in 0..m /\ i - 1 \in 0..m /\ i + 1 \in 1..n /\ (i + 1) - 1 = i /\ (i - 1) + 1 = i
      BY <1>3
    <3>2. g[i] = h[i + 1] /\ g[i - 1] = h[i] /\ t[i] = s[i + 1]
      BY <1>3, <3>1
    <3>3. h[i + 1] = Heard(h[(i + 1) - 1], s[i + 1])
      BY <1>2, <3>1
    <3> HIDE DEF g
    <3> QED BY <3>1, <3>2, <3>3
  <2> HIDE DEF g
  <2>3. Messages(t) = g[m]
    BY <1>3, <2>1, <2>2, ScanIs
  <2> QED BY <1>2, <1>5, <2>1, <2>3 DEF t
<1>6. CASE first.act # "none"
  <2> DEFINE S == {i \in 0..m : h[i + 1] # <<>> /\ Head(h[i + 1]) = first}
  <2>1. 0 \in S /\ h[1] = <<first>>
    <3>1. h[1] = Append(<<>>, first)
      BY <1>4, <1>6 DEF Heard
    <3>2. h[1] = <<first>> /\ Head(<<first>>) = first /\ <<first>> # <<>>
      BY <3>1
    <3>3. 0 + 1 = 1 /\ 0 \in 0..m
      BY <1>3
    <3> QED BY <3>2, <3>3
  <2>2. ASSUME NEW i \in 1..m PROVE h[i + 1] = Heard(h[i], s[i + 1]) /\ IsSeq(h[i])
    <3>1. i + 1 \in 1..n /\ (i + 1) - 1 = i /\ i \in 0..n
      BY <1>3
    <3>2. h[i + 1] = Heard(h[(i + 1) - 1], s[i + 1])
      BY <1>2, <3>1
    <3> QED BY <1>2, <3>1, <3>2
  <2>3. ASSUME NEW i \in 1..m, i - 1 \in S PROVE i \in S
    <3>1. h[i] # <<>> /\ Head(h[i]) = first /\ i \in 0..m
      <4>1. (i - 1) + 1 = i /\ i \in 0..m
        BY <1>3
      <4> QED BY <2>3, <4>1
    <3>2. h[i + 1] = h[i] \/ \E x : h[i + 1] = Append(h[i], x)
      BY <2>2 DEF Heard
    <3>3. h[i + 1] # <<>> /\ Head(h[i + 1]) = Head(h[i])
      <4>1. ASSUME NEW x, h[i + 1] = Append(h[i], x)
            PROVE  h[i + 1] # <<>> /\ Head(h[i + 1]) = Head(h[i])
        BY ONLY <2>2, <3>1, <4>1, HeadOfAppend, AppendFacts
      <4> QED BY <3>1, <3>2, <4>1
    <3> QED BY <3>1, <3>3
  <2>4. 0..m \subseteq S
    <3> HIDE DEF S
    <3> QED BY <1>3, <2>1, <2>3, Upwards
  <2> DEFINE g == [i \in 0..m |-> Tail(h[i + 1])]
  <2>5. g[0] = <<>> /\ g[m] = Tail(h[n])
    <3>1. Tail(<<first>>) = <<>>
      OBVIOUS
    <3>2. 0 + 1 = 1 /\ 0 \in 0..m /\ m \in 0..m
      BY <1>3
    <3> QED BY <1>3, <2>1, <3>1, <3>2
  <2>6. ASSUME NEW i \in 1..Len(t) PROVE g[i] = Heard(g[i - 1], t[i])
    <3>1. i \in 1..m /\ i \in 0..m /\ i - 1 \in 0..m /\ (i - 1) + 1 = i
      BY <1>3
    <3>2. g[i] = Tail(h[i + 1]) /\ g[i - 1] = Tail(h[i]) /\ t[i] = s[i + 1]
      BY <1>3, <3>1
    <3>3. h[i] # <<>>
      <4>1. i - 1 \in S
        BY <2>4, <3>1
      <4> QED BY <3>1, <4>1
    <3>4. h[i + 1] = Heard(h[i], t[i]) /\ IsSeq(h[i])
      BY <2>2, <3>1, <3>2
    <3>5. Tail(Heard(h[i], t[i])) = Heard(Tail(h[i]), t[i])
      <4> DEFINE w == h[i]
                 x == t[i]
      <4>1. IsSeq(w) /\ w # <<>>
        BY <3>3, <3>4
      <4> HIDE DEF w, x
      <4>2. Tail(Heard(w, x)) = Heard(Tail(w), x)
        BY <4>1, HeadOfAppend DEF Heard
      <4> QED BY <4>2 DEF w, x
    <3> HIDE DEF g
    <3> QED BY <3>2, <3>4, <3>5
  <2> HIDE DEF g
  <2>7. Messages(t) = Tail(h[n])
    BY <1>3, <2>5, <2>6, ScanIs
  <2>8. h[n] # <<>> /\ Head(h[n]) = first
    <3>1. m \in S
      BY <1>3, <2>4
    <3> QED BY <1>3, <3>1
  <2> QED BY <1>2, <1>6, <2>7, <2>8 DEF t
<1> QED BY <1>5, <1>6 DEF t

\* What is found among the first items remains.
LEMMA ScanPrefix ==
  ASSUME NEW s, IsSeq(s), NEW h, Scans(h, s), NEW k \in 0..Len(s)
  PROVE  /\ IsSeq(h[k]) /\ Len(h[k]) \in 0..Len(Messages(s))
         /\ \A j \in 1..Len(h[k]) : Messages(s)[j] = h[k][j]
<1> DEFINE n == Len(s)
<1>1. n \in Nat /\ k \in 0..n
  BY SeqFacts
<1>2. /\ h[0] = <<>> /\ \A i \in 1..n : h[i] = Heard(h[i - 1], s[i])
      /\ \A i \in 0..n : IsSeq(h[i])
      /\ Messages(s) = h[n]
  BY ScanFacts, MessagesScanned
<1>3. k \in 0..n /\ n \in Nat /\ n \in 0..n
  BY <1>1
<1> HIDE DEF n
<1>4. Len(h[n]) \in Nat
  BY <1>2, <1>3, SeqFacts
<1> DEFINE Begins(u, v) == Len(u) <= Len(v) /\ \A j \in 1..Len(u) : v[j] = u[j]
           S == {i \in 0..n : i >= k => Begins(h[k], h[i])}
<1>5. Len(h[k]) \in Nat /\ IsSeq(h[k])
  BY <1>2, <1>3, SeqFacts
<1>6. 0 \in S
  BY <1>3, <1>5
<1>7. ASSUME NEW i \in 1..n, i - 1 \in S PROVE i \in S
  <2>1. CASE i < k
    BY <1>3, <2>1
  <2>2. CASE i = k
    BY <1>3, <1>5, <2>2
  <2>3. CASE i > k
    <3>1. i - 1 >= k /\ i - 1 \in 0..n /\ i \in 0..n
      BY <1>3, <2>3
    <3>2. Begins(h[k], h[i - 1])
      BY <1>7, <3>1
    <3>3. h[i] = h[i - 1] \/ \E x : h[i] = Append(h[i - 1], x)
      BY <1>2 DEF Heard
    <3>4. IsSeq(h[i - 1]) /\ Len(h[i - 1]) \in Nat
      BY <1>2, <3>1, SeqFacts
    <3>5. Begins(h[k], h[i])
      <4>1. CASE h[i] = h[i - 1]
        <5> HIDE DEF Begins
        <5> QED BY <3>2, <4>1
      <4>2. ASSUME NEW x, h[i] = Append(h[i - 1], x) PROVE Begins(h[k], h[i])
        <5>1. /\ Len(h[i]) = Len(h[i - 1]) + 1
              /\ \A j \in 1..Len(h[i - 1]) : h[i][j] = h[i - 1][j]
          BY <3>4, <4>2, AppendFacts
        <5> QED BY <1>5, <3>2, <3>4, <5>1
      <4> HIDE DEF Begins
      <4> QED BY <3>3, <4>1, <4>2
    <3> HIDE DEF Begins
    <3> QED BY <3>1, <3>5
  <2> QED BY <1>3, <2>1, <2>2, <2>3
<1>8. Begins(h[k], h[n])
  <2>1. 0..n \subseteq S
    <3> HIDE DEF S
    <3> QED BY <1>3, <1>6, <1>7, Upwards
  <2> HIDE DEF Begins
  <2> QED BY <1>3, <2>1
<1> QED BY <1>2, <1>4, <1>5, <1>8

\* The first items: the first messages.
LEMMA MessagesPrefix ==
  ASSUME NEW s, IsSeq(s), NEW k \in 0..Len(s)
  PROVE  \E i \in 0..Len(Messages(s)) : Messages(SubSeq(s, 1, k)) = SubSeq(Messages(s), 1, i)
<1> DEFINE t == SubSeq(s, 1, k)
           w == Messages(s)
<1>1. PICK h : Scans(h, s)
  BY ScanExists
<1>2. Len(s) \in Nat /\ h[0] = <<>> /\ \A i \in 1..Len(s) : h[i] = Heard(h[i - 1], s[i])
  BY <1>1, SeqFacts, ScanFacts
<1>3. IsSeq(t) /\ Len(t) = k /\ \A i \in 1..k : t[i] = s[i]
  BY PrefixFacts
<1> HIDE DEF t
<1>4. Messages(t) = h[k]
  <2>1. \A i \in 1..Len(t) : h[i] = Heard(h[i - 1], t[i])
    BY <1>2, <1>3
  <2> QED BY <1>2, <1>3, <2>1, ScanIs
<1>5. /\ IsSeq(h[k]) /\ Len(h[k]) \in 0..Len(w) /\ IsSeq(w)
      /\ \A j \in 1..Len(h[k]) : w[j] = h[k][j]
  BY <1>1, ScanPrefix, MessagesIsSeq
<1> DEFINE l == Len(h[k])
           u == SubSeq(w, 1, l)
<1> HIDE DEF w
<1>6. IsSeq(u) /\ Len(u) = l /\ \A j \in 1..l : u[j] = w[j]
  BY <1>5, PrefixFacts
<1>7. u = h[k]
  <2> HIDE DEF u
  <2> QED BY <1>5, <1>6, SameSeq
<1> QED BY <1>4, <1>5, <1>7 DEF t, w

-----------------------------------------------------------------------------
(* Names are exchanged as NbDictionary says.                               *)
(* A definition is followed by its use, and a use ends a call of the       *)
(* client: there are at most two messages for each call not yet delivered, *)
(* which is room enough on the wire of the dictionary.                     *)

\* An item of the way tells the client of a name, announces one or does neither.
LEMMA StepMeans ==
  ASSUME NEW a, NEW d, NEW it, NEW b, NEW e, Step(a, d, it, b, e)
  PROVE  /\ IsSeq(d) /\ d # <<>> /\ (e = d \/ e = Tail(d))
         /\ it.meant.act \in {"none", "define", "use"}
         /\ it.meant.act = "use" => e = Tail(d)
<1> DEFINE h == Head(d)
<1>1. /\ IsSeq(d) /\ d # <<>>
      /\ \/ QuietStep(a, h, it, b) /\ e = d
         \/ TellingStep(a, h, it, b) /\ e = Tail(d)
  BY DEF Step
<1> HIDE DEF h
<1>2. CASE TellingStep(a, h, it, b) /\ (GroupStep(a, h, it, b) \/ AttrStep(a, h, it, b)) /\ e = Tail(d)
  <2>1. PICK ns, name : it = PidOf(ns, name, it.n)
    BY <1>2 DEF GroupStep, AttrStep
  <2>2. it.meant.act = "use"
    BY <2>1, UseMeans
  <2> QED BY <1>1, <1>2, <2>2
<1>3. CASE KeysEndStep(a, it, b)
  <2>1. PICK ns, name, p : it = BreakOfKeys(ns, name, p)
    BY <1>3 DEF KeysEndStep
  <2>2. it.meant.act = "define"
    BY <2>1, DefinitionMeans
  <2> QED BY <1>1, <2>2
<1>4. CASE \/ MapStep(a, h, it, b) \/ KeysMapStep(a, it, b) \/ KeysStep(a, it, b)
           \/ ZeroStep(a, it, b) \/ KeysNameStep(a, it, b) \/ KeysPidStep(a, it, b)
           \/ ValueStep(a, h, it, b) \/ EndStep(a, h, it, b) \/ ArrayStep(a, h, it, b)
  <2>1. it = MapIndef \/ it = Break \/ \E n : it = Uint(n) \/ it = Array(n) \/ it = Text(n)
    BY <1>4 DEF MapStep, KeysMapStep, KeysStep, ZeroStep, KeysNameStep, KeysPidStep,
                ValueStep, EndStep, ArrayStep
  <2>2. it.meant.act = "none"
    BY <2>1, PlainMeans
  <2> QED BY <1>1, <2>2
<1>5. CASE QuietStep(a, h, it, b) /\ e = d
  BY <1>3, <1>4, <1>5 DEF QuietStep
<1>6. CASE TellingStep(a, h, it, b) /\ e = Tail(d)
  BY <1>2, <1>4, <1>6 DEF TellingStep
<1> QED BY <1>1, <1>5, <1>6

\* Behind every definition the pid is used.
Announced(messages) ==
  \A i \in 1..Len(messages) :
    messages[i].act = "define" => i < Len(messages) /\ messages[i + 1].act = "use"

\* Two messages at most for each thing said.
LEMMA FewMessages ==
  ASSUME NEW s, IsSeq(s), NEW a, NEW d, IsSeq(d), NEW b, NEW e, Path(s, a, d, b, e),
         Announced(Messages(s))
  PROVE  Len(Messages(s)) <= 2 * Len(d)
<1> DEFINE n == Len(s)
           w == Messages(s)
           L == Len(d)
<1>1. PICK h : Scans(h, s)
  BY ScanExists
<1>2. /\ n \in Nat /\ h[0] = <<>> /\ \A i \in 1..n : h[i] = Heard(h[i - 1], s[i])
      /\ w = h[n] /\ IsSeq(w) /\ Len(w) \in Nat /\ L \in Nat
  BY <1>1, SeqFacts, ScanFacts, MessagesScanned, MessagesIsSeq
<1>3. \A k \in 0..n : /\ IsSeq(h[k]) /\ Len(h[k]) \in 0..Len(w)
                      /\ \A j \in 1..Len(h[k]) : w[j] = h[k][j]
  BY <1>1, ScanPrefix
<1>4. PICK at, due :
        /\ at[0] = a /\ due[0] = d
        /\ \A i \in 1..n : Step(at[i - 1], due[i - 1], s[i], at[i], due[i])
  BY DEF Path
<1>5. \A i \in 1..Len(w) : w[i].act = "define" => i < Len(w) /\ w[i + 1].act = "use"
  BY DEF Announced
<1> DEFINE Open(m) == m # <<>> /\ m[Len(m)].act = "define"
           S == {k \in 0..n : /\ IsSeq(due[k])
                              /\ \/ Len(h[k]) + 2 * Len(due[k]) <= 2 * L
                                 \/ Open(h[k]) /\ Len(h[k]) + 2 * Len(due[k]) <= 2 * L + 1}
<1> HIDE DEF n, w, L
<1>6. 0 \in S
  <2>1. Len(h[0]) = 0 /\ Len(due[0]) = L
    BY <1>2, <1>4, NoElements DEF L
  <2>2. Len(h[0]) + 2 * Len(due[0]) <= 2 * L
    <3> HIDE DEF S, Open
    <3> QED BY <1>2, <2>1
  <2>3. 0 \in 0..n /\ IsSeq(due[0])
    BY <1>2, <1>4
  <2> HIDE DEF Open
  <2> QED BY <2>2, <2>3
<1>7. ASSUME NEW k \in 1..n, k - 1 \in S PROVE k \in S
  <2> DEFINE f == due[k - 1]
             g == due[k]
             u == h[k - 1]
             m == s[k].meant
  <2>1. /\ IsSeq(f) /\ f # <<>> /\ (g = f \/ g = Tail(f))
        /\ m.act \in {"none", "define", "use"} /\ (m.act = "use" => g = Tail(f))
    <3>1. Step(at[k - 1], f, s[k], at[k], g)
      BY <1>4
    <3> HIDE DEF f, g
    <3> QED BY <3>1, StepMeans
  <2>2. /\ Len(f) \in Nat /\ Len(f) > 0 /\ IsSeq(g) /\ Len(g) \in Nat
        /\ Len(g) = Len(f) \/ Len(g) = Len(f) - 1
        /\ m.act = "use" => Len(g) = Len(f) - 1
    <3> HIDE DEF f, g, m
    <3> QED BY <2>1, SeqFacts, TailFacts
  <2>3. h[k] = IF m.act = "none" THEN u ELSE Append(u, m)
    BY <1>2 DEF Heard
  <2>4. /\ k - 1 \in 0..n /\ k \in 0..n /\ IsSeq(u) /\ Len(u) \in Nat
        /\ \A j \in 1..Len(u) : w[j] = u[j]
        /\ IsSeq(h[k]) /\ Len(h[k]) \in 0..Len(w) /\ \A j \in 1..Len(h[k]) : w[j] = h[k][j]
    <3>1. k - 1 \in 0..n /\ k \in 0..n
      BY <1>2
    <3> QED BY <1>2, <1>3, <3>1
  <2>5. \/ Len(u) + 2 * Len(f) <= 2 * L
        \/ Open(u) /\ Len(u) + 2 * Len(f) <= 2 * L + 1
    BY <1>7
  <2> HIDE DEF f, g, u, m
  <2>6. CASE m.act = "none"
    <3>1. h[k] = u
      BY <2>3, <2>6
    <3>2. \/ Len(u) + 2 * Len(g) <= 2 * L
          \/ Open(u) /\ Len(u) + 2 * Len(g) <= 2 * L + 1
      <4> HIDE DEF Open
      <4> QED BY <1>2, <2>2, <2>4, <2>5
    <3> HIDE DEF Open
    <3> QED BY <2>2, <2>4, <3>1, <3>2 DEF g
  <2>7. CASE m.act # "none"
    <3>1. h[k] = Append(u, m)
      BY <2>3, <2>7
    <3>2. Len(h[k]) = Len(u) + 1 /\ h[k][Len(u) + 1] = m /\ h[k] # <<>>
      BY <2>4, <3>1, AppendFacts
    <3>3. w[Len(u) + 1] = m
      BY <2>4, <3>2
    <3>4. CASE m.act = "use"
      <4>1. Len(h[k]) + 2 * Len(g) <= 2 * L
        <5> HIDE DEF Open
        <5> QED BY <1>2, <2>2, <2>4, <2>5, <3>2, <3>4
      <4> HIDE DEF Open
      <4> QED BY <2>2, <2>4, <4>1 DEF g
    <3>5. CASE m.act = "define"
      <4>1. ~Open(u)
        <5> SUFFICES ASSUME Open(u) PROVE FALSE
          OBVIOUS
        <5>1. Len(u) \in 1..Len(u) /\ u[Len(u)].act = "define"
          BY <2>4, SeqFacts
        <5>2. Len(u) \in 1..Len(w) /\ w[Len(u)].act = "define"
          BY <1>2, <2>4, <3>2, <5>1
        <5>3. w[Len(u) + 1].act = "use"
          BY <1>5, <5>2
        <5> QED BY <3>3, <3>5, <5>3
      <4>2. Open(h[k])
        BY <3>2, <3>5
      <4>3. Len(h[k]) + 2 * Len(g) <= 2 * L + 1
        <5> HIDE DEF Open
        <5> QED BY <1>2, <2>2, <2>4, <2>5, <3>2, <4>1
      <4> HIDE DEF Open
      <4> QED BY <2>2, <2>4, <4>2, <4>3 DEF g
    <3> QED BY <2>1, <2>7, <3>4, <3>5
  <2> QED BY <2>6, <2>7
<1>8. 0..n \subseteq S
  <2> HIDE DEF S
  <2> QED BY <1>2, <1>6, <1>7, Upwards
<1>9. n \in S
  <2> HIDE DEF S
  <2> QED BY <1>2, <1>8
<1>10. ~Open(w)
  <2> SUFFICES ASSUME Open(w) PROVE FALSE
    OBVIOUS
  <2>1. Len(w) \in 1..Len(w) /\ w[Len(w)].act = "define"
    BY <1>2, SeqFacts
  <2> QED BY <1>2, <1>5, <2>1
<1>11. IsSeq(due[n]) /\ Len(due[n]) \in Nat /\ Len(w) + 2 * Len(due[n]) <= 2 * L
  <2>1. IsSeq(due[n])
    BY <1>9
  <2>2. Len(due[n]) \in Nat
    BY <2>1, SeqFacts
  <2> QED BY <1>2, <1>9, <1>10, <2>1, <2>2
<1>12. Len(w) <= 2 * L
  <2>1. PICK x, y : x = Len(due[n]) /\ y = Len(w)
    OBVIOUS
  <2>2. x \in Nat /\ y \in Nat /\ L \in Nat /\ y + 2 * x <= 2 * L
    BY <1>2, <1>11, <2>1
  <2>3. y <= 2 * L
    BY ONLY <2>2
  <2> QED BY <2>1, <2>3
<1> QED BY <1>12 DEF w, L

\* The names of a namespace among all names.
LEMMA NamesAmongAll ==
  ASSUME NEW ns \in Namespaces, NEW name \in NamesIn(ns)
  PROVE  name \in AllNames /\ AllPids[ns][name] = pid[ns][name]
<1>1. name \in AllNames
  BY DEF Namespaces, NamesIn, AllNames
<1> QED BY <1>1 DEF AllPids

\* lid_to_pid, in the terms of the dictionary.
LEMMA AssignAll ==
  ASSUME PidsOK, PidsInRange(pid, max_pid), NEW ns \in Namespaces, NEW name \in NamesIn(ns),
         Assign(ns, name)
  PROVE  /\ pid[ns][name] # 0 =>
              /\ LidToPid(ns, name) = pid[ns][name]
              /\ AllPids' = AllPids /\ max_pid' = max_pid
         /\ pid[ns][name] = 0 =>
              /\ LidToPid(ns, name) = max_pid[ns] + 1
              /\ AllPids' = [AllPids EXCEPT ![ns][name] = max_pid[ns] + 1]
              /\ max_pid' = [max_pid EXCEPT ![ns] = max_pid[ns] + 1]
<1> DEFINE p == LidToPid(ns, name)
<1>1. \A n \in Namespaces : \A y \in NamesIn(n) :
        pid'[n][y] = IF n = ns /\ y = name THEN p ELSE pid[n][y]
  BY AssignEffect
<1>2. /\ pid[ns][name] # 0 => p = pid[ns][name] /\ max_pid' = max_pid
      /\ pid[ns][name] = 0 =>
           p = max_pid[ns] + 1 /\ max_pid' = [max_pid EXCEPT ![ns] = max_pid[ns] + 1]
  BY DEF Assign, LidToPid
<1> HIDE DEF p
<1>3. AllPids' = [n \in Namespaces |-> [x \in AllNames |->
                    IF x \in NamesIn(n) THEN pid'[n][x] ELSE 0]]
  BY DEF AllPids
<1>4. name \in AllNames
  BY NamesAmongAll
<1>5. AllPids' = [AllPids EXCEPT ![ns][name] = p]
  <2>1. [AllPids EXCEPT ![ns][name] = p] =
          [n \in Namespaces |-> [x \in AllNames |->
             IF n = ns /\ x = name THEN p ELSE IF x \in NamesIn(n) THEN pid[n][x] ELSE 0]]
    BY <1>4 DEF AllPids
  <2>2. ASSUME NEW n \in Namespaces, NEW x \in AllNames
        PROVE  (IF x \in NamesIn(n) THEN pid'[n][x] ELSE 0)
                 = IF n = ns /\ x = name THEN p ELSE IF x \in NamesIn(n) THEN pid[n][x] ELSE 0
    BY <1>1
  <2> QED BY <1>3, <2>1, <2>2
<1>6. pid[ns][name] # 0 => AllPids' = AllPids
  <2> SUFFICES ASSUME pid[ns][name] # 0 PROVE AllPids' = AllPids
    OBVIOUS
  <2>1. ASSUME NEW n \in Namespaces, NEW x \in AllNames
        PROVE  (IF x \in NamesIn(n) THEN pid'[n][x] ELSE 0)
                 = IF x \in NamesIn(n) THEN pid[n][x] ELSE 0
    BY <1>1, <1>2
  <2> QED BY <1>3, <2>1 DEF AllPids
<1> QED BY <1>2, <1>5, <1>6 DEF p

\* Of the keys of a name the definition is a message.
LEMMA KeysMessages ==
  ASSUME NEW s, IsSeq(s), NEW ns, NEW name
  PROVE  /\ IsSeq(WithKeys(s, ns, name))
         /\ Messages(WithKeys(s, ns, name)) =
              IF pid[ns][name] # 0 THEN Messages(s)
              ELSE Append(Messages(s), Dictionary!Define(ns, name, LidToPid(ns, name)))
<1>1. CASE pid[ns][name] # 0
  BY <1>1 DEF WithKeys
<1>2. CASE pid[ns][name] = 0
  <2> DEFINE p == LidToPid(ns, name)
             a == Uint(1)
             b == MapIndef
             c == Text(name)
             d == Uint(p)
             e == BreakOfKeys(ns, name, p)
             m == Dictionary!Define(ns, name, p)
  <2>1. WithKeys(s, ns, name) = Append(Append(Append(Append(Append(s, a), b), c), d), e)
    BY <1>2 DEF WithKeys, KeysPut
  <2>2. /\ a.meant.act = "none" /\ b.meant.act = "none" /\ c.meant.act = "none"
        /\ d.meant.act = "none"
    <3> HIDE DEF p
    <3> QED BY PlainMeans
  <2>3. e.meant = m /\ e.meant.act = "define"
    <3> HIDE DEF p
    <3> QED BY DEF BreakOfKeys, Item, Dictionary!Define
  <2> DEFINE s1 == Append(s, a)
             s2 == Append(s1, b)
             s3 == Append(s2, c)
             s4 == Append(s3, d)
             s5 == Append(s4, e)
  <2>4. WithKeys(s, ns, name) = s5
    BY <2>1
  <2> HIDE DEF a, b, c, d, e, m, p
  <2>5. IsSeq(s1) /\ Messages(s1) = Messages(s)
    BY <2>2, AppendFacts, MessagesAppend DEF Heard
  <2> HIDE DEF s1
  <2>6. IsSeq(s2) /\ Messages(s2) = Messages(s)
    BY <2>2, <2>5, AppendFacts, MessagesAppend DEF Heard
  <2> HIDE DEF s2
  <2>7. IsSeq(s3) /\ Messages(s3) = Messages(s)
    BY <2>2, <2>6, AppendFacts, MessagesAppend DEF Heard
  <2> HIDE DEF s3
  <2>8. IsSeq(s4) /\ Messages(s4) = Messages(s)
    BY <2>2, <2>7, AppendFacts, MessagesAppend DEF Heard
  <2> HIDE DEF s4
  <2>9. IsSeq(s5) /\ Messages(s5) = Append(Messages(s), m)
    BY <2>3, <2>8, AppendFacts, MessagesAppend DEF Heard
  <2> HIDE DEF s5
  <2> QED BY <1>2, <2>4, <2>9 DEF m, p
<1> QED BY <1>1, <1>2

\* One message more, and two.
LEMMA AnnouncedUse ==
  ASSUME NEW w, IsSeq(w), Announced(w), NEW u, u.act = "use"
  PROVE  Announced(Append(w, u))
<1>1. /\ Len(w) \in Nat /\ Len(Append(w, u)) = Len(w) + 1 /\ Append(w, u)[Len(w) + 1] = u
      /\ \A i \in 1..Len(w) : Append(w, u)[i] = w[i]
  BY SeqFacts, AppendFacts
<1> DEFINE t == Append(w, u)
<1> HIDE DEF t
<1>2. ASSUME NEW i \in 1..Len(t), t[i].act = "define"
      PROVE  i < Len(t) /\ t[i + 1].act = "use"
  <2>1. i # Len(w) + 1
    BY <1>1, <1>2 DEF t
  <2>2. i \in 1..Len(w) /\ w[i].act = "define"
    BY <1>1, <1>2, <2>1 DEF t
  <2>3. i < Len(w) /\ w[i + 1].act = "use"
    BY <2>2 DEF Announced
  <2>4. i + 1 \in 1..Len(w)
    BY <1>1, <2>2, <2>3
  <2> QED BY <1>1, <2>2, <2>3, <2>4 DEF t
<1> QED BY <1>2 DEF Announced, t

\* A definition with its use.
LEMMA AnnouncedBoth ==
  ASSUME NEW w, IsSeq(w), Announced(w), NEW d, NEW u, u.act = "use"
  PROVE  Announced(Append(Append(w, d), u))
<1> DEFINE v == Append(w, d)
           t == Append(v, u)
<1>1. /\ Len(w) \in Nat /\ IsSeq(v) /\ Len(v) = Len(w) + 1
      /\ \A i \in 1..Len(w) : v[i] = w[i]
  BY SeqFacts, AppendFacts
<1> HIDE DEF v
<1>2. /\ Len(t) = Len(w) + 2 /\ t[Len(w) + 2] = u /\ \A i \in 1..Len(w) : t[i] = w[i]
  <2>1. /\ Len(t) = Len(v) + 1 /\ t[Len(v) + 1] = u
        /\ \A i \in 1..Len(v) : t[i] = v[i]
    BY <1>1, AppendFacts
  <2>2. Len(v) + 1 = Len(w) + 2
    BY <1>1
  <2>3. \A i \in 1..Len(w) : i \in 1..Len(v)
    BY <1>1
  <2> QED BY <1>1, <2>1, <2>2, <2>3
<1> HIDE DEF t
<1>3. ASSUME NEW i \in 1..Len(t), t[i].act = "define"
      PROVE  i < Len(t) /\ t[i + 1].act = "use"
  <2>1. i \in 1..Len(w) \/ i = Len(w) + 1
    BY <1>1, <1>2, <1>3
  <2>2. CASE i \in 1..Len(w)
    <3>1. i < Len(w) /\ w[i + 1].act = "use"
      BY <1>2, <1>3, <2>2 DEF Announced
    <3>2. i + 1 \in 1..Len(w)
      BY <1>1, <2>2, <3>1
    <3> QED BY <1>1, <1>2, <2>2, <3>1, <3>2
  <2>3. CASE i = Len(w) + 1
    <3>1. i + 1 = Len(w) + 2 /\ i < Len(t)
      BY <1>1, <1>2, <2>3
    <3> QED BY <1>2, <3>1
  <2> QED BY <2>1, <2>2, <2>3
<1> QED BY <1>3 DEF Announced, t, v

\* One message less.
LEMMA AnnouncedTail ==
  ASSUME NEW w, IsSeq(w), w # <<>>, Announced(w)
  PROVE  Announced(Tail(w))
<1>1. /\ Len(w) \in Nat /\ Len(Tail(w)) = Len(w) - 1
      /\ \A i \in 1..(Len(w) - 1) : Tail(w)[i] = w[i + 1]
  BY SeqFacts, TailFacts
<1> DEFINE t == Tail(w)
<1> HIDE DEF t
<1>2. ASSUME NEW i \in 1..Len(t), t[i].act = "define"
      PROVE  i < Len(t) /\ t[i + 1].act = "use"
  <2>1. i \in 1..(Len(w) - 1) /\ i + 1 \in 1..Len(w)
    BY <1>1 DEF t
  <2>2. w[i + 1].act = "define"
    BY <1>1, <1>2, <2>1 DEF t
  <2>3. i + 1 < Len(w) /\ w[(i + 1) + 1].act = "use"
    BY <2>1, <2>2 DEF Announced
  <2>4. i + 1 \in 1..(Len(w) - 1)
    BY <1>1, <2>1, <2>3
  <2> QED BY <1>1, <2>3, <2>4 DEF t
<1> QED BY <1>2 DEF Announced, t

\* The messages are those of the exchange of names as long as the sender may go on.
AnnouncedInv == closed = "no" => Announced(Messages(stream))

\* An ID and, at its first use, the definition before it.
LEMMA NameSent ==
  ASSUME PidsOK, PidsInRange(pid, max_pid), NEW ns \in Namespaces, NEW name \in NamesIn(ns),
         Assign(ns, name), closed = "no", UNCHANGED <<closed, pid_to_lid>>,
         IsSeq(stream), Announced(Messages(stream)), Len(Messages(stream)) < 2 * MaxInFlight + 1,
         NEW s, IsSeq(s), Messages(s) = Messages(stream),
         Messages(stream') = Append(Messages(WithKeys(s, ns, name)),
                                    Dictionary!Use(ns, name, LidToPid(ns, name)))
  PROVE  Dictionary!Next /\ Announced(Messages(stream'))
<1> DEFINE w == Messages(stream)
           p == LidToPid(ns, name)
           u == Dictionary!Use(ns, name, p)
           d == Dictionary!Define(ns, name, p)
<1>1. IsSeq(w) /\ Announced(w) /\ u.act = "use"
  <2>1. u.act = "use"
    <3> HIDE DEF p
    <3> QED BY DEF Dictionary!Use
  <2> QED BY <2>1, MessagesIsSeq
<1>2. Messages(WithKeys(s, ns, name)) = IF pid[ns][name] # 0 THEN w ELSE Append(w, d)
  BY KeysMessages
<1>3. name \in AllNames /\ AllPids[ns][name] = pid[ns][name]
  BY NamesAmongAll
<1>4. CASE pid[ns][name] # 0
  <2>1. p = AllPids[ns][name] /\ AllPids' = AllPids /\ max_pid' = max_pid
    BY <1>3, <1>4, AssignAll
  <2>2. Messages(stream') = Append(w, u)
    BY <1>2, <1>4
  <2>3. Dictionary!SendKnown(ns, name)
    <3>1. Messages(stream)' = Append(Messages(stream), Dictionary!Use(ns, name, AllPids[ns][name]))
      BY <2>1, <2>2
    <3> HIDE DEF w, p, u, d
    <3> QED BY <1>3, <1>4, <2>1, <3>1 DEF Dictionary!SendKnown
  <2>4. Announced(Messages(stream'))
    <3> HIDE DEF w, u
    <3> QED BY <1>1, <2>2, AnnouncedUse
  <2> QED BY <1>3, <2>3, <2>4 DEF Dictionary!Next
<1>5. CASE pid[ns][name] = 0
  <2>1. /\ p = max_pid[ns] + 1
        /\ AllPids' = [AllPids EXCEPT ![ns][name] = max_pid[ns] + 1]
        /\ max_pid' = [max_pid EXCEPT ![ns] = max_pid[ns] + 1]
    BY <1>5, AssignAll
  <2>2. Messages(stream') = Append(Append(w, d), u)
    BY <1>2, <1>5
  <2>3. Append(Append(w, d), u) = w \o <<d, u>>
    <3> HIDE DEF w, d, u
    <3>1. <<d, u>> = Append(<<d>>, u)
      OBVIOUS
    <3>2. IsSeq(<<d>>)
      <4>1. <<d>> \in Seq({d})
        OBVIOUS
      <4> QED BY <4>1 DEF IsSeq
    <3>3. w \o <<d>> = Append(w, d)
      BY <1>1, ConcatAppend, NoElements
    <3>4. w \o Append(<<d>>, u) = Append(w \o <<d>>, u)
      BY <1>1, <3>2, ConcatAppend
    <3> QED BY <3>1, <3>3, <3>4
  <2>4. Dictionary!SendNew(ns, name)
    <3>1. Messages(stream)' = Messages(stream) \o <<Dictionary!Define(ns, name, max_pid[ns] + 1),
                                                    Dictionary!Use(ns, name, max_pid[ns] + 1)>>
      BY <2>1, <2>2, <2>3
    <3> HIDE DEF w, p, u, d
    <3> QED BY <1>3, <1>5, <2>1, <3>1 DEF Dictionary!SendNew
  <2>5. Announced(Messages(stream'))
    <3> HIDE DEF w, d, u
    <3> QED BY <1>1, <2>2, AnnouncedBoth
  <2> QED BY <1>3, <2>4, <2>5 DEF Dictionary!Next
<1> QED BY <1>4, <1>5

\* The pid itself is a use of the name.
LEMMA PidMessage ==
  ASSUME NEW s, IsSeq(s), NEW ns, NEW name, NEW p
  PROVE  Messages(Append(s, PidOf(ns, name, p))) = Append(Messages(s), Dictionary!Use(ns, name, p))
<1> DEFINE x == PidOf(ns, name, p)
           u == Dictionary!Use(ns, name, p)
<1>1. x.meant = u /\ x.meant.act = "use"
  BY DEF PidOf, Item, Dictionary!Use
<1> HIDE DEF x, u
<1>2. Messages(Append(s, x)) = Append(Messages(s), u)
  BY <1>1, MessagesAppend DEF Heard
<1> QED BY <1>2 DEF x, u

\* The items that are no message.
LEMMA PlainMessage ==
  ASSUME NEW s, IsSeq(s), NEW x,
         \/ x = MapIndef \/ x = Break \/ \E n : x = Uint(n) \/ x = Array(n) \/ x = Text(n)
  PROVE  IsSeq(Append(s, x)) /\ Messages(Append(s, x)) = Messages(s)
<1>1. x.meant.act = "none"
  BY PlainMeans
<1> QED BY <1>1, AppendFacts, MessagesAppend DEF Heard

\* Room on the wire of the dictionary.
LEMMA WireHasRoom ==
  ASSUME Exchange, AnnouncedInv, SenderReady
  PROVE  Len(Messages(stream)) < 2 * MaxInFlight + 1
<1>1. closed = "no" /\ Len(pending) < MaxInFlight /\ Announced(Messages(stream))
  BY DEF SenderReady, AnnouncedInv
<1>2. IsSeq(stream) /\ IsSeq(pending)
  BY DEF Exchange, TypesInv, StreamOK, NatItems
<1>3. rcall.at \notin Errors
  BY <1>1 DEF Exchange, InSynch
<1>4. PICK a : Leads(a)
  BY <1>3 DEF Exchange, InSynch
<1>5. PICK b, e : Path(stream, a, pending, b, e)
  BY <1>4 DEF Leads
<1>6. Len(Messages(stream)) <= 2 * Len(pending)
  BY <1>1, <1>2, <1>5, FewMessages
<1>7. Len(Messages(stream)) \in Nat /\ Len(pending) \in Nat
  BY <1>2, SeqFacts, MessagesIsSeq
<1> DEFINE m == Len(Messages(stream))
           l == Len(pending)
<1>8. m \in Nat /\ l \in Nat /\ m <= 2 * l /\ l < MaxInFlight /\ MaxInFlight \in Nat
  BY <1>1, <1>6, <1>7, BoundsAssumption
<1> HIDE DEF m, l
<1>9. m < 2 * MaxInFlight + 1
  BY ONLY <1>8
<1> QED BY <1>9 DEF m

\* Steps that are none of the dictionary.
LEMMA NamesUntouched ==
  ASSUME AnnouncedInv, UNCHANGED <<pid, max_pid, closed, pid_to_lid>>, Messages(stream') = Messages(stream)
  PROVE  UNCHANGED Dictionary!vars /\ AnnouncedInv'
<1>1. AllPids' = AllPids
  BY DEF AllPids
<1>2. Messages(stream)' = Messages(stream)
  OBVIOUS
<1> QED BY <1>1, <1>2 DEF Dictionary!vars, AnnouncedInv

\* The sender's steps.
LEMMA SendRefines ==
  ASSUME Exchange, AnnouncedInv, Send
  PROVE  [Dictionary!Next]_(Dictionary!vars) /\ AnnouncedInv'
<1>1. /\ SenderInv /\ PidsOK /\ IsSeq(stream) /\ PidsInRange(pid, max_pid)
  BY DEF Exchange, TypesInv, StreamOK, NatItems, NamesInv
<1>2. ASSUME NEW g \in Groups, SendGroup(g)
      PROVE  [Dictionary!Next]_(Dictionary!vars) /\ AnnouncedInv'
  <2> DEFINE s == Append(stream, MapIndef)
             k == WithKeys(s, GroupsNs, g)
             z == Append(k, Uint(0))
             p == LidToPid(GroupsNs, g)
  <2>1. /\ SenderReady /\ closed = "no" /\ Assign(GroupsNs, g)
        /\ UNCHANGED <<closed, pid_to_lid>>
    BY <1>2 DEF SendGroup, SenderReady, rvars
  <2>2. stream' = Append(z, PidOf(GroupsNs, g, p))
    BY <1>1, <1>2, GroupItems
  <2>3. IsSeq(s) /\ Messages(s) = Messages(stream)
    BY <1>1, PlainMessage
  <2>4. IsSeq(k)
    <3> HIDE DEF s
    <3> QED BY <2>3, KeysMessages
  <2>5. IsSeq(z) /\ Messages(z) = Messages(k)
    <3> HIDE DEF k
    <3> QED BY <2>4, PlainMessage
  <2>6. Messages(stream') = Append(Messages(k), Dictionary!Use(GroupsNs, g, p))
    <3> HIDE DEF z, k, p
    <3> QED BY <2>2, <2>5, PidMessage
  <2>7. GroupsNs \in Namespaces /\ g \in NamesIn(GroupsNs)
    BY DEF Namespaces, NamesIn
  <2>8. Len(Messages(stream)) < 2 * MaxInFlight + 1 /\ Announced(Messages(stream))
    BY <2>1, WireHasRoom DEF AnnouncedInv
  <2>9. Dictionary!Next /\ Announced(Messages(stream'))
    <3> HIDE DEF s
    <3> QED BY <1>1, <2>1, <2>3, <2>6, <2>7, <2>8, NameSent
  <2> QED BY <2>9 DEF AnnouncedInv
<1>3. ASSUME NEW a, SendId(a)
      PROVE  [Dictionary!Next]_(Dictionary!vars) /\ AnnouncedInv'
  <2> DEFINE k == WithKeys(stream, sactive, a)
             p == LidToPid(sactive, a)
  <2>1. /\ SenderReady /\ closed = "no" /\ Assign(sactive, a)
        /\ UNCHANGED <<closed, pid_to_lid>>
    BY <1>3 DEF SendId, SenderReady, rvars
  <2>2. stream' = Append(k, PidOf(sactive, a, p))
    BY <1>1, <1>3, IdItems
  <2>3. IsSeq(k)
    BY <1>1, KeysMessages
  <2>4. Messages(stream') = Append(Messages(k), Dictionary!Use(sactive, a, p))
    <3> HIDE DEF k, p
    <3> QED BY <2>2, <2>3, PidMessage
  <2>5. sactive \in Namespaces /\ a \in NamesIn(sactive)
    BY <1>1, <1>3, SendIdIn DEF Namespaces
  <2>6. Len(Messages(stream)) < 2 * MaxInFlight + 1 /\ Announced(Messages(stream))
    BY <2>1, WireHasRoom DEF AnnouncedInv
  <2>7. Dictionary!Next /\ Announced(Messages(stream'))
    BY <1>1, <2>1, <2>4, <2>5, <2>6, NameSent
  <2> QED BY <2>7 DEF AnnouncedInv
<1>4. ASSUME NEW x, NEW what, Say(<<x>>, what), UNCHANGED <<pid, max_pid, closed, pid_to_lid>>,
             \/ x = MapIndef \/ x = Break \/ \E n : x = Uint(n) \/ x = Array(n) \/ x = Text(n)
      PROVE  [Dictionary!Next]_(Dictionary!vars) /\ AnnouncedInv'
  <2>1. stream' = Append(stream, x)
    BY <1>1, <1>4, OneItem
  <2>2. Messages(stream') = Messages(stream)
    BY <1>1, <1>4, <2>1, PlainMessage
  <2> QED BY <1>4, <2>2, NamesUntouched
<1>5. ASSUME NEW v, SendValue(v) PROVE [Dictionary!Next]_(Dictionary!vars) /\ AnnouncedInv'
  <2>1. Say(<<Uint(v)>>, Said("value", NoName, v)) /\ UNCHANGED <<pid, max_pid, closed, pid_to_lid>>
    BY <1>5 DEF SendValue, rvars
  <2> QED BY <1>4, <2>1
<1>6. ASSUME NEW n, SendArray(n) PROVE [Dictionary!Next]_(Dictionary!vars) /\ AnnouncedInv'
  <2>1. Say(<<Array(n)>>, Said("array", NoName, n)) /\ UNCHANGED <<pid, max_pid, closed, pid_to_lid>>
    BY <1>6 DEF SendArray, rvars
  <2> QED BY <1>4, <2>1
<1>7. CASE SendGroupEnd
  <2>1. /\ Say(<<Break>>, Said("group end", NoName, 0))
        /\ UNCHANGED <<pid, max_pid, closed, pid_to_lid>>
    BY <1>1, <1>7, SendGroupEndKeeps DEF SendGroupEnd, rvars
  <2> QED BY <1>4, <2>1
<1>8. CASE SendArrayEnd
  <2>1. UNCHANGED <<pid, max_pid, closed, pid_to_lid, stream>>
    BY <1>1, <1>8, SendArrayEndKeeps DEF SendArrayEnd, rvars
  <2> QED BY <2>1, NamesUntouched
<1>9. CASE SenderRestart
  <2>1. /\ closed = "no" /\ UNCHANGED <<closed, stream, pid_to_lid>>
        /\ pid' = [ns \in Namespaces |-> [x \in NamesIn(ns) |-> 0]]
        /\ max_pid' = [ns \in Namespaces |-> 1]
    BY <1>9 DEF SenderRestart, SenderReady, rvars
  <2>2. AllPids' = [ns \in Namespaces |-> [x \in AllNames |-> 0]]
    BY <2>1 DEF AllPids
  <2>3. Dictionary!Restart
    BY <2>1, <2>2 DEF Dictionary!Restart
  <2> QED BY <2>1, <2>3 DEF Dictionary!Next, AnnouncedInv
<1>10. CASE SenderClose \/ SenderCrash
  <2>1. /\ closed = "no" /\ closed' # "no" /\ UNCHANGED <<pid, max_pid, pid_to_lid>>
    BY <1>10 DEF SenderClose, SenderCrash, svars, rvars
  <2>2. PICK n \in 0..Len(stream) : stream' = SubSeq(stream, 1, n)
    <3>1. CASE SenderClose
      <4>1. Len(stream) \in 0..Len(stream)
        BY <1>1, SeqFacts
      <4>2. /\ IsSeq(SubSeq(stream, 1, Len(stream)))
            /\ Len(SubSeq(stream, 1, Len(stream))) = Len(stream)
            /\ \A i \in 1..Len(stream) : SubSeq(stream, 1, Len(stream))[i] = stream[i]
        BY <1>1, <4>1, PrefixFacts
      <4>3. SubSeq(stream, 1, Len(stream)) = stream
        BY <1>1, <4>2, SameSeq
      <4> QED BY <3>1, <4>1, <4>3 DEF SenderClose
    <3>2. CASE SenderCrash
      BY <3>2 DEF SenderCrash
    <3> QED BY <1>10, <3>1, <3>2
  <2>3. \E i \in 0..Len(Messages(stream)) : Messages(stream') = SubSeq(Messages(stream), 1, i)
    BY <1>1, <2>2, MessagesPrefix
  <2>4. AllPids' = AllPids
    BY <2>1 DEF AllPids
  <2>5. Dictionary!BreakOff
    BY <2>1, <2>3, <2>4 DEF Dictionary!BreakOff
  <2> QED BY <2>1, <2>5 DEF Dictionary!Next, AnnouncedInv
<1> QED BY <1>2, <1>3, <1>5, <1>6, <1>7, <1>8, <1>9, <1>10 DEF Send

\* The item read is the first message, if it is one.
LEMMA MessageRead ==
  ASSUME IsSeq(stream), stream # <<>>, stream' = Tail(stream), AnnouncedInv, UNCHANGED closed
  PROVE  /\ Read.meant.act = "none" => Messages(stream') = Messages(stream)
         /\ Read.meant.act # "none" =>
              /\ Messages(stream) # <<>> /\ Head(Messages(stream)) = Read.meant
              /\ Messages(stream') = Tail(Messages(stream))
         /\ AnnouncedInv'
<1>1. Read = stream[1] /\ IsSeq(Messages(stream))
  BY TailFacts, MessagesIsSeq DEF Read
<1>2. /\ Read.meant.act = "none" => Messages(stream') = Messages(stream)
      /\ Read.meant.act # "none" =>
           /\ Messages(stream) # <<>> /\ Head(Messages(stream)) = Read.meant
           /\ Messages(stream') = Tail(Messages(stream))
  BY <1>1, MessagesTail
<1>3. AnnouncedInv'
  BY <1>1, <1>2, AnnouncedTail DEF AnnouncedInv
<1> QED BY <1>2, <1>3

\* recv_keys is that of the dictionary.
LEMMA RecvKeysRefines ==
  ASSUME Exchange, AnnouncedInv, RecvKeysEnd
  PROVE  Dictionary!Next /\ AnnouncedInv'
<1> DEFINE ns == LookupNs
           p == rcall.pid
           w == Messages(stream)
<1>1. /\ TypesInv /\ NamesInv /\ InSynch /\ IsSeq(stream)
  BY DEF Exchange, TypesInv, StreamOK, NatItems
<1>2. /\ rcall.at = "keys end" /\ stream # <<>> /\ stream' = Tail(stream)
      /\ UNCHANGED <<svars, closed>>
  BY DEF RecvKeysEnd, Reads, ReadsOther
<1>3. /\ Read.kind = "break" /\ rcall.name \in NamesIn(ns)
      /\ Read.meant.act = "define" /\ Read.meant.ns = ns
      /\ Read.meant.name = rcall.name /\ Read.meant.pid = p
  BY <1>1, <1>2, ReadDefinition
<1>4. ns \in Namespaces
  BY <1>1, <1>2, LookupNsIn DEF TypesInv, InKeys
<1>5. Learnt(ns, rcall.name, p) # {}
  BY <1>3, <1>4, NameIsLearnt
<1>6. PICK new \in Learnt(ns, rcall.name, p) : pid_to_lid' = [pid_to_lid EXCEPT ![ns] = new]
  BY <1>3, <1>5 DEF RecvKeysEnd, Reads, ReadsOther, Read
<1>7. PICK lid \in 0..Len(RLids[ns]) - 1 :
        /\ RName(ns, lid) = rcall.name
        /\ new = [Ensured(pid_to_lid[ns], p) EXCEPT ![p + 1] = lid]
  <2> HIDE DEF ns, p
  <2> QED BY <1>6 DEF Learnt
<1>8. /\ w # <<>> /\ Head(w) = Read.meant /\ Messages(stream') = Tail(w) /\ AnnouncedInv'
  BY <1>1, <1>2, <1>3, MessageRead
<1>9. AllPids' = AllPids /\ max_pid' = max_pid /\ closed' = closed
  BY <1>2 DEF AllPids, svars
<1>10. Dictionary!Learnt(pid_to_lid[ns], p, lid) = new
  <2> HIDE DEF ns, p
  <2> QED BY <1>7 DEF Dictionary!Learnt, Dictionary!Ensured, Ensured
<1>11. Dictionary!RName(ns, lid) = rcall.name
  <2> HIDE DEF ns
  <2> QED BY <1>7 DEF Dictionary!RName, RName
<1>12. /\ Head(w).act = "define" /\ Head(w).ns = ns /\ Head(w).name = rcall.name
       /\ Head(w).pid = p
  BY <1>3, <1>8
<1>13. pid_to_lid' = [pid_to_lid EXCEPT ![ns] = Dictionary!Learnt(pid_to_lid[ns], p, lid)]
  BY <1>6, <1>10
<1> HIDE DEF ns, p, w
<1>14. \E l \in 0..Len(RLids[Head(w).ns]) - 1 :
         /\ Dictionary!RName(Head(w).ns, l) = Head(w).name
         /\ pid_to_lid' = [pid_to_lid EXCEPT ![Head(w).ns] =
                             Dictionary!Learnt(pid_to_lid[Head(w).ns], Head(w).pid, l)]
  BY <1>7, <1>11, <1>12, <1>13
<1>15. Dictionary!RecvKeys
  BY <1>8, <1>9, <1>12, <1>14 DEF Dictionary!RecvKeys, w
<1> QED BY <1>8, <1>15 DEF Dictionary!Next

\* A pid that is read belongs to a namespace there is.
LEMMA UseIsNamed ==
  ASSUME TypesInv, InSynch, rcall.at \notin Errors, stream # <<>>, Read.meant.act = "use"
  PROVE  Read.meant.ns \in Namespaces
<1>1. PICK a, c, f : Matches(a) /\ Step(a, pending, Read, c, f)
  BY NextStep
<1> DEFINE h == Head(pending)
<1>2. PICK it : it = Read
  OBVIOUS
<1>3. QuietStep(a, h, it, c) \/ TellingStep(a, h, it, c)
  BY <1>1, <1>2 DEF Step
<1> HIDE DEF h
<1>4. GroupStep(a, h, it, c) \/ AttrStep(a, h, it, c)
  <2>1. ~KeysEndStep(a, it, c)
    <3> SUFFICES ASSUME KeysEndStep(a, it, c) PROVE FALSE
      OBVIOUS
    <3>1. PICK ns, name, p : it = BreakOfKeys(ns, name, p)
      BY DEF KeysEndStep
    <3>2. it.meant.act = "define"
      BY <3>1, DefinitionMeans
    <3> QED BY <1>2, <3>2
  <2>2. ~(\/ MapStep(a, h, it, c) \/ KeysMapStep(a, it, c) \/ KeysStep(a, it, c)
          \/ ZeroStep(a, it, c) \/ KeysNameStep(a, it, c) \/ KeysPidStep(a, it, c)
          \/ ValueStep(a, h, it, c) \/ EndStep(a, h, it, c) \/ ArrayStep(a, h, it, c))
    <3> SUFFICES ASSUME \/ MapStep(a, h, it, c) \/ KeysMapStep(a, it, c) \/ KeysStep(a, it, c)
                        \/ ZeroStep(a, it, c) \/ KeysNameStep(a, it, c) \/ KeysPidStep(a, it, c)
                        \/ ValueStep(a, h, it, c) \/ EndStep(a, h, it, c) \/ ArrayStep(a, h, it, c)
                 PROVE  FALSE
      OBVIOUS
    <3>1. it = MapIndef \/ it = Break \/ \E n : it = Uint(n) \/ it = Array(n) \/ it = Text(n)
      BY DEF MapStep, KeysMapStep, KeysStep, ZeroStep, KeysNameStep, KeysPidStep,
             ValueStep, EndStep, ArrayStep
    <3>2. it.meant.act = "none"
      BY <3>1, PlainMeans
    <3> QED BY <1>2, <3>2
  <2> QED BY <1>3, <2>1, <2>2 DEF QuietStep, TellingStep
<1>5. CASE GroupStep(a, h, it, c)
  <2>1. PICK name, p : it = PidOf(GroupsNs, name, p)
    BY <1>5 DEF GroupStep
  <2>2. it.meant.ns = GroupsNs
    BY <2>1, UseMeans
  <2> QED BY <1>2, <2>2 DEF Namespaces
<1>6. CASE AttrStep(a, h, it, c)
  <2>1. PICK ns, name, p : it = PidOf(ns, name, p) /\ ns = a.active
    BY <1>6 DEF AttrStep
  <2>2. it.meant.ns = a.active
    BY <2>1, UseMeans
  <2>3. CallOf(a).at = "id" /\ CallOf(a).use = "attr"
    BY <1>6 DEF AttrStep
  <2>4. Idle.at = "client"
    BY DEF Idle
  <2>5. ReceiverInv
    BY DEF TypesInv
  <2>6. CASE rcall.at \in {"client", "group", "group end"}
    <3>1. a.call = Idle /\ a.active = ractive /\ a \in {ArrayClosed(Here), HereIdle}
      <4>1. rcall.at = "client" => rcall = Idle
        BY RcallIsCall
      <4>2. (rcall.at = "client" /\ a = ArrayClosed(Here)) \/ a = HereIdle
        BY <1>1, <2>6 DEF Matches
      <4>3. CASE rcall.at = "client" /\ a = ArrayClosed(Here)
        BY <4>1, <4>3 DEF ArrayClosed, Here, Pos
      <4>4. CASE a = HereIdle
        BY <4>4 DEF HereIdle, Pos
      <4> QED BY <4>2, <4>3, <4>4
    <3>2. InGroup(a.todo)
      BY <2>3, <2>4, <3>1 DEF CallOf
    <3>3. EndOK(rtodo, rblocks, ractive)
      BY <2>5, <2>6 DEF ReceiverInv, ReceiverOK
    <3>4. ractive \in Groups
      <4>1. CASE a.todo = rtodo
        BY <3>2, <3>3, <4>1, EndTop
      <4>2. CASE AtArrayEnd(rtodo)
        <5>1. InArray(rtodo)
          BY <4>2 DEF AtArrayEnd, InArray
        <5>2. EndOK(Popped(rtodo), Popped(rblocks), ractive) /\ InGroup(Popped(rtodo))
          BY <3>3, <5>1, EndPop
        <5> QED BY <5>2, EndTop
      <4>3. a.todo = rtodo \/ AtArrayEnd(rtodo)
        BY <3>1 DEF ArrayClosed, Here, HereIdle, Pos
      <4> QED BY <4>1, <4>2, <4>3
    <3> QED BY <1>2, <2>2, <3>1, <3>4 DEF Namespaces
  <2>7. CASE rcall.at \notin {"client", "group", "group end"}
    <3>1. a.call = rcall /\ a.active = ractive
      <4>1. a = Here
        BY <1>1, <2>7 DEF Matches
      <4> QED BY <4>1 DEF Here, Pos
    <3>2. CallOf(a) = rcall
      BY <2>4, <2>7, <3>1 DEF CallOf
    <3>3. LookupNs \in Namespaces /\ LookupNs = ractive
      BY <2>3, <2>5, <3>2, LookupNsIn DEF LookupNs
    <3> QED BY <1>2, <2>2, <3>1, <3>3
  <2> QED BY <2>6, <2>7
<1> QED BY <1>4, <1>5, <1>6

\* The receiver's other steps: an ID is taken for a name, or nothing is learnt of names.
LEMMA ReceiveRefines ==
  ASSUME Exchange, AnnouncedInv, Receive
  PROVE  [Dictionary!Next]_(Dictionary!vars) /\ AnnouncedInv'
<1>1. /\ stream' = stream \/ (stream # <<>> /\ stream' = Tail(stream))
      /\ UNCHANGED <<svars, closed>>
  BY ReceiveTakes
<1>2. CASE RecvKeysEnd
  BY <1>2, RecvKeysRefines
<1>3. CASE ~RecvKeysEnd
  <2>1. UNCHANGED <<pid, max_pid, closed, pid_to_lid>>
    BY <1>1, <1>3 DEF svars, Receive, RecvGroup, RecvGroupMap, RecvId, RecvKeysMap, RecvKeysName,
                RecvKeysPid, RecvAttr, RecvGroupEnd, RecvValue, RecvArray, RecvArrayEnd, RecvEof
  <2>2. CASE stream' = stream
    <3>1. Messages(stream') = Messages(stream)
      BY <2>2
    <3> QED BY <2>1, <3>1, NamesUntouched
  <2>3. CASE stream' # stream
    <3>1. rcall.at \in {"client", "group", "id", "keys map", "keys name", "keys pid", "group end"}
      BY <1>3, <2>3 DEF Receive, RecvGroup, RecvGroupMap, RecvId, RecvKeysMap, RecvKeysName,
                  RecvKeysPid, RecvAttr, RecvGroupEnd, RecvValue, RecvArray, RecvArrayEnd,
                  RecvEof, AtClient
    <3>2. rcall.at \notin Errors /\ rcall.at # "keys end"
      BY <3>1 DEF Errors
    <3>3. stream # <<>> /\ stream' = Tail(stream) /\ IsSeq(stream)
      BY <1>1, <2>3 DEF Exchange, TypesInv, StreamOK, NatItems
    <3>4. Read.meant.act \in {"none", "use"}
      <4>1. Read.meant.act # "define"
        BY <3>2, <3>3, ReadNoDefinition DEF Exchange
      <4>2. PICK a, c, f : Step(a, pending, Read, c, f)
        BY <3>2, <3>3, NextStep DEF Exchange
      <4>3. Read.meant.act \in {"none", "define", "use"}
        BY <4>2, StepMeans
      <4> QED BY <4>1, <4>3
    <3>5. AnnouncedInv'
      BY <2>1, <3>3, MessageRead
    <3>6. CASE Read.meant.act = "none"
      <4>1. Messages(stream') = Messages(stream)
        BY <2>1, <3>3, <3>6, MessageRead
      <4> QED BY <2>1, <4>1, NamesUntouched
    <3>7. CASE Read.meant.act = "use"
      <4> DEFINE w == Messages(stream)
                 m == Read.meant
      <4>1. w # <<>> /\ Head(w) = m /\ Messages(stream') = Tail(w)
        BY <2>1, <3>3, <3>7, MessageRead
      <4>2. Known(pid_to_lid, m.ns, m.pid, m.name)
        BY <3>3, <3>7, HeadIsKnown DEF Exchange, NamesInv, Read
      <4>3. ~Dictionary!Reported(m.ns, m.pid)
        <5>1. m.pid \in Nat /\ m.pid < Len(pid_to_lid[m.ns])
          BY <4>2 DEF Known
        <5>2. m.ns \in Namespaces
          BY <3>2, <3>3, <3>7, UseIsNamed DEF Exchange
        <5>3. Len(pid_to_lid[m.ns]) \in Nat
          BY <5>2, LenProperties DEF Exchange, TypesInv, LidsOK
        <5> HIDE DEF m
        <5> QED BY <5>1, <5>3 DEF Dictionary!Reported
      <4>4. AllPids' = AllPids
        BY <2>1 DEF AllPids
      <4>5. Dictionary!RecvId
        BY <2>1, <3>7, <4>1, <4>3, <4>4 DEF Dictionary!RecvId
      <4> QED BY <3>5, <4>5 DEF Dictionary!Next
    <3> QED BY <3>4, <3>6, <3>7
  <2> QED BY <2>2, <2>3
<1> QED BY <1>2, <1>3

\* Names are exchanged among everything else as NbDictionary says: each step of either end is
\* one of the dictionary or changes nothing there.
THEOREM ExchangesNamesAlways == ASSUME ~LateReceiver PROVE Spec => ExchangesNames
<1>1. Init => Dictionary!Init /\ AnnouncedInv
  <2> SUFFICES ASSUME Init PROVE Dictionary!Init /\ AnnouncedInv
    OBVIOUS
  <2>1. Messages(stream) = <<>>
    BY NoMessages DEF Init
  <2>2. AllPids = [ns \in Namespaces |-> [x \in AllNames |-> 0]]
    BY DEF Init, AllPids
  <2>3. Dictionary!Init
    BY <2>1, <2>2 DEF Init, Dictionary!Init
  <2>4. AnnouncedInv
    BY <2>1, NoElements DEF AnnouncedInv, Announced
  <2> QED BY <2>3, <2>4
<1>2. Exchange /\ AnnouncedInv /\ [Next]_vars => [Dictionary!Next]_(Dictionary!vars) /\ AnnouncedInv'
  <2> SUFFICES ASSUME Exchange, AnnouncedInv, [Next]_vars
               PROVE  [Dictionary!Next]_(Dictionary!vars) /\ AnnouncedInv'
    OBVIOUS
  <2>1. CASE UNCHANGED vars
    <3>1. UNCHANGED <<pid, max_pid, closed, pid_to_lid, stream>>
      BY <2>1 DEF vars, svars, rvars
    <3>2. Messages(stream') = Messages(stream)
      BY <3>1
    <3> QED BY <3>1, <3>2, NamesUntouched
  <2>2. ~ReceiverRestart
    BY DEF ReceiverRestart
  <2> QED BY <2>1, <2>2, SendRefines, ReceiveRefines DEF Next
<1> QED BY <1>1, <1>2, ExchangeAlways, PTL DEF Spec, ExchangesNames, Dictionary!Spec
=============================================================================
