-------------------------- MODULE CborEncodeProofs --------------------------
(***************************************************************************)
(* What the encoder refuses and what it lets a client write, for any       *)
(* number of tokens, depth of blocks and announced lengths: the properties *)
(* of CborEncode and of CborItem, whose steps are steps of CborEncode.     *)
(*                                                                         *)
(* Three invariants build on each other.  EncodeInv: the block stack       *)
(* follows the client's own view of what it has open as long as the client *)
(* makes no mistake: the headers counted in a map and the tags in it are   *)
(* together as odd or even as the items it holds.                          *)
(* WrittenInv: what is open in the bytes is what the client has open, with *)
(* tags between.  LoopsInv: the calls of cbor_encode_item that wait for    *)
(* their items are the blocks the client has open, with tags between.      *)
(***************************************************************************)
EXTENDS CborItem, CborSyntaxProofs

BlockTypes == {"array", "map", "text"}
BlockSet == [type : BlockTypes \cup {"root"}, indefinite : BOOLEAN, num_items : Nat]
LevelSet == [type : BlockTypes, left : Nat \cup {Unbounded}, odd : BOOLEAN]

EncodeTypeOK ==
  /\ blocks \in Seq(BlockSet) /\ Len(blocks) > 0
  /\ blocks[1].type = "root"
  /\ levels \in Seq(LevelSet)
  /\ tag \in BOOLEAN /\ tags \in Seq(Nat)

\* A block has the type of its level; a map with an odd number of headers and
\* tags, of which there are g, holds an odd number of items.
Agree(b, l, g) ==
  /\ b.type = l.type /\ (b.indefinite <=> l.left = Unbounded)
  /\ l.type = "map" =>
       IF l.left = Unbounded THEN l.odd = ((b.num_items + g) % 2 = 1)
       ELSE (l.left + (b.num_items + g)) % 2 = 0 /\ ~l.odd

\* blocks is bs, levels is ls, tags is ts.
Follows(bs, ls, ts) ==
  /\ Len(bs) = Len(ls) + 1 /\ Len(ts) = Len(ls)
  /\ \A k \in 1..Len(ls) : Agree(bs[k + 1], ls[k], ts[k])

EncodeInv ==
  /\ EncodeTypeOK
  /\ ProperClientAccepted
  /\ err = "NB_ERR_OK" /\ mistakes = {} => Follows(blocks, levels, tags)

-----------------------------------------------------------------------------
(* What one header does to the blocks and to the levels.                   *)

\* The header is counted in the innermost block.
LEMMA CountedBlocks ==
  ASSUME EncodeTypeOK
  PROVE  /\ Counted \in Seq(BlockSet) /\ Len(Counted) = Len(blocks)
         /\ Counted[Len(blocks)] = [TopBlock EXCEPT !.num_items = @ + 1]
         /\ \A k \in 1..Len(blocks) - 1 : Counted[k] = blocks[k]
         /\ Counted[1].type = "root"
<1>1. blocks \in Seq(BlockSet) /\ Len(blocks) \in 1..Len(blocks) BY DEF EncodeTypeOK
<1>2. TopBlock \in BlockSet BY <1>1, ElementOf DEF TopBlock
<1>3. [TopBlock EXCEPT !.num_items = @ + 1] \in BlockSet BY <1>2 DEF BlockSet
<1>4. Counted = [blocks EXCEPT ![Len(blocks)] = [TopBlock EXCEPT !.num_items = @ + 1]]
  BY <1>1 DEF Counted, TopBlock
<1>5. blocks[1].type = "root" BY DEF EncodeTypeOK
<1> QED BY <1>1, <1>2, <1>3, <1>4, <1>5 DEF BlockSet, TopBlock

\* A level that has taken an item,
LEMMA TakenLevelType ==
  ASSUME NEW l \in LevelSet, l.left # 0
  PROVE  TakenLevel(l) \in LevelSet /\ TakenLevel(l).type = l.type
<1>1. CASE l.left = Unbounded
  <2>1. l.odd \in BOOLEAN BY DEF LevelSet
  <2>2. TakenLevel(l) = [l EXCEPT !.odd = ~@] BY <1>1 DEF TakenLevel
  <2>3. (~l.odd) \in BOOLEAN BY <2>1, Zenon
  <2> QED BY <2>2, <2>3 DEF LevelSet
<1>2. CASE l.left # Unbounded
  <2>1. l.left - 1 \in Nat BY <1>2 DEF LevelSet
  <2>2. TakenLevel(l) = [l EXCEPT !.left = @ - 1] BY <1>2 DEF TakenLevel
  <2> QED BY <2>1, <2>2 DEF LevelSet
<1> QED BY <1>1, <1>2

\* the innermost of the levels,
LEMMA TakenLevels ==
  ASSUME NEW ls \in Seq(LevelSet), ls # <<>> => Innermost(ls).left # 0
  PROVE  /\ Taken(ls) \in Seq(LevelSet) /\ Len(Taken(ls)) = Len(ls)
         /\ ls # <<>> => Taken(ls)[Len(ls)] = TakenLevel(Innermost(ls))
         /\ \A k \in 1..Len(ls) - 1 : Taken(ls)[k] = ls[k]
<1>1. CASE ls = <<>> BY <1>1 DEF Taken
<1>2. CASE ls # <<>>
  <2>1. Len(ls) \in 1..Len(ls) BY <1>2
  <2>2. Innermost(ls) \in LevelSet BY <2>1, ElementOf DEF Innermost
  <2>3. TakenLevel(Innermost(ls)) \in LevelSet BY <1>2, <2>2, TakenLevelType
  <2>4. Taken(ls) = [ls EXCEPT ![Len(ls)] = TakenLevel(Innermost(ls))]
    BY <1>2 DEF Taken
  <2> QED BY <1>2, <2>1, <2>3, <2>4
<1> QED BY <1>1, <1>2

\* and the block beside it, which still agree; so they do when a header is no item,
\* but what belongs to one more tag.
LEMMA AgreeTaken ==
  ASSUME NEW b \in BlockSet, NEW l \in LevelSet, NEW g \in Nat, Agree(b, l, g)
  PROVE  /\ l.left # 0 => Agree([b EXCEPT !.num_items = @ + 1], TakenLevel(l), g)
         /\ Agree([b EXCEPT !.num_items = @ + 1], l, g + 1)
<1>1. b.num_items \in Nat /\ l.left \in Nat \cup {Unbounded} /\ l.odd \in BOOLEAN
  BY DEF BlockSet, LevelSet
<1> DEFINE c == [b EXCEPT !.num_items = @ + 1]
           n == b.num_items + g
<1>2. c.type = b.type /\ c.num_items = b.num_items + 1 /\ c.indefinite = b.indefinite
  BY DEF BlockSet
<1>3. n \in Nat /\ c.num_items + g = n + 1 /\ c.num_items + (g + 1) = n + 2
  BY <1>1, <1>2
<1>4. n = b.num_items + g
  OBVIOUS
<1> HIDE DEF c, n
<1>5. CASE l.left = Unbounded
  <2>1. TakenLevel(l).left = Unbounded /\ TakenLevel(l).type = l.type /\ TakenLevel(l).odd = ~l.odd
    BY <1>5 DEF TakenLevel, LevelSet
  <2>2. ((n + 1) % 2 = 1 <=> ~(n % 2 = 1)) /\ ((n + 2) % 2 = 1 <=> n % 2 = 1)
    BY <1>3
  <2>3. b.type = l.type /\ (b.indefinite <=> l.left = Unbounded)
        /\ (l.type = "map" => l.odd = (n % 2 = 1))
    BY <1>4, <1>5 DEF Agree
  <2>4. Agree(c, TakenLevel(l), g)
    BY <1>2, <1>3, <1>5, <2>1, <2>2, <2>3 DEF Agree
  <2>5. Agree(c, l, g + 1)
    BY <1>2, <1>3, <1>5, <2>2, <2>3 DEF Agree
  <2> QED BY <2>4, <2>5 DEF c
<1>6. CASE l.left # Unbounded
  <2>1. TakenLevel(l).left = l.left - 1 /\ TakenLevel(l).type = l.type
        /\ TakenLevel(l).odd = l.odd
    BY <1>6 DEF TakenLevel, LevelSet
  <2>2. l.left \in Nat BY <1>1, <1>6
  <2>3. /\ l.left # 0 => ((l.left - 1) + (n + 1)) % 2 = (l.left + n) % 2
        /\ (l.left + (n + 2)) % 2 = (l.left + n) % 2
    BY <1>3, <2>2, ParityOfSum
  <2>4. l.left # 0 => l.left - 1 # Unbounded BY <2>2 DEF Unbounded
  <2>5. b.type = l.type /\ (b.indefinite <=> l.left = Unbounded)
        /\ (l.type = "map" => (l.left + n) % 2 = 0 /\ ~l.odd)
    BY <1>4, <1>6 DEF Agree
  <2>6. l.left # 0 => Agree(c, TakenLevel(l), g)
    BY <1>2, <1>3, <2>1, <2>3, <2>4, <2>5, <1>6 DEF Agree
  <2>7. Agree(c, l, g + 1)
    BY <1>2, <1>3, <2>3, <2>5, <1>6 DEF Agree
  <2> QED BY <2>6, <2>7 DEF c
<1> QED BY <1>5, <1>6

\* The innermost block beside the innermost level.
LEMMA TopAgrees ==
  ASSUME EncodeTypeOK, Follows(blocks, levels, tags)
  PROVE  /\ levels # <<>> => tags # <<>> /\ Agree(TopBlock, Innermost(levels), tags[Len(tags)])
         /\ levels = <<>> => TopBlock.type = "root"
<1>1. levels \in Seq(LevelSet) /\ Len(blocks) = Len(levels) + 1 /\ Len(tags) = Len(levels)
  BY DEF EncodeTypeOK, Follows
<1>2. CASE levels # <<>>
  <2>1. Len(levels) \in 1..Len(levels) BY <1>1, <1>2
  <2>2. tags # <<>> BY <1>1, <2>1
  <2> QED BY <1>1, <1>2, <2>1, <2>2 DEF Follows, TopBlock, Innermost
<1>3. CASE levels = <<>> BY <1>1, <1>3 DEF EncodeTypeOK, TopBlock
<1> QED BY <1>2, <1>3

\* The levels once an item has begun,
LEMMA LevelsTakenType ==
  ASSUME EncodeTypeOK, NEW t, MayPut(t)
  PROVE  LevelsTaken \in Seq(LevelSet)
<1>1. CASE tag BY <1>1 DEF LevelsTaken, EncodeTypeOK
<1>2. CASE ~tag
  <2>1. levels # <<>> => Innermost(levels).left # 0 BY <1>2 DEF MayPut
  <2> QED BY <1>2, <2>1, TakenLevels DEF LevelsTaken, EncodeTypeOK
<1> QED BY <1>1, <1>2

\* and the tags in them.
LEMMA TagsTakenType ==
  ASSUME EncodeTypeOK
  PROVE  /\ TagsTaken \in Seq(Nat) /\ Len(TagsTaken) = Len(tags)
         /\ \A k \in 1..Len(tags) :
              TagsTaken[k] = IF tag /\ k = Len(tags) THEN tags[k] + 1 ELSE tags[k]
<1>1. tags \in Seq(Nat)
  BY DEF EncodeTypeOK
<1>2. CASE tag /\ tags # <<>>
  <2>1. Len(tags) \in 1..Len(tags) BY <1>1, <1>2
  <2>2. tags[Len(tags)] \in Nat BY <1>1, <2>1
  <2>3. TagsTaken = [tags EXCEPT ![Len(tags)] = tags[Len(tags)] + 1]
    BY <1>2 DEF TagsTaken
  <2> QED BY <1>1, <1>2, <2>1, <2>2, <2>3
<1>3. CASE ~(tag /\ tags # <<>>)
  <2>1. TagsTaken = tags BY <1>3 DEF TagsTaken
  <2>2. tags = <<>> => Len(tags) = 0 OBVIOUS
  <2> QED BY <1>1, <1>3, <2>1, <2>2
<1> QED BY <1>2, <1>3

\* An item begins in the innermost block, in the encoder's view and the client's.
LEMMA ItemFollows ==
  ASSUME EncodeTypeOK, NEW t, MayPut(t), Follows(blocks, levels, tags)
  PROVE  Follows(Counted, LevelsTaken, TagsTaken)
<1>1. levels \in Seq(LevelSet) /\ blocks \in Seq(BlockSet) /\ Len(blocks) = Len(levels) + 1
      /\ tags \in Seq(Nat) /\ Len(tags) = Len(levels) /\ Len(TagsTaken) = Len(tags)
  BY TagsTakenType DEF EncodeTypeOK, Follows
<1>2. CASE levels = <<>>
  <2>1. LevelsTaken = <<>> BY <1>2 DEF LevelsTaken, Taken
  <2> QED BY <1>1, <1>2, <2>1, CountedBlocks DEF Follows
<1>3. CASE levels # <<>>
  <2>1. Len(levels) \in 1..Len(levels) /\ Len(blocks) \in 1..Len(blocks) BY <1>1, <1>3
  <2>2. Innermost(levels) \in LevelSet /\ TopBlock \in BlockSet /\ tags[Len(tags)] \in Nat
    BY <1>1, <2>1, ElementOf DEF Innermost, TopBlock
  <2>3. Agree(TopBlock, Innermost(levels), tags[Len(tags)]) BY <1>3, TopAgrees
  <2>4. /\ LevelsTaken \in Seq(LevelSet) /\ Len(LevelsTaken) = Len(levels)
        /\ \A k \in 1..Len(levels) - 1 : LevelsTaken[k] = levels[k]
        /\ Agree([TopBlock EXCEPT !.num_items = @ + 1], LevelsTaken[Len(levels)],
                 TagsTaken[Len(levels)])
    <3>1. CASE tag
      <4>1. LevelsTaken = levels BY <3>1 DEF LevelsTaken
      <4>2. TagsTaken[Len(levels)] = tags[Len(tags)] + 1 BY <1>1, <2>1, <3>1, TagsTakenType
      <4>3. Agree([TopBlock EXCEPT !.num_items = @ + 1], Innermost(levels), tags[Len(tags)] + 1)
        BY <2>2, <2>3, AgreeTaken
      <4> QED BY <1>1, <4>1, <4>2, <4>3 DEF Innermost
    <3>2. CASE ~tag
      <4>1. Innermost(levels).left # 0 BY <1>3, <3>2 DEF MayPut
      <4>2. LevelsTaken = Taken(levels) BY <3>2 DEF LevelsTaken
      <4>3. TagsTaken[Len(levels)] = tags[Len(tags)] BY <1>1, <2>1, <3>2, TagsTakenType
      <4>4. Agree([TopBlock EXCEPT !.num_items = @ + 1], TakenLevel(Innermost(levels)),
                  tags[Len(tags)])
        BY <2>2, <2>3, <4>1, AgreeTaken
      <4> QED BY <1>1, <1>3, <4>1, <4>2, <4>3, <4>4, TakenLevels
    <3> QED BY <3>1, <3>2
  <2>5. \A k \in 1..Len(levels) : Agree(Counted[k + 1], LevelsTaken[k], TagsTaken[k])
    <3> SUFFICES ASSUME NEW k \in 1..Len(levels)
                 PROVE  Agree(Counted[k + 1], LevelsTaken[k], TagsTaken[k])
      OBVIOUS
    <3>1. CASE k = Len(levels) BY <1>1, <2>4, <3>1, CountedBlocks
    <3>2. CASE k # Len(levels)
      <4>1. k \in 1..Len(levels) - 1 /\ k + 1 \in 1..Len(blocks) - 1 BY <1>1, <3>2
      <4>2. Counted[k + 1] = blocks[k + 1] BY <4>1, CountedBlocks
      <4>3. LevelsTaken[k] = levels[k] BY <4>1, <2>4
      <4>4. TagsTaken[k] = tags[k] BY <1>1, <3>2, TagsTakenType
      <4> QED BY <4>2, <4>3, <4>4 DEF Follows
    <3> QED BY <3>1, <3>2
  <2>6. Len(Counted) = Len(LevelsTaken) + 1 BY <1>1, <2>4, CountedBlocks
  <2> QED BY <1>1, <2>4, <2>5, <2>6 DEF Follows
<1> QED BY <1>2, <1>3

\* An item or a block begins with t.
LEMMA OpenedLevel ==
  ASSUME NEW t \in Tokens(MaxCount), t.kind \in {"array", "map", "array_", "map_", "text_"}
  PROVE  \E l \in LevelSet :
           /\ Opened(t) = <<l>> /\ ~l.odd
           /\ l.type = "map" /\ l.left # Unbounded => l.left % 2 = 0
<1>1. t.kind \in {"array", "map"} => t.n \in Nat
  BY BoundsAssumption DEF Tokens, Token
<1>2. CASE t.kind = "array"
  <2>1. Level("array", t.n) \in LevelSet BY <1>1, <1>2 DEF Level, LevelSet, BlockTypes
  <2> QED BY <1>2, <2>1 DEF Opened, Level
<1>3. CASE t.kind = "map"
  <2>1. Level("map", 2 * t.n) \in LevelSet BY <1>1, <1>3 DEF Level, LevelSet, BlockTypes
  <2>2. (2 * t.n) % 2 = 0 BY <1>1, <1>3
  <2> QED BY <1>3, <2>1, <2>2 DEF Opened, Level
<1>4. CASE t.kind = "array_"
  <2>1. Level("array", Unbounded) \in LevelSet BY DEF Level, LevelSet, BlockTypes
  <2> QED BY <1>4, <2>1 DEF Opened, Level
<1>5. CASE t.kind = "map_"
  <2>1. Level("map", Unbounded) \in LevelSet BY DEF Level, LevelSet, BlockTypes
  <2> QED BY <1>5, <2>1 DEF Opened, Level
<1>6. CASE t.kind = "text_"
  <2>1. Level("text", Unbounded) \in LevelSet BY DEF Level, LevelSet, BlockTypes
  <2> QED BY <1>6, <2>1 DEF Opened, Level
<1> QED BY <1>2, <1>3, <1>4, <1>5, <1>6

-----------------------------------------------------------------------------
(* The invariant and the steps.                                            *)

\* The root block alone.
LEMMA InitInv == Init => EncodeInv
<1> SUFFICES ASSUME Init PROVE EncodeInv OBVIOUS
<1>1. Block("root", TRUE) \in BlockSet /\ Block("root", TRUE).type = "root"
  BY DEF Block, BlockSet
<1>2. EncodeTypeOK
  <2> DEFINE b == Block("root", TRUE)
  <2>1. blocks = <<b>> /\ levels = <<>> /\ tag = FALSE /\ tags = <<>> BY DEF Init
  <2>2. b \in BlockSet /\ b.type = "root" BY <1>1
  <2> HIDE DEF b
  <2>3. blocks \in Seq(BlockSet) /\ Len(blocks) > 0 /\ blocks[1] = b BY <2>1, <2>2
  <2>4. levels \in Seq(LevelSet) /\ tags \in Seq(Nat) BY <2>1
  <2> QED BY <2>1, <2>2, <2>3, <2>4 DEF EncodeTypeOK
<1>3. Follows(blocks, levels, tags) BY DEF Init, Follows
<1> QED BY <1>2, <1>3 DEF Init, EncodeInv, ProperClientAccepted

\* Each call preserves the invariant: an item,
LEMMA EncodeItemInv ==
  ASSUME EncodeInv, NEW t, EncodeItem(t)
  PROVE  EncodeInv'
<1>1. EncodeTypeOK /\ MayPut(t) BY DEF EncodeInv, EncodeItem
<1>2. blocks' = Counted /\ levels' = LevelsTaken /\ tag' = FALSE /\ tags' = TagsTaken
      /\ err' = err /\ mistakes' = mistakes
  BY DEF EncodeItem
<1>3. EncodeTypeOK' BY <1>1, <1>2, CountedBlocks, LevelsTakenType, TagsTakenType DEF EncodeTypeOK
<1>4. ASSUME err' = "NB_ERR_OK", mistakes' = {} PROVE Follows(blocks', levels', tags')
  <2>1. Follows(blocks, levels, tags) BY <1>2, <1>4 DEF EncodeInv
  <2> QED BY <1>1, <1>2, <2>1, ItemFollows
<1>5. ProperClientAccepted'
  BY <1>1, <1>2 DEF EncodeInv, ProperClientAccepted, MayPut, Ready
<1> QED BY <1>3, <1>4, <1>5 DEF EncodeInv

\* a tag,
LEMMA EncodeTagInv ==
  ASSUME EncodeInv, EncodeTag
  PROVE  EncodeInv'
<1> DEFINE t == Token("tag", 0)
<1>1. EncodeTypeOK /\ MayPut(t) BY DEF EncodeInv, EncodeTag
<1>2. blocks' = Counted /\ levels' = LevelsTaken /\ tag' = TRUE /\ tags' = TagsTaken
      /\ err' = err /\ mistakes' = mistakes
  BY DEF EncodeTag
<1> HIDE DEF t
<1>3. EncodeTypeOK' BY <1>1, <1>2, CountedBlocks, LevelsTakenType, TagsTakenType DEF EncodeTypeOK
<1>4. ASSUME err' = "NB_ERR_OK", mistakes' = {} PROVE Follows(blocks', levels', tags')
  <2>1. Follows(blocks, levels, tags) BY <1>2, <1>4 DEF EncodeInv
  <2> QED BY <1>1, <1>2, <2>1, ItemFollows
<1>5. ProperClientAccepted'
  BY <1>1, <1>2 DEF EncodeInv, ProperClientAccepted, MayPut, Ready
<1> QED BY <1>3, <1>4, <1>5 DEF EncodeInv

\* a block that is opened,
LEMMA StartBlockInv ==
  ASSUME EncodeInv, NEW t \in Tokens(MaxCount), StartBlock(t)
  PROVE  EncodeInv'
<1>1. EncodeTypeOK /\ MayPut(t) BY DEF EncodeInv, StartBlock
<1>2. PICK l \in LevelSet :
        /\ Opened(t) = <<l>> /\ ~l.odd
        /\ l.type = "map" /\ l.left # Unbounded => l.left % 2 = 0
  BY OpenedLevel DEF StartBlock
<1> DEFINE b == Block(l.type, l.left = Unbounded)
<1>3. b \in BlockSet /\ b.type = l.type /\ b.num_items = 0
      /\ b.indefinite = (l.left = Unbounded)
  BY <1>2 DEF Block, BlockSet, LevelSet
<1>4. Opened(t)[1] = l BY <1>2
<1>5. blocks' = Append(Counted, b) /\ levels' = LevelsTaken \o <<l>> /\ tag' = FALSE
      /\ tags' = Append(TagsTaken, 0)
      /\ err' = err /\ mistakes' = mistakes
  BY <1>2, <1>4 DEF StartBlock
<1>6. Agree(b, l, 0)
  <2>1. l.left \in Nat \cup {Unbounded} BY <1>2 DEF LevelSet
  <2>2. CASE l.left = Unbounded
    <3>1. (l.odd = FALSE) /\ ~((b.num_items + 0) % 2 = 1) BY <1>2, <1>3 DEF LevelSet
    <3> HIDE DEF b
    <3> QED BY <1>3, <2>2, <3>1 DEF Agree
  <2>3. CASE l.left # Unbounded
    <3>1. b.num_items = 0 /\ (l.type = "map" => l.left % 2 = 0) /\ l.left \in Nat
      BY <1>2, <1>3, <2>1, <2>3
    <3> HIDE DEF b
    <3>2. l.type = "map" => (l.left + (b.num_items + 0)) % 2 = 0
      BY <3>1
    <3> QED BY <1>2, <1>3, <2>3, <3>2, Zenon DEF Agree
  <2> QED BY <2>2, <2>3
<1> HIDE DEF b
<1>7. LevelsTaken \in Seq(LevelSet) BY <1>1, LevelsTakenType
<1>8. /\ Len(blocks') = Len(Counted) + 1 /\ blocks'[Len(Counted) + 1] = b
      /\ blocks' \in Seq(BlockSet)
      /\ \A k \in 1..Len(Counted) : blocks'[k] = Counted[k]
  BY <1>1, <1>3, <1>5, CountedBlocks
<1>9. /\ Len(levels') = Len(LevelsTaken) + 1 /\ levels'[Len(LevelsTaken) + 1] = l
      /\ levels' \in Seq(LevelSet)
      /\ \A k \in 1..Len(LevelsTaken) : levels'[k] = LevelsTaken[k]
  BY <1>2, <1>5, <1>7
<1>t. /\ Len(tags') = Len(tags) + 1 /\ tags'[Len(tags) + 1] = 0
      /\ tags' \in Seq(Nat) /\ TagsTaken \in Seq(Nat)
      /\ Len(TagsTaken) = Len(tags) /\ \A k \in 1..Len(tags) : tags'[k] = TagsTaken[k]
  BY <1>1, <1>5, TagsTakenType
<1>10. EncodeTypeOK'
  <2>1. blocks'[1] = Counted[1] /\ Len(blocks') > 0 /\ blocks'[1].type = "root"
    <3>1. Len(Counted) \in Nat /\ 1 \in 1..Len(Counted) /\ Counted[1].type = "root"
      BY <1>1, CountedBlocks DEF EncodeTypeOK
    <3> QED BY <1>8, <3>1
  <2> QED BY <1>5, <1>8, <1>9, <1>t, <2>1 DEF EncodeTypeOK
<1>11. ASSUME err' = "NB_ERR_OK", mistakes' = {} PROVE Follows(blocks', levels', tags')
  <2>1. Follows(blocks, levels, tags) BY <1>5, <1>11 DEF EncodeInv
  <2>2. Follows(Counted, LevelsTaken, TagsTaken) BY <1>1, <2>1, ItemFollows
  <2>3. Len(Counted) = Len(LevelsTaken) + 1 /\ Len(tags) = Len(LevelsTaken)
    BY <1>t, <2>2 DEF Follows
  <2>4. ASSUME NEW k \in 1..Len(levels') PROVE Agree(blocks'[k + 1], levels'[k], tags'[k])
    <3>1. CASE k = Len(LevelsTaken) + 1 BY <1>6, <1>8, <1>9, <1>t, <2>3, <3>1
    <3>2. CASE k # Len(LevelsTaken) + 1
      <4>1. k \in 1..Len(LevelsTaken) /\ k + 1 \in 1..Len(Counted)
        BY <1>7, <1>9, <2>3, <3>2
      <4>2. blocks'[k + 1] = Counted[k + 1] /\ levels'[k] = LevelsTaken[k] /\ tags'[k] = TagsTaken[k]
        BY <1>8, <1>9, <1>t, <2>3, <4>1
      <4> QED BY <2>2, <4>1, <4>2 DEF Follows
    <3> QED BY <3>1, <3>2
  <2> QED BY <1>5, <1>8, <1>9, <1>t, <2>3, <2>4 DEF Follows
<1>12. ProperClientAccepted'
  BY <1>1, <1>5 DEF EncodeInv, ProperClientAccepted, MayPut, Ready
<1> QED BY <1>10, <1>11, <1>12 DEF EncodeInv

\* Popping a block and its level.
LEMMA FollowsPopped ==
  ASSUME EncodeTypeOK, Follows(blocks, levels, tags), levels # <<>>
  PROVE  Follows(SubSeq(blocks, 1, Len(blocks) - 1), SubSeq(levels, 1, Len(levels) - 1),
                 SubSeq(tags, 1, Len(tags) - 1))
<1> DEFINE bs == SubSeq(blocks, 1, Len(blocks) - 1)
           ls == SubSeq(levels, 1, Len(levels) - 1)
           ts == SubSeq(tags, 1, Len(tags) - 1)
<1>1. levels \in Seq(LevelSet) /\ blocks \in Seq(BlockSet) /\ Len(blocks) = Len(levels) + 1
      /\ Len(levels) \in Nat \ {0} /\ tags \in Seq(Nat) /\ Len(tags) = Len(levels)
  BY DEF EncodeTypeOK, Follows
<1>2. /\ Len(bs) = Len(levels) /\ Len(ls) = Len(levels) - 1
      /\ \A k \in 1..Len(levels) : bs[k] = blocks[k]
      /\ \A k \in 1..Len(levels) - 1 : ls[k] = levels[k]
      /\ Len(ts) = Len(levels) - 1 /\ \A k \in 1..Len(levels) - 1 : ts[k] = tags[k]
  BY <1>1, AllButLast
<1> HIDE DEF bs, ls, ts
<1>3. ASSUME NEW k \in 1..Len(ls) PROVE Agree(bs[k + 1], ls[k], ts[k])
  <2>1. k \in 1..Len(levels) - 1 /\ k + 1 \in 1..Len(levels) /\ k \in 1..Len(levels)
    BY <1>1, <1>2
  <2>2. bs[k + 1] = blocks[k + 1] /\ ls[k] = levels[k] /\ ts[k] = tags[k] BY <1>2, <2>1
  <2> QED BY <2>1, <2>2 DEF Follows
<1>4. Follows(bs, ls, ts) BY <1>1, <1>2, <1>3 DEF Follows
<1> QED BY <1>4 DEF bs, ls, ts

\* A map whose items are all there, of which none is odd, looks odd to the encoder
\* when it has an odd number of tags in it.
LEMMA MapParity ==
  ASSUME EncodeTypeOK, Follows(blocks, levels, tags), levels # <<>>,
         Innermost(levels).type = "map", ~(Innermost(levels).left > 0)
  PROVE  Innermost(levels).odd <=> ~(TopBlock.num_items % 2 = 0 <=> ~OddTags)
<1> DEFINE l == Innermost(levels)
           g == tags[Len(tags)]
           n == TopBlock.num_items
<1>1. levels \in Seq(LevelSet) /\ blocks \in Seq(BlockSet) /\ tags \in Seq(Nat)
      /\ Len(levels) \in 1..Len(levels) /\ Len(blocks) \in 1..Len(blocks)
  BY DEF EncodeTypeOK
<1>2. Len(tags) \in 1..Len(tags)
  BY <1>1 DEF Follows
<1>3. l \in LevelSet /\ TopBlock \in BlockSet /\ g \in Nat /\ tags # <<>>
  BY <1>1, <1>2, ElementOf DEF Innermost, TopBlock
<1>4. n \in Nat /\ l.left \in Nat \cup {Unbounded} /\ l.odd \in BOOLEAN
  BY <1>3 DEF BlockSet, LevelSet
<1>5. IF l.left = Unbounded THEN l.odd = ((n + g) % 2 = 1) ELSE (l.left + (n + g)) % 2 = 0 /\ ~l.odd
  BY TopAgrees DEF Agree
<1>6. OddTags <=> g % 2 = 1
  BY <1>3 DEF OddTags
<1> HIDE DEF l, g, n
<1>7. (n + g) % 2 = 1 <=> ~(n % 2 = 0 <=> ~(g % 2 = 1))
  BY <1>3, <1>4
<1>8. CASE l.left = Unbounded
  <2>1. l.odd <=> (n + g) % 2 = 1
    BY <1>5, <1>8
  <2> QED BY ONLY <1>6, <1>7, <2>1 DEF l, n
<1>9. CASE l.left # Unbounded
  <2>1. l.left = 0
    BY <1>4, <1>9 DEF l
  <2>2. ~((n + g) % 2 = 1) /\ ~l.odd
    BY <1>3, <1>4, <1>5, <1>9, <2>1
  <2> QED BY ONLY <1>6, <1>7, <2>2 DEF l, n
<1> QED BY <1>8, <1>9

\* A complete block is not of another type, and odd to the encoder for its tags only.
LEMMA EndAccepted ==
  ASSUME EncodeTypeOK, Follows(blocks, levels, tags), NEW type \in BlockTypes,
         MistakesAtEnd(type) = {}
  PROVE  /\ levels # <<>> /\ TopBlock.type = type /\ Innermost(levels).type = type
         /\ type = "map" => (TopBlock.num_items % 2 = 0 <=> ~OddTags)
<1>1. levels # <<>> /\ Innermost(levels).type = type BY DEF MistakesAtEnd
<1>2. /\ ~(Innermost(levels).left > 0)
      /\ type = "map" => ~Innermost(levels).odd
  BY <1>1 DEF MistakesAtEnd
<1>3. TopBlock.type = type BY <1>1, TopAgrees DEF Agree
<1>4. ASSUME type = "map" PROVE TopBlock.num_items % 2 = 0 <=> ~OddTags
  BY <1>1, <1>2, <1>4, MapParity
<1> QED BY <1>1, <1>3, <1>4

\* a block that is ended or refused.
LEMMA EndInv ==
  ASSUME EncodeInv, NEW type \in BlockTypes, End(type)
  PROVE  EncodeInv'
<1>1. EncodeTypeOK /\ err = "NB_ERR_OK" BY DEF EncodeInv, End, Ready
<1>2. mistakes' = mistakes \cup MistakesAtEnd(type) BY DEF End
<1> DEFINE Popped == blocks' = SubSeq(blocks, 1, Len(blocks) - 1) /\ TopBlock.type # "root"
           Closed == levels' = SubSeq(levels, 1, Len(levels) - 1) /\ tag' = FALSE
                       /\ tags' = SubSeq(tags, 1, Len(tags) - 1)
           Kept == levels' = levels /\ tag' = tag /\ tags' = tags
<1>3. \/ /\ type = "map" /\ TopBlock.num_items % 2 # 0
         /\ blocks' = blocks /\ Kept /\ err' = "NB_ERR_NITEMS"
      \/ TopBlock.type = "root" /\ blocks' = blocks /\ Kept
      \/ Popped /\ TopBlock.type # type /\ Kept
      \/ Popped /\ Closed /\ TopBlock.type = type /\ err' = err
  BY DEF End, EndBlock, Refuse, BlockDone
<1>4. EncodeTypeOK'
  <2>1. levels \in Seq(LevelSet) /\ blocks \in Seq(BlockSet) /\ Len(blocks) \in Nat \ {0}
        /\ tags \in Seq(Nat)
    BY <1>1 DEF EncodeTypeOK
  <2>2. Closed => levels' \in Seq(LevelSet) /\ tag' \in BOOLEAN /\ tags' \in Seq(Nat)
    BY <2>1, AllButLast
  <2>3. ASSUME Popped PROVE blocks' \in Seq(BlockSet) /\ Len(blocks') > 0 /\ blocks'[1] = blocks[1]
    <3>1. Len(blocks) # 1 BY <1>1, <2>3 DEF EncodeTypeOK, TopBlock
    <3>2. Len(blocks) - 1 >= 1 /\ 1 \in 1..Len(blocks) - 1
      <4> DEFINE n == Len(blocks)
      <4>1. n \in Nat \ {0} /\ n # 1 BY <2>1, <3>1
      <4> HIDE DEF n
      <4>2. n - 1 >= 1 /\ 1 \in 1..n - 1 BY <4>1
      <4> QED BY <4>2 DEF n
    <3>3. blocks # <<>> BY <2>1
    <3> QED BY <2>1, <2>3, <3>2, <3>3, AllButLast
  <2> QED BY <1>1, <1>3, <2>2, <2>3 DEF EncodeTypeOK
<1>5. ASSUME mistakes' = {}
      PROVE  \/ /\ Popped /\ Closed /\ err' = err
                /\ Follows(blocks', levels', tags')
             \/ /\ err' = "NB_ERR_NITEMS" /\ Kept
                /\ Innermost(levels).type = "map" /\ OddTags
  <2>1. mistakes = {} /\ MistakesAtEnd(type) = {} BY <1>2, <1>5
  <2>2. Follows(blocks, levels, tags) BY <1>1, <2>1 DEF EncodeInv
  <2>3. /\ levels # <<>> /\ TopBlock.type = type /\ Innermost(levels).type = type
        /\ type = "map" => (TopBlock.num_items % 2 = 0 <=> ~OddTags)
    BY <1>1, <2>1, <2>2, EndAccepted
  <2>4. type # "root" BY DEF BlockTypes
  <2>5. CASE type = "map" /\ TopBlock.num_items % 2 # 0 /\ Kept /\ err' = "NB_ERR_NITEMS"
    BY <2>3, <2>5
  <2>6. CASE Popped /\ Closed /\ err' = err
    <3>1. Follows(SubSeq(blocks, 1, Len(blocks) - 1), SubSeq(levels, 1, Len(levels) - 1),
                  SubSeq(tags, 1, Len(tags) - 1))
      BY <1>1, <2>2, <2>3, FollowsPopped
    <3> QED BY <2>6, <3>1
  <2> QED BY <1>3, <2>3, <2>4, <2>5, <2>6
<1>6. ProperClientAccepted'
  <2>1. CASE mistakes' # {}
    BY <2>1 DEF ProperClientAccepted
  <2>2. CASE mistakes' = {} /\ err' = err
    BY <1>1, <2>2 DEF ProperClientAccepted
  <2>3. CASE mistakes' = {} /\ err' = "NB_ERR_NITEMS" /\ Kept /\ Innermost(levels).type = "map" /\ OddTags
    <3>1. Innermost(levels)' = Innermost(levels) /\ (OddTags' <=> OddTags)
      BY <2>3 DEF Innermost, OddTags
    <3> QED BY <2>3, <3>1 DEF ProperClientAccepted
  <2> QED BY <1>5, <2>1, <2>2, <2>3
<1>7. ASSUME err' = "NB_ERR_OK", mistakes' = {} PROVE Follows(blocks', levels', tags')
  BY <1>5, <1>7
<1> QED BY <1>4, <1>6, <1>7 DEF EncodeInv

\* The invariant is inductive.
LEMMA NextInv == EncodeInv /\ [Next]_vars => EncodeInv'
<1> SUFFICES ASSUME EncodeInv, [Next]_vars PROVE EncodeInv' OBVIOUS
<1>1. CASE \E t \in Tokens(MaxCount) : EncodeItem(t) BY <1>1, EncodeItemInv
<1>2. CASE \E t \in Tokens(MaxCount) : StartBlock(t) BY <1>2, StartBlockInv
<1>3. CASE EncodeTag BY <1>3, EncodeTagInv
<1>4. CASE \E type \in {"array", "map", "text"} : End(type)
  BY <1>4, EndInv DEF BlockTypes
<1>5. CASE UNCHANGED vars
  <2>1. EncodeTypeOK' /\ (Follows(blocks, levels, tags) => Follows(blocks', levels', tags'))
    BY <1>5 DEF vars, EncodeInv, EncodeTypeOK
  <2>2. ProperClientAccepted'
    BY <1>5 DEF vars, EncodeInv, ProperClientAccepted, OddTags
  <2> QED BY <1>5, <2>1, <2>2 DEF vars, EncodeInv
<1> QED BY <1>1, <1>2, <1>3, <1>4, <1>5 DEF Next

\* A client that ends each block when it is complete, whatever it writes and
\* nests, is never refused by end_block, and by cbor_encode_map_end only at the
\* end of a map with an odd number of tags directly in it.
THEOREM ClientAccepted == Spec => []ProperClientAccepted
<1>1. EncodeInv => ProperClientAccepted BY DEF EncodeInv
<1> QED BY <1>1, InitInv, NextInv, PTL DEF Spec

\* The recursion is in arrays, maps and tagged items.
Recursion == todo \in Seq([type : {"array", "map", "tag"}, left : Nat])

\* The frames once an item has begun.
LEMMA RestType ==
  ASSUME Recursion, ItemDue
  PROVE  Rest \in Seq([type : {"array", "map", "tag"}, left : Nat])
<1> DEFINE F == [type : {"array", "map", "tag"}, left : Nat]
<1>1. CASE todo = <<>> BY <1>1 DEF Rest
<1>2. CASE todo # <<>>
  <2>1. todo \in Seq(F) /\ Len(todo) \in 1..Len(todo) BY <1>2 DEF Recursion
  <2>2. Current \in F BY <2>1, ElementOf DEF Current
  <2>3. [Current EXCEPT !.left = @ - 1] \in F BY <1>2, <2>2 DEF ItemDue
  <2>4. Rest = [todo EXCEPT ![Len(todo)] = [Current EXCEPT !.left = @ - 1]]
    BY <1>2, <2>1 DEF Rest, Current
  <2> HIDE DEF F
  <2> QED BY <2>1, <2>3, <2>4 DEF F
<1> QED BY <1>1, <1>2

\* The recursion holds arrays, maps and tags only.
LEMMA RecursionInv == Recursion /\ [ItemNext]_itemVars => Recursion'
<1> SUFFICES ASSUME Recursion, [ItemNext]_itemVars PROVE Recursion' OBVIOUS
<1> DEFINE F == [type : {"array", "map", "tag"}, left : Nat]
<1>1. CASE UNCHANGED todo BY <1>1 DEF Recursion
<1>2. CASE ItemDue /\ (todo' = Rest \/ \E f \in F : todo' = Append(Rest, f))
  <2>1. Rest \in Seq(F) BY <1>2, RestType
  <2> HIDE DEF F
  <2>2. todo' \in Seq(F) BY <1>2, <2>1
  <2> QED BY <2>2 DEF F, Recursion
<1>3. ASSUME NEW t \in Tokens(MaxCount), EncodeBlock(t)
      PROVE  \E f \in F : todo' = Append(Rest, f)
  <2>1. PICK n \in ItemsOf(t) : todo' = Append(Rest, Frame(Opened(t)[1].type, n))
    BY <1>3 DEF EncodeBlock
  <2>2. n \in Nat BY <2>1, BoundsAssumption DEF ItemsOf, Tokens, Token
  <2>3. Opened(t)[1].type \in {"array", "map"}
    BY <1>3 DEF EncodeBlock, StartBlock, Opened, Level
  <2> QED BY <2>1, <2>2, <2>3 DEF Frame
<1>4. ASSUME EncodeTaggedItem PROVE \E f \in F : todo' = Append(Rest, f)
  BY <1>4 DEF EncodeTaggedItem, Frame
<1>5. CASE EncodeBlockEnd
  BY <1>5, AllButLast DEF EncodeBlockEnd, Recursion
<1> QED BY <1>1, <1>2, <1>3, <1>4, <1>5
     DEF ItemNext, itemVars, EncodeScalar, EncodeBlock, EncodeTaggedItem

\* cbor_encode_item uses the encoder in no other way than a client of its
\* streaming calls: each step of the recursion is one such call or none.
THEOREM ItemsAreCalls == ItemSpec => Spec
<1>1. ItemInit => Init BY DEF ItemInit
<1>2. ASSUME Recursion, [ItemNext]_itemVars PROVE [Next]_vars
  <2>1. CASE client = "calls" /\ Next /\ UNCHANGED <<client, todo>> BY <2>1
  <2>2. CASE \E t \in Tokens(MaxCount) : EncodeScalar(t) \/ EncodeBlock(t)
    BY <2>2 DEF EncodeScalar, EncodeBlock, Next
  <2>3. CASE EncodeTaggedItem BY <2>3 DEF EncodeTaggedItem, Next
  <2>4. CASE EncodeBlockEnd
    <3>1. todo # <<>> BY <2>4 DEF EncodeBlockEnd
    <3>2. todo \in Seq([type : {"array", "map", "tag"}, left : Nat]) /\ Len(todo) \in 1..Len(todo)
      BY <1>2, <3>1 DEF Recursion
    <3>3. Current \in [type : {"array", "map", "tag"}, left : Nat]
      BY <3>2, ElementOf DEF Current
    <3>4. Current.type = "tag" \/ Current.type \in {"array", "map", "text"} BY <3>3
    <3> QED BY <2>4, <3>4 DEF EncodeBlockEnd, Next
  <2>5. CASE UNCHANGED itemVars BY <2>5 DEF itemVars
  <2> QED BY <1>2, <2>1, <2>2, <2>3, <2>4, <2>5 DEF ItemNext
<1>3. ItemInit => Recursion BY DEF ItemInit, Recursion
<1> QED BY <1>1, <1>2, <1>3, RecursionInv, PTL DEF Spec, ItemSpec

\* So neither is cbor_encode_item refused but for the tags in a map.
THEOREM ItemAccepted == ItemSpec => []ProperClientAccepted
  BY ItemsAreCalls, ClientAccepted, PTL

-----------------------------------------------------------------------------
(* What is written is well-formed.                                         *)

\* The open levels F are the client's levels ls, that of ls[k] at place p[k], and
\* tags between them whose item has begun.
Holds(F, ls, p) ==
  /\ F \in Seq(OpenSet) /\ p \in [1..Len(ls) -> 1..Len(F)]
  /\ \A j, k \in 1..Len(ls) : j < k => p[j] < p[k]
  /\ \A k \in 1..Len(ls) : F[p[k]] = ls[k]
  /\ \A i \in 1..Len(F) : (\A k \in 1..Len(ls) : p[k] # i) => F[i].left = 0

\* And one more tag whose item is still to come.
Reads(op, ls, tg) ==
  \E F, p : /\ Holds(F, ls, p)
            /\ op = IF tg THEN Append(F, Level("tag", 1)) ELSE Trimmed(F)

WrittenInv ==
  mistakes \cap {"short", "hidden"} = {} =>
    legal /\ (err = "NB_ERR_OK" => mistakes = {} /\ Reads(open, levels, tag))

\* Up to the last level that takes more.
LEMMA HoldsUpTo ==
  ASSUME NEW F, NEW ls \in Seq(LevelSet), NEW p, Holds(F, ls, p),
         ls # <<>> => Innermost(ls).left # 0
  PROVE  \E E : Trimmed(F) = E /\ Holds(E, ls, p) /\ Len(E) = IF ls = <<>> THEN 0 ELSE p[Len(ls)]
<1> DEFINE n == Len(ls)
<1>1. n \in Nat /\ Len(F) \in Nat /\ F \in Seq(OpenSet)
  BY LenProperties DEF Holds
<1>2. CASE ls = <<>>
  <2>1. n = 0 /\ \A i \in 1..Len(F) : F[i].left = 0
    BY <1>1, <1>2 DEF Holds
  <2>2. Trimmed(F) = <<>>
    BY <1>1, <2>1, TrimmedAll
  <2>3. Holds(<<>>, ls, p)
    BY <1>1, <2>1, EmptySeq DEF Holds
  <2> QED BY <1>2, <2>2, <2>3
<1>3. CASE ls # <<>>
  <2>1. n \in 1..n /\ n # 0
    BY <1>1, <1>3, EmptySeq
  <2> DEFINE m == p[n]
             E == SubSeq(F, 1, m)
  <2>2. m \in 1..Len(F) /\ F[m].left # 0
    BY <1>3, <2>1 DEF Holds, Innermost
  <2>3. \A k \in 1..n : p[k] \in 1..m
    <3> SUFFICES ASSUME NEW k \in 1..n PROVE p[k] \in 1..m
      OBVIOUS
    <3>1. p[k] \in 1..Len(F) /\ (k < n => p[k] < m) /\ (k < n \/ k = n)
      BY <1>1, <2>1 DEF Holds
    <3> QED BY <1>1, <2>2, <3>1
  <2> HIDE DEF m
  <2>4. ASSUME NEW i \in 1..Len(F), i > m PROVE F[i].left = 0
    <3>1. \A k \in 1..n : p[k] # i
      BY <1>1, <2>2, <2>3, <2>4
    <3> QED BY <3>1 DEF Holds
  <2>5. Trimmed(F) = E
    BY <1>1, <2>2, <2>4, TrimmedTo
  <2>6. E \in Seq(OpenSet) /\ Len(E) = m /\ \A i \in 1..m : E[i] = F[i]
    BY <1>1, <2>2, Beginning
  <2> HIDE DEF E
  <2>7. p \in [1..n -> 1..Len(E)]
    BY <2>3, <2>6 DEF Holds
  <2>8. \A k \in 1..n : E[p[k]] = ls[k]
    BY <2>3, <2>6 DEF Holds
  <2>9. \A i \in 1..Len(E) : (\A k \in 1..n : p[k] # i) => E[i].left = 0
    <3>1. \A i \in 1..Len(E) : i \in 1..Len(F) /\ E[i] = F[i]
      BY <1>1, <2>2, <2>6
    <3> QED BY <3>1 DEF Holds
  <2>10. Holds(E, ls, p)
    BY <2>6, <2>7, <2>8, <2>9 DEF Holds
  <2> QED BY <1>3, <2>5, <2>6, <2>10 DEF m
<1> QED BY <1>2, <1>3

\* A tag whose item begins is one more of the tags between the levels.
LEMMA HoldsTag ==
  ASSUME NEW F, NEW ls \in Seq(LevelSet), NEW p, Holds(F, ls, p),
         NEW l \in OpenSet, l.left = 0
  PROVE  Holds(Append(F, l), ls, p)
<1> DEFINE G == Append(F, l)
<1>1. F \in Seq(OpenSet) /\ Len(F) \in Nat
  BY LenProperties DEF Holds
<1>2. /\ G \in Seq(OpenSet) /\ Len(G) = Len(F) + 1 /\ G[Len(F) + 1] = l
      /\ \A i \in 1..Len(F) : G[i] = F[i]
  BY <1>1, AppendProperties
<1> HIDE DEF G
<1>3. 1..Len(F) \subseteq 1..Len(G)
  BY <1>1, <1>2
<1>4. p \in [1..Len(ls) -> 1..Len(G)]
  BY <1>3 DEF Holds
<1>5. \A k \in 1..Len(ls) : G[p[k]] = ls[k]
  BY <1>2 DEF Holds
<1>6. \A i \in 1..Len(G) : i \in 1..Len(F) \/ i = Len(F) + 1
  BY <1>1, <1>2
<1>7. \A i \in 1..Len(G) : (\A k \in 1..Len(ls) : p[k] # i) => G[i].left = 0
  BY <1>2, <1>6 DEF Holds
<1> QED BY <1>2, <1>4, <1>5, <1>7 DEF Holds, G

\* A block is opened.
LEMMA HoldsOpened ==
  ASSUME NEW F, NEW ls \in Seq(LevelSet), NEW p, Holds(F, ls, p), NEW l \in LevelSet
  PROVE  \E q : Holds(Append(F, l), Append(ls, l), q)
<1> DEFINE G == Append(F, l)
           m == Append(ls, l)
           n == Len(ls)
<1>1. F \in Seq(OpenSet) /\ Len(F) \in Nat /\ n \in Nat /\ l \in OpenSet
  BY LenProperties DEF Holds, LevelSet, OpenSet, BlockTypes
<1>2. /\ G \in Seq(OpenSet) /\ Len(G) = Len(F) + 1 /\ G[Len(F) + 1] = l
      /\ \A i \in 1..Len(F) : G[i] = F[i]
  BY <1>1, AppendProperties
<1>3. Len(m) = n + 1 /\ m[n + 1] = l /\ \A i \in 1..n : m[i] = ls[i]
  BY AppendProperties
<1> HIDE DEF G, m, n
<1> DEFINE q == [k \in 1..n + 1 |-> IF k = n + 1 THEN Len(F) + 1 ELSE p[k]]
<1>4. \A k \in 1..n : k \in 1..n + 1 /\ k # n + 1 /\ p[k] \in 1..Len(F) /\ q[k] = p[k]
  BY <1>1 DEF Holds, n
<1>5. q[n + 1] = Len(F) + 1 /\ \A k \in 1..n + 1 : k \in 1..n \/ k = n + 1
  BY <1>1
<1>6. q \in [1..Len(m) -> 1..Len(G)]
  <2>1. q = [k \in 1..n + 1 |-> q[k]]
    OBVIOUS
  <2> HIDE DEF q
  <2>2. \A k \in 1..n + 1 : q[k] \in 1..Len(G)
    BY <1>1, <1>2, <1>4, <1>5
  <2> QED BY <1>3, <2>1, <2>2
<1> HIDE DEF q
<1>7. ASSUME NEW j \in 1..n + 1, NEW k \in 1..n + 1, j < k PROVE q[j] < q[k]
  <2>1. j \in 1..n /\ q[j] = p[j] /\ p[j] \in 1..Len(F)
    BY <1>1, <1>4, <1>5, <1>7
  <2>2. CASE k = n + 1
    BY <1>1, <1>5, <2>1, <2>2
  <2>3. CASE k \in 1..n
    BY <1>4, <1>7, <2>1, <2>3 DEF Holds, n
  <2> QED BY <1>5, <2>2, <2>3
<1>8. ASSUME NEW k \in 1..n + 1 PROVE G[q[k]] = m[k]
  <2>1. CASE k = n + 1
    BY <1>2, <1>3, <1>5, <2>1
  <2>2. CASE k \in 1..n
    BY <1>2, <1>3, <1>4, <2>2 DEF Holds, n
  <2> QED BY <1>5, <2>1, <2>2
<1>9. ASSUME NEW i \in 1..Len(G), \A k \in 1..n + 1 : q[k] # i PROVE G[i].left = 0
  <2>1. n + 1 \in 1..n + 1
    BY <1>1
  <2>2. i \in 1..Len(F)
    BY <1>1, <1>2, <1>5, <1>9, <2>1
  <2>3. \A k \in 1..n : p[k] # i
    BY <1>4, <1>9
  <2> QED BY <1>2, <2>2, <2>3 DEF Holds, n
<1>10. Holds(G, m, q)
  BY <1>2, <1>3, <1>6, <1>7, <1>8, <1>9 DEF Holds
<1> QED BY <1>10 DEF G, m

\* The innermost block is ended: what it was is like a tag, or gone.
LEMMA HoldsEnded ==
  ASSUME NEW F, NEW ls \in Seq(LevelSet), NEW p, Holds(F, ls, p), ls # <<>>,
         Innermost(ls).left = 0
  PROVE  \E q : Holds(F, SubSeq(ls, 1, Len(ls) - 1), q)
<1> DEFINE n == Len(ls)
           m == SubSeq(ls, 1, Len(ls) - 1)
<1>1. Len(m) = n - 1 /\ (\A k \in 1..n - 1 : m[k] = ls[k]) /\ n \in Nat \ {0}
  BY AllButLast, LenProperties, EmptySeq
<1> HIDE DEF m, n
<1> DEFINE q == [k \in 1..n - 1 |-> p[k]]
<1>2. \A k \in 1..n - 1 : k \in 1..n /\ q[k] = p[k]
  BY <1>1
<1>3. q \in [1..Len(m) -> 1..Len(F)]
  BY <1>1, <1>2 DEF Holds, n
<1> HIDE DEF q
<1>4. ASSUME NEW i \in 1..Len(F), \A k \in 1..n - 1 : q[k] # i PROVE F[i].left = 0
  <2>1. n \in 1..n /\ \A k \in 1..n : k \in 1..n - 1 \/ k = n
    BY <1>1
  <2>2. CASE p[n] = i
    BY <2>1, <2>2 DEF Holds, n, Innermost
  <2>3. CASE p[n] # i
    <3>1. \A k \in 1..n : p[k] # i
      BY <1>2, <1>4, <2>1, <2>3
    <3> QED BY <3>1 DEF Holds, n
  <2> QED BY <2>2, <2>3
<1>5. \A j, k \in 1..n - 1 : j < k => q[j] < q[k]
  BY <1>2 DEF Holds, n
<1>6. \A k \in 1..n - 1 : F[q[k]] = m[k]
  BY <1>1, <1>2 DEF Holds, n
<1>7. Holds(F, m, q)
  BY <1>1, <1>3, <1>4, <1>5, <1>6 DEF Holds
<1> QED BY <1>7 DEF m

\* The break ends the innermost level.
LEMMA HoldsBroken ==
  ASSUME NEW F, NEW ls \in Seq(LevelSet), NEW p, Holds(F, ls, p), ls # <<>>,
         p[Len(ls)] = Len(F)
  PROVE  \E q : Holds(SubSeq(F, 1, Len(F) - 1), SubSeq(ls, 1, Len(ls) - 1), q)
<1> DEFINE n == Len(ls)
           m == SubSeq(ls, 1, Len(ls) - 1)
           E == SubSeq(F, 1, Len(F) - 1)
<1>1. Len(m) = n - 1 /\ (\A k \in 1..n - 1 : m[k] = ls[k]) /\ n \in Nat \ {0}
  BY AllButLast, LenProperties, EmptySeq
<1>2. n \in 1..n /\ F \in Seq(OpenSet) /\ p[n] \in 1..Len(F) /\ Len(F) \in Nat \ {0}
  BY <1>1, LenProperties DEF Holds
<1>3. E \in Seq(OpenSet) /\ Len(E) = Len(F) - 1 /\ \A i \in 1..Len(F) - 1 : E[i] = F[i]
  BY <1>2, AllButLast, EmptySeq
<1> HIDE DEF m, n, E
<1> DEFINE q == [k \in 1..n - 1 |-> p[k]]
<1>4. ASSUME NEW k \in 1..n - 1
      PROVE  k \in 1..n /\ k < n /\ q[k] = p[k] /\ p[k] \in 1..Len(F) - 1
  <2>1. k \in 1..n /\ k < n /\ q[k] = p[k]
    BY <1>1
  <2>2. p[k] < p[n] /\ p[k] \in 1..Len(F)
    BY <1>2, <2>1 DEF Holds, n
  <2>3. p[n] = Len(F)
    BY DEF n
  <2> QED BY <1>2, <2>1, <2>2, <2>3
<1>5. q \in [1..Len(m) -> 1..Len(E)]
  BY <1>1, <1>3, <1>4
<1> HIDE DEF q
<1>6. ASSUME NEW i \in 1..Len(E), \A k \in 1..n - 1 : q[k] # i PROVE E[i].left = 0
  <2>1. i \in 1..Len(F) - 1 /\ i \in 1..Len(F) /\ i # Len(F)
    BY <1>2, <1>3
  <2>2. \A k \in 1..n : k \in 1..n - 1 \/ k = n
    BY <1>1
  <2>3. \A k \in 1..n : p[k] # i
    BY <1>4, <1>6, <2>1, <2>2 DEF n
  <2> QED BY <1>3, <2>1, <2>3 DEF Holds, n
<1>7. \A j, k \in 1..n - 1 : j < k => q[j] < q[k]
  BY <1>4 DEF Holds, n
<1>8. \A k \in 1..n - 1 : E[q[k]] = m[k]
  BY <1>1, <1>3, <1>4 DEF Holds, n
<1>9. Holds(E, m, q)
  BY <1>1, <1>3, <1>5, <1>6, <1>7, <1>8 DEF Holds
<1> QED BY <1>9 DEF m, E

\* Where an item begins: what is open is exactly the client's levels and tags.
LEMMA ItemBegins ==
  ASSUME EncodeTypeOK, NEW t, MayPut(t), Reads(open, levels, tag)
  PROVE  /\ open # <<>> /\ Innermost(open).type = "text" => t.kind = "text"
         /\ \E G, p : G = Taken(open) /\ Holds(G, LevelsTaken, p)
<1>1. levels \in Seq(LevelSet) /\ Len(levels) \in Nat /\ tag \in BOOLEAN
  BY LenProperties DEF EncodeTypeOK
<1>2. PICK F, p : /\ Holds(F, levels, p)
                  /\ open = IF tag THEN Append(F, Level("tag", 1)) ELSE Trimmed(F)
  BY DEF Reads
<1>3. F \in Seq(OpenSet) /\ Len(F) \in Nat
  BY <1>2, LenProperties DEF Holds
<1>4. CASE tag
  <2> DEFINE l == Level("tag", 1)
             d == TakenLevel(l)
  <2>1. l \in OpenSet /\ l.type = "tag" /\ l.left = 1
    BY DEF Level, OpenSet
  <2> HIDE DEF l
  <2>2. d \in OpenSet /\ d.left = 0
    <3>1. l.left # Unbounded /\ l.left - 1 = 0
      BY <2>1 DEF Unbounded
    <3>2. d = [l EXCEPT !.left = 0]
      BY <3>1 DEF TakenLevel
    <3> HIDE DEF d
    <3> QED BY <2>1, <3>2 DEF OpenSet
  <2> HIDE DEF d
  <2>3. /\ open \in Seq(OpenSet) /\ Len(open) = Len(F) + 1 /\ open[Len(F) + 1] = l
        /\ \A i \in 1..Len(F) : open[i] = F[i]
    BY <1>2, <1>3, <1>4, <2>1, AppendProperties DEF l
  <2>4. open # <<>> /\ Innermost(open) = l
    BY <1>3, <2>3, EmptySeq DEF Innermost
  <2>5. Taken(open) = [open EXCEPT ![Len(open)] = d]
    BY <2>4 DEF Taken, d
  <2>6. [open EXCEPT ![Len(open)] = d] = Append(F, d)
    <3>1. open = Append(F, l) /\ Len(open) = Len(F) + 1
      BY <1>2, <1>4, <2>3 DEF l
    <3> QED BY <1>3, <2>1, <2>2, <3>1, LastReplaced
  <2>7. Holds(Append(F, d), levels, p)
    BY <1>1, <1>2, <2>2, HoldsTag
  <2>8. LevelsTaken = levels
    BY <1>4 DEF LevelsTaken
  <2> QED BY <2>1, <2>4, <2>5, <2>6, <2>7, <2>8
<1>5. CASE ~tag
  <2>1. levels # <<>> => Innermost(levels).left # 0
    BY <1>5 DEF MayPut
  <2>2. PICK E : /\ Trimmed(F) = E /\ Holds(E, levels, p)
                 /\ Len(E) = IF levels = <<>> THEN 0 ELSE p[Len(levels)]
    BY <1>1, <1>2, <2>1, HoldsUpTo
  <2>3. open = E /\ E \in Seq(OpenSet)
    BY <1>2, <1>5, <2>2 DEF Holds
  <2>4. LevelsTaken = Taken(levels)
    BY <1>5 DEF LevelsTaken
  <2>5. CASE levels = <<>>
    <3>1. E = <<>> /\ Taken(levels) = <<>>
      BY <2>2, <2>3, <2>5, EmptySeq DEF Taken
    <3>2. Taken(open) = E
      BY <2>3, <3>1 DEF Taken
    <3> QED BY <2>2, <2>3, <2>4, <2>5, <3>1, <3>2
  <2>6. CASE levels # <<>>
    <3> DEFINE n == Len(levels)
               l == TakenLevel(Innermost(levels))
    <3>1. n \in 1..n /\ Innermost(levels) \in LevelSet /\ Innermost(levels) = levels[n]
      BY <1>1, <2>6, EmptySeq, ElementOf DEF Innermost
    <3>2. Len(E) = p[n] /\ p[n] \in 1..Len(E) /\ E[p[n]] = levels[n]
      BY <2>2, <2>6, <3>1 DEF Holds
    <3>3. open # <<>> /\ Innermost(open) = Innermost(levels)
      BY <2>3, <3>1, <3>2, EmptySeq DEF Innermost
    <3>4. l \in LevelSet /\ l \in OpenSet
      <4>1. l \in LevelSet
        BY <2>1, <2>6, <3>1, TakenLevelType
      <4> HIDE DEF l
      <4> QED BY <4>1 DEF LevelSet, OpenSet, BlockTypes
    <3>5. Taken(open) = [E EXCEPT ![Len(E)] = l] /\ Taken(levels) = [levels EXCEPT ![n] = l]
      BY <2>3, <2>6, <3>3 DEF Taken
    <3> HIDE DEF l
    <3> DEFINE G == [E EXCEPT ![Len(E)] = l]
               m == [levels EXCEPT ![n] = l]
    <3>6. /\ G \in Seq(OpenSet) /\ Len(G) = Len(E) /\ G[Len(E)] = l
          /\ \A i \in 1..Len(E) : i # Len(E) => G[i] = E[i]
      BY <2>3, <3>2, <3>4
    <3>7. Len(m) = n /\ m[n] = l /\ \A k \in 1..n : k # n => m[k] = levels[k]
      BY <1>1, <3>1, <3>4
    <3> HIDE DEF G, m
    <3>8. \A k \in 1..n : k # n => p[k] # Len(E)
      <4> SUFFICES ASSUME NEW k \in 1..n, k # n PROVE p[k] # Len(E)
        OBVIOUS
      <4>1. k < n
        BY <1>1
      <4>2. p[k] < p[n] /\ p[k] \in 1..Len(E)
        BY <2>2, <3>1, <4>1 DEF Holds
      <4> QED BY <3>2, <4>2
    <3>9. \A k \in 1..n : G[p[k]] = m[k]
      BY <2>2, <3>2, <3>6, <3>7, <3>8 DEF Holds
    <3>10. \A i \in 1..Len(G) : (\A k \in 1..n : p[k] # i) => G[i].left = 0
      BY <2>2, <3>1, <3>2, <3>6 DEF Holds
    <3>11. Holds(G, m, p)
      BY <2>2, <3>6, <3>7, <3>9, <3>10 DEF Holds
    <3>12. Innermost(open).type = "text" => t.kind = "text"
      BY <2>6, <3>3 DEF MayPut
    <3> QED BY <2>4, <3>5, <3>11, <3>12 DEF G, m
  <2> QED BY <2>5, <2>6
<1> QED BY <1>4, <1>5

\* A token that is no break.
LEMMA PutLegal ==
  ASSUME EncodeTypeOK, NEW t, t.kind # "break", MayPut(t), Reads(open, levels, tag), Write(t)
  PROVE  legal' /\ open' = Trimmed(Taken(open) \o Opened(t))
<1>1. Legal(open, t)
  BY ItemBegins DEF Legal
<1> QED BY <1>1 DEF Write, After

\* Nothing is written at first.
LEMMA WrittenInit == Init => WrittenInv
<1> SUFFICES ASSUME Init PROVE WrittenInv
  OBVIOUS
<1>1. levels = <<>> /\ open = <<>> /\ tag = FALSE /\ legal /\ mistakes = {}
  BY DEF Init
<1> DEFINE p == [k \in 1..0 |-> 1]
<1>2. Holds(<<>>, <<>>, p)
  BY EmptySeq DEF Holds
<1>3. Trimmed(<<>>) = <<>>
  <2>1. <<>> \in Seq(OpenSet) /\ Len(<<>>) = 0
    BY EmptySeq
  <2>2. \A F \in Seq(OpenSet) : Len(F) = 0 => Trimmed(F) = <<>>
    <3> SUFFICES ASSUME NEW F \in Seq(OpenSet), Len(F) = 0 PROVE Trimmed(F) = <<>>
      OBVIOUS
    <3>1. \A i \in 1..Len(F) : F[i].left = 0
      OBVIOUS
    <3> QED BY <3>1, TrimmedAll
  <2> QED BY ONLY <2>1, <2>2
<1> HIDE DEF p
<1>4. Reads(open, levels, tag)
  BY <1>1, <1>2, <1>3 DEF Reads
<1> QED BY <1>1, <1>4 DEF WrittenInv

\* Each call leaves well-formed bytes: an item,
LEMMA WrittenItem ==
  ASSUME EncodeInv, WrittenInv, NEW t, EncodeItem(t)
  PROVE  WrittenInv'
<1> SUFFICES ASSUME mistakes \cap {"short", "hidden"} = {}
             PROVE  legal' /\ mistakes = {} /\ Reads(open', levels', tag')
  BY DEF WrittenInv, EncodeItem
<1>1. EncodeTypeOK /\ MayPut(t) /\ err = "NB_ERR_OK" /\ t.kind \in {"uint", "text"}
  BY DEF EncodeInv, EncodeItem, MayPut, Ready
<1>2. mistakes = {} /\ Reads(open, levels, tag)
  BY <1>1 DEF WrittenInv
<1>3. PICK G, p : G = Taken(open) /\ Holds(G, LevelsTaken, p)
  BY <1>1, <1>2, ItemBegins
<1>4. legal' /\ open' = Trimmed(G \o Opened(t))
  BY <1>1, <1>2, <1>3, PutLegal DEF EncodeItem
<1>5. G \o Opened(t) = G
  <2>1. Opened(t) = <<>>
    BY <1>1 DEF Opened
  <2>2. G \in Seq(OpenSet)
    BY <1>3 DEF Holds
  <2> QED BY <2>1, <2>2, ConcatEmptySeq
<1>6. levels' = LevelsTaken /\ tag' = FALSE
  BY DEF EncodeItem
<1> QED BY <1>2, <1>3, <1>4, <1>5, <1>6 DEF Reads

\* a tag,
LEMMA WrittenTag ==
  ASSUME EncodeInv, WrittenInv, EncodeTag
  PROVE  WrittenInv'
<1> DEFINE t == Token("tag", 0)
           l == Level("tag", 1)
<1>1. EncodeTypeOK /\ MayPut(t) /\ err = "NB_ERR_OK" /\ t.kind # "break" /\ Write(t)
  BY DEF EncodeInv, EncodeTag, MayPut, Ready, Token
<1>2. Opened(t) = <<l>> /\ l \in OpenSet /\ l.left # 0
  <2>1. t.kind = "tag"
    BY DEF Token
  <2>2. l \in OpenSet /\ l.left # 0
    BY DEF Level, OpenSet
  <2> HIDE DEF t
  <2> QED BY <2>1, <2>2 DEF Opened
<1> HIDE DEF t, l
<1> SUFFICES ASSUME mistakes' \cap {"short", "hidden"} = {}
             PROVE  legal' /\ mistakes' = {} /\ Reads(open', levels', tag')
  BY DEF WrittenInv
<1>3. mistakes' = mistakes /\ mistakes = {} /\ Reads(open, levels, tag)
  BY <1>1 DEF WrittenInv, EncodeTag
<1>4. PICK G, p : G = Taken(open) /\ Holds(G, LevelsTaken, p)
  BY <1>1, <1>3, ItemBegins
<1>5. legal' /\ open' = Trimmed(G \o <<l>>)
  BY <1>1, <1>2, <1>3, <1>4, PutLegal
<1>6. G \in Seq(OpenSet) /\ G \o <<l>> = Append(G, l)
  BY <1>2, <1>4, ConcatOne DEF Holds
<1>7. Trimmed(Append(G, l)) = Append(G, l)
  BY <1>2, <1>6, TrimmedNone
<1>8. levels' = LevelsTaken /\ tag' = TRUE
  BY DEF EncodeTag
<1> QED BY <1>3, <1>4, <1>5, <1>6, <1>7, <1>8 DEF Reads, l

\* and a block that is opened.
LEMMA WrittenBlock ==
  ASSUME EncodeInv, WrittenInv, NEW t \in Tokens(MaxCount), StartBlock(t)
  PROVE  WrittenInv'
<1> SUFFICES ASSUME mistakes \cap {"short", "hidden"} = {}
             PROVE  legal' /\ mistakes = {} /\ Reads(open', levels', tag')
  BY DEF WrittenInv, StartBlock
<1>1. EncodeTypeOK /\ MayPut(t) /\ err = "NB_ERR_OK" /\ Write(t) /\ t.kind # "break"
  BY DEF EncodeInv, StartBlock, MayPut, Ready
<1>2. mistakes = {} /\ Reads(open, levels, tag)
  BY <1>1 DEF WrittenInv
<1>3. PICK l \in LevelSet : Opened(t) = <<l>>
  BY OpenedLevel DEF StartBlock
<1>4. PICK G, p : G = Taken(open) /\ Holds(G, LevelsTaken, p)
  BY <1>1, <1>2, ItemBegins
<1>5. LevelsTaken \in Seq(LevelSet)
  BY <1>1, LevelsTakenType
<1>6. legal' /\ open' = Trimmed(G \o <<l>>) /\ levels' = LevelsTaken \o <<l>> /\ tag' = FALSE
  BY <1>1, <1>2, <1>3, <1>4, PutLegal DEF StartBlock
<1>7. G \o <<l>> = Append(G, l) /\ LevelsTaken \o <<l>> = Append(LevelsTaken, l)
  <2>1. l \in OpenSet
    BY DEF LevelSet, OpenSet, BlockTypes
  <2>2. G \in Seq(OpenSet)
    BY <1>4 DEF Holds
  <2> QED BY <1>5, <2>1, <2>2, ConcatOne
<1>8. PICK q : Holds(Append(G, l), Append(LevelsTaken, l), q)
  BY <1>4, <1>5, HoldsOpened
<1> QED BY <1>2, <1>6, <1>7, <1>8 DEF Reads

\* The break that ends a block of indefinite length.
LEMMA BreakLegal ==
  ASSUME EncodeTypeOK, Reads(open, levels, tag), ~tag, levels # <<>>,
         Innermost(levels).left = Unbounded,
         Innermost(levels).type = "map" => ~Innermost(levels).odd, Write(Break)
  PROVE  legal' /\ Reads(open', SubSeq(levels, 1, Len(levels) - 1), FALSE)
<1> DEFINE n == Len(levels)
<1>1. levels \in Seq(LevelSet) /\ n \in 1..n /\ Innermost(levels) = levels[n]
      /\ Innermost(levels).left # 0
  BY LenProperties, EmptySeq DEF EncodeTypeOK, Innermost, Unbounded
<1>2. PICK F, p : Holds(F, levels, p) /\ open = Trimmed(F)
  BY DEF Reads
<1>3. PICK E : Trimmed(F) = E /\ Holds(E, levels, p) /\ Len(E) = p[n]
  BY <1>1, <1>2, HoldsUpTo
<1>4. E \in Seq(OpenSet) /\ E[Len(E)] = levels[n] /\ Len(E) \in 1..Len(E)
  BY <1>1, <1>3 DEF Holds
<1>5. open # <<>> /\ Innermost(open) = Innermost(levels)
  BY <1>1, <1>2, <1>3, <1>4, EmptySeq DEF Innermost
<1>6. Break.kind = "break"
  BY DEF Break, Token
<1>7. Legal(open, Break)
  BY <1>5, <1>6 DEF Legal
<1>8. legal' /\ open' = Trimmed(SubSeq(E, 1, Len(E) - 1))
  BY <1>2, <1>3, <1>6, <1>7 DEF Write, After
<1>9. PICK q : Holds(SubSeq(E, 1, Len(E) - 1), SubSeq(levels, 1, n - 1), q)
  BY <1>1, <1>3, HoldsBroken
<1> QED BY <1>8, <1>9 DEF Reads

\* Ending a block that is complete is either refused or leaves well-formed bytes.
LEMMA WrittenEnd ==
  ASSUME EncodeInv, WrittenInv, NEW type \in BlockTypes, End(type)
  PROVE  WrittenInv'
<1> SUFFICES ASSUME mistakes' \cap {"short", "hidden"} = {}
             PROVE  legal' /\ (err' = "NB_ERR_OK" => mistakes' = {} /\ Reads(open', levels', tag'))
  BY DEF WrittenInv
<1>1. EncodeTypeOK /\ err = "NB_ERR_OK" /\ legal /\ mistakes' = mistakes \cup MistakesAtEnd(type)
  BY DEF EncodeInv, End, Ready
<1>2. mistakes = {} /\ Reads(open, levels, tag)
  BY <1>1 DEF WrittenInv
<1>3. mistakes' = MistakesAtEnd(type) /\ "short" \notin MistakesAtEnd(type)
      /\ "hidden" \notin MistakesAtEnd(type)
  BY <1>1, <1>2
<1>4. Follows(blocks, levels, tags)
  BY <1>1, <1>2 DEF EncodeInv
<1>5. levels \in Seq(LevelSet) /\ Len(levels) \in Nat
  BY <1>1, LenProperties DEF EncodeTypeOK
<1>6. CASE legal' = legal /\ err' # "NB_ERR_OK"
  BY <1>1, <1>6
<1>7. CASE /\ ~(type = "map" /\ TopBlock.num_items % 2 # 0) /\ TopBlock.type = type
           /\ levels' = SubSeq(levels, 1, Len(levels) - 1) /\ tag' = FALSE
           /\ IF TopBlock.indefinite THEN Write(Break) ELSE UNCHANGED <<nwritten, open, legal>>
  <2>1. levels # <<>> /\ TopBlock.type = Innermost(levels).type /\ Innermost(levels).type = type
        /\ (TopBlock.indefinite <=> Innermost(levels).left = Unbounded)
    BY <1>1, <1>4, <1>7, TopAgrees DEF Agree, BlockTypes
  <2>2. ~(Innermost(levels).left > 0) /\ ~tag
    BY <1>3, <2>1 DEF MistakesAtEnd
  <2>3. Innermost(levels) \in LevelSet
    <3>1. Len(levels) \in 1..Len(levels)
      <4>1. Len(levels) # 0
        BY <1>5, <2>1, EmptySeq
      <4> QED BY ONLY <1>5, <4>1
    <3> QED BY <1>5, <3>1, ElementOf DEF Innermost
  <2>4. type = "map" => ~Innermost(levels).odd
    <3> SUFFICES ASSUME type = "map" PROVE ~Innermost(levels).odd
      OBVIOUS
    <3>1. Innermost(levels).odd => OddTags
      BY <1>1, <1>4, <1>7, <2>1, <2>2, MapParity
    <3>2. Innermost(levels).odd => ~OddTags
      BY <1>3, <2>1 DEF MistakesAtEnd
    <3> QED BY <3>1, <3>2
  <2>5. MistakesAtEnd(type) = {}
    BY <2>1, <2>2, <2>4 DEF MistakesAtEnd
  <2>6. CASE TopBlock.indefinite
    <3>1. Innermost(levels).left = Unbounded
      BY <2>1, <2>6
    <3>2. Write(Break)
      BY <1>7, <2>6
    <3> QED BY <1>1, <1>2, <1>3, <1>7, <2>1, <2>2, <2>4, <2>5, <3>1, <3>2, BreakLegal
  <2>7. CASE ~TopBlock.indefinite
    <3>1. Innermost(levels).left # Unbounded
      BY <2>1, <2>7
    <3>2. Innermost(levels).left = 0
      <4>1. Innermost(levels).left \in Nat
        BY <2>3, <3>1 DEF LevelSet
      <4> QED BY ONLY <2>2, <4>1
    <3>3. PICK F, p : Holds(F, levels, p) /\ open = Trimmed(F)
      BY <1>2, <2>2 DEF Reads
    <3>4. PICK q : Holds(F, SubSeq(levels, 1, Len(levels) - 1), q)
      BY <1>5, <2>1, <3>2, <3>3, HoldsEnded
    <3>5. open' = open /\ legal' = legal
      BY <1>7, <2>7
    <3> QED BY <1>1, <1>3, <1>7, <2>5, <3>3, <3>4, <3>5 DEF Reads
  <2> QED BY <2>6, <2>7
<1>8. err' = "NB_ERR_OK" \/ err' = "NB_ERR_OPER" \/ err' = "NB_ERR_NITEMS"
  BY <1>1 DEF End, EndBlock, Refuse
<1> QED BY <1>1, <1>6, <1>7 DEF End, EndBlock, Refuse, BlockDone

\* The invariant is inductive beside that of the blocks.
LEMMA WrittenNext == EncodeInv /\ WrittenInv /\ [Next]_vars => WrittenInv'
<1> SUFFICES ASSUME EncodeInv, WrittenInv, [Next]_vars PROVE WrittenInv'
  OBVIOUS
<1>1. CASE \E t \in Tokens(MaxCount) : EncodeItem(t)
  BY <1>1, WrittenItem
<1>2. CASE \E t \in Tokens(MaxCount) : StartBlock(t)
  BY <1>2, WrittenBlock
<1>3. CASE EncodeTag
  BY <1>3, WrittenTag
<1>4. CASE \E type \in {"array", "map", "text"} : End(type)
  BY <1>4, WrittenEnd DEF BlockTypes
<1>5. CASE UNCHANGED vars
  BY <1>5 DEF vars, WrittenInv
<1> QED BY <1>1, <1>2, <1>3, <1>4, <1>5 DEF Next

\* Whatever a client writes and wherever it ends a block, the bytes are ill-formed only
\* if it left a block of known length or a tag without its items, or a map with an odd
\* item beside an odd number of tags.
THEOREM WellFormedAlways == Spec => []WrittenIsWellFormed
<1>1. WrittenInv => WrittenIsWellFormed
  BY DEF WrittenInv, WrittenIsWellFormed
<1> QED BY <1>1, InitInv, NextInv, WrittenInit, WrittenNext, PTL DEF Spec

\* When only the root block is left and no mistake was made, the items are complete.
LEMMA RootComplete == EncodeInv /\ WrittenInv => EmptyStackIsComplete
<1> SUFFICES ASSUME EncodeInv, WrittenInv, mistakes = {}, err = "NB_ERR_OK", Len(blocks) = 1
             PROVE  levels = <<>> /\ (open = <<>> \/ tag)
  BY DEF EmptyStackIsComplete, Complete
<1>1. levels \in Seq(LevelSet) /\ Len(blocks) = Len(levels) + 1
  BY DEF EncodeInv, EncodeTypeOK, Follows
<1>2. levels = <<>> /\ Len(levels) = 0
  BY <1>1, EmptySeq, LenProperties
<1>3. PICK F, p : /\ Holds(F, levels, p)
                  /\ open = IF tag THEN Append(F, Level("tag", 1)) ELSE Trimmed(F)
  BY DEF WrittenInv, Reads
<1>4. F \in Seq(OpenSet) /\ \A i \in 1..Len(F) : F[i].left = 0
  BY <1>2, <1>3 DEF Holds
<1> QED BY <1>2, <1>3, <1>4, TrimmedAll

\* Whenever a client that made no mistake is back at the root block, its items are complete.
THEOREM CompleteAtRoot == Spec => []EmptyStackIsComplete
  BY RootComplete, InitInv, NextInv, WrittenInit, WrittenNext, PTL DEF Spec

\* So it is with what cbor_encode_item writes.
THEOREM ItemWellFormed == ItemSpec => []WrittenIsWellFormed
  BY ItemsAreCalls, WellFormedAlways, PTL

-----------------------------------------------------------------------------
(* cbor_encode_item.                                                       *)

\* The frames td of the recursion that are no tags are the levels ls, that of ls[k] at
\* place at[k].
Loops(td, ls, at) ==
  /\ at \in [1..Len(ls) -> 1..Len(td)]
  /\ \A j, k \in 1..Len(ls) : j < k => at[j] < at[k]
  /\ \A i \in 1..Len(td) : td[i].type # "tag" => \E k \in 1..Len(ls) : at[k] = i
  /\ \A k \in 1..Len(ls) :
       /\ ls[k].type = td[at[k]].type
       /\ IF ls[k].left = Unbounded
          THEN ls[k].type = "map" => (ls[k].odd <=> td[at[k]].left % 2 = 1)
          ELSE ls[k].left = td[at[k]].left /\ ~ls[k].odd

\* Only the innermost frame can be a tag whose item has not begun.
TagsOf(td, tg) ==
  /\ \A i \in 1..Len(td) : td[i].type = "tag" => td[i].left = IF tg /\ i = Len(td) THEN 1 ELSE 0
  /\ tg => Len(td) \in 1..Len(td) /\ td[Len(td)].type = "tag"

LoopsInv ==
  client = "items" =>
    /\ mistakes = {}
    /\ Ready => TagsOf(todo, tag) /\ \E at : Loops(todo, levels, at)

Frames == [type : {"array", "map", "tag"}, left : Nat]

\* The innermost frame, if it is no tag, is the innermost level.
LEMMA LastLoop ==
  ASSUME NEW td \in Seq(Frames), NEW ls \in Seq(LevelSet), NEW at, Loops(td, ls, at),
         td # <<>>, td[Len(td)].type # "tag"
  PROVE  Len(ls) \in 1..Len(ls) /\ at[Len(ls)] = Len(td)
<1>1. Len(td) \in 1..Len(td) /\ Len(ls) \in Nat
  <2>1. Len(td) \in Nat /\ Len(td) # 0 /\ Len(ls) \in Nat
    BY LenProperties, EmptySeq
  <2> QED BY ONLY <2>1
<1>2. PICK k \in 1..Len(ls) : at[k] = Len(td)
  BY <1>1 DEF Loops
<1>3. Len(ls) \in 1..Len(ls)
  BY <1>1
<1>4. k = Len(ls)
  <2>1. at[Len(ls)] \in 1..Len(td) /\ (k < Len(ls) => at[k] < at[Len(ls)])
    BY <1>3 DEF Loops
  <2> QED BY <1>1, <1>2, <1>3, <2>1
<1> QED BY <1>2, <1>3, <1>4

\* An item begins, in the recursion as in the client's levels.
LEMMA LoopsItem ==
  ASSUME EncodeTypeOK, Recursion, NEW t, MayPut(t), ItemDue, TagsOf(todo, tag),
         NEW at, Loops(todo, levels, at)
  PROVE  Rest \in Seq(Frames) /\ TagsOf(Rest, FALSE) /\ Loops(Rest, LevelsTaken, at)
<1>1. levels \in Seq(LevelSet) /\ todo \in Seq(Frames) /\ Rest \in Seq(Frames)
  BY RestType DEF EncodeTypeOK, Recursion, Frames
<1>2. Len(levels) \in Nat /\ Len(todo) \in Nat
  BY <1>1, LenProperties
<1>3. CASE todo = <<>>
  <2>1. Len(todo) = 0 /\ ~tag /\ Rest = todo
    BY <1>3, EmptySeq DEF TagsOf, Rest
  <2>2. Len(levels) = 0
    BY <1>2, <2>1 DEF Loops
  <2>3. levels = <<>> /\ LevelsTaken = <<>>
    BY <1>1, <2>1, <2>2, EmptySeq DEF LevelsTaken, Taken
  <2> QED BY <1>1, <2>1, <2>3 DEF TagsOf
<1>4. CASE todo # <<>>
  <2> DEFINE n == Len(todo)
             f == [Current EXCEPT !.left = @ - 1]
  <2>1. n \in 1..n
    <3>1. n \in Nat /\ n # 0
      BY <1>1, <1>4, EmptySeq
    <3> QED BY ONLY <3>1
  <2>2. Current \in Frames /\ Current = todo[n] /\ Current.left > 0
    BY <1>1, <1>4, <2>1, ElementOf DEF Current, ItemDue
  <2>3. f \in Frames /\ f.type = Current.type /\ f.left = Current.left - 1
    BY <2>2 DEF Frames
  <2>4. Rest = [todo EXCEPT ![n] = f]
    BY <1>4, <2>1 DEF Rest, Current
  <2> HIDE DEF f
  <2>5. /\ Len(Rest) = n /\ Rest[n] = f
        /\ \A i \in 1..n : i # n => Rest[i] = todo[i]
    BY <1>1, <2>1, <2>3, <2>4, ExceptSeq
  <2>6. \A i \in 1..n : Rest[i].type = todo[i].type
    BY <2>2, <2>3, <2>5
  <2>7. CASE Current.type = "tag"
    <3>1. tag /\ f.left = 0
      BY <2>1, <2>2, <2>3, <2>7 DEF TagsOf
    <3>2. LevelsTaken = levels
      BY <3>1 DEF LevelsTaken
    <3>3. TagsOf(Rest, FALSE)
      BY <2>5, <2>6, <3>1 DEF TagsOf
    <3>4. ASSUME NEW k \in 1..Len(levels) PROVE at[k] \in 1..n /\ at[k] # n
      <4>1. levels[k] \in LevelSet
        BY <1>1, ElementOf
      <4>2. levels[k].type # "tag"
        BY <4>1 DEF LevelSet, BlockTypes
      <4> QED BY <2>2, <2>7, <4>2 DEF Loops
    <3>5. \A k \in 1..Len(levels) : Rest[at[k]] = todo[at[k]]
      BY <2>5, <3>4
    <3>6. Loops(Rest, levels, at)
      BY <2>5, <2>6, <3>5 DEF Loops
    <3> QED BY <1>1, <3>2, <3>3, <3>6
  <2>8. CASE Current.type # "tag"
    <3> DEFINE m == Len(levels)
               l == TakenLevel(Innermost(levels))
    <3>1. ~tag /\ LevelsTaken = Taken(levels)
      BY <2>2, <2>8 DEF TagsOf, LevelsTaken
    <3>2. m \in 1..m /\ at[m] = n
      BY <1>1, <1>4, <2>2, <2>8, LastLoop
    <3>3. levels # <<>> /\ Innermost(levels) = levels[m] /\ levels[m] \in LevelSet
      BY <1>1, <3>2, EmptySeq, ElementOf DEF Innermost
    <3>4. levels[m].left # 0
      BY <3>1, <3>3 DEF MayPut
    <3>5. /\ Len(LevelsTaken) = m /\ LevelsTaken[m] = l
          /\ \A k \in 1..m - 1 : LevelsTaken[k] = levels[k]
      BY <1>1, <3>1, <3>3, <3>4, TakenLevels
    <3>6. l.type = levels[m].type /\ l \in LevelSet
      BY <3>3, <3>4, TakenLevelType
    <3>7. /\ levels[m].type = Current.type
          /\ IF levels[m].left = Unbounded
             THEN levels[m].type = "map" => (levels[m].odd <=> Current.left % 2 = 1)
             ELSE levels[m].left = Current.left /\ ~levels[m].odd
      BY <2>2, <3>2 DEF Loops
    <3>8. IF l.left = Unbounded THEN l.type = "map" => (l.odd <=> f.left % 2 = 1)
          ELSE l.left = f.left /\ ~l.odd
      <4>1. CASE levels[m].left = Unbounded
        <5>1. l.left = Unbounded /\ l.odd = ~levels[m].odd
          BY <3>3, <4>1 DEF TakenLevel, LevelSet
        <5>2. Current.left \in Nat /\ f.left \in Nat /\ f.left + 1 = Current.left
          <6>1. Current.left \in Nat /\ Current.left > 0
            BY <2>2 DEF Frames
          <6> QED BY <2>3, <6>1
        <5>3. (f.left % 2 = 1) <=> ~(Current.left % 2 = 1)
          BY <5>2, Parity
        <5> HIDE DEF l
        <5> QED BY <3>6, <3>7, <4>1, <5>1, <5>3, Zenon
      <4>2. CASE levels[m].left # Unbounded
        <5>1. l.left = levels[m].left - 1 /\ l.odd = levels[m].odd
          BY <3>3, <4>2 DEF TakenLevel, LevelSet
        <5>2. l.left # Unbounded
          <6>1. levels[m].left \in Nat
            BY <3>3, <4>2 DEF LevelSet
          <6> QED BY <3>4, <5>1, <6>1 DEF Unbounded
        <5> HIDE DEF l
        <5> QED BY <2>3, <3>7, <4>2, <5>1, <5>2
      <4> QED BY <4>1, <4>2
    <3> HIDE DEF l
    <3>9. TagsOf(Rest, FALSE)
      BY <2>3, <2>5, <2>6, <2>8, <3>1 DEF TagsOf
    <3>10. ASSUME NEW k \in 1..m, k # m
           PROVE  LevelsTaken[k] = levels[k] /\ at[k] \in 1..n /\ Rest[at[k]] = todo[at[k]]
      <4>1. k \in 1..m - 1 /\ k < m
        BY <1>2, <3>10
      <4>2. at[k] \in 1..n /\ at[k] < at[m]
        BY <3>2, <4>1 DEF Loops
      <4>3. at[k] # n
        BY <1>2, <3>2, <4>2
      <4> QED BY <2>5, <3>5, <4>1, <4>2, <4>3
    <3>11. ASSUME NEW k \in 1..m
           PROVE  /\ LevelsTaken[k].type = Rest[at[k]].type
                  /\ IF LevelsTaken[k].left = Unbounded
                     THEN LevelsTaken[k].type = "map" =>
                            (LevelsTaken[k].odd <=> Rest[at[k]].left % 2 = 1)
                     ELSE LevelsTaken[k].left = Rest[at[k]].left /\ ~LevelsTaken[k].odd
      <4>1. CASE k = m
        BY <2>3, <2>5, <3>2, <3>5, <3>6, <3>7, <3>8, <4>1
      <4>2. CASE k # m
        BY <3>10, <4>2 DEF Loops
      <4> QED BY <4>1, <4>2
    <3>12. Loops(Rest, LevelsTaken, at)
      BY <2>5, <2>6, <3>5, <3>11 DEF Loops
    <3> QED BY <1>1, <3>9, <3>12
  <2> QED BY <2>7, <2>8
<1> QED BY <1>3, <1>4

\* A block begins, in the recursion and in the levels.
LEMMA LoopsOpened ==
  ASSUME NEW td \in Seq(Frames), NEW ls \in Seq(LevelSet), NEW at, Loops(td, ls, at),
         NEW f \in Frames, NEW l \in LevelSet, l.type = f.type,
         IF l.left = Unbounded THEN l.type = "map" => (l.odd <=> f.left % 2 = 1)
         ELSE l.left = f.left /\ ~l.odd
  PROVE  \E q : Loops(Append(td, f), Append(ls, l), q)
<1> DEFINE G == Append(td, f)
           m == Append(ls, l)
           n == Len(ls)
<1>1. Len(td) \in Nat /\ n \in Nat
  BY LenProperties
<1>2. Len(G) = Len(td) + 1 /\ G[Len(td) + 1] = f /\ \A i \in 1..Len(td) : G[i] = td[i]
  BY AppendProperties
<1>3. Len(m) = n + 1 /\ m[n + 1] = l /\ \A i \in 1..n : m[i] = ls[i]
  BY AppendProperties
<1> HIDE DEF G, m, n
<1> DEFINE q == [k \in 1..n + 1 |-> IF k = n + 1 THEN Len(td) + 1 ELSE at[k]]
<1>4. \A k \in 1..n : k \in 1..n + 1 /\ k # n + 1 /\ at[k] \in 1..Len(td) /\ q[k] = at[k]
  <2>1. \A k \in 1..n : at[k] \in 1..Len(td)
    BY DEF Loops, n
  <2> QED BY <1>1, <2>1
<1>5. q[n + 1] = Len(td) + 1 /\ \A k \in 1..n + 1 : k \in 1..n \/ k = n + 1
  BY <1>1
<1>6. q \in [1..Len(m) -> 1..Len(G)]
  <2>1. q = [k \in 1..n + 1 |-> q[k]]
    OBVIOUS
  <2> HIDE DEF q
  <2>2. \A k \in 1..n + 1 : q[k] \in 1..Len(G)
    BY <1>1, <1>2, <1>4, <1>5
  <2> QED BY <1>3, <2>1, <2>2
<1> HIDE DEF q
<1>7. ASSUME NEW j \in 1..n + 1, NEW k \in 1..n + 1, j < k PROVE q[j] < q[k]
  <2>1. j \in 1..n /\ q[j] = at[j] /\ at[j] \in 1..Len(td)
    BY <1>1, <1>4, <1>5, <1>7
  <2>2. CASE k = n + 1
    BY <1>1, <1>5, <2>1, <2>2
  <2>3. CASE k \in 1..n
    BY <1>4, <1>7, <2>1, <2>3 DEF Loops, n
  <2> QED BY <1>5, <2>2, <2>3
<1>8. ASSUME NEW i \in 1..Len(G), G[i].type # "tag" PROVE \E k \in 1..n + 1 : q[k] = i
  <2>1. n + 1 \in 1..n + 1
    BY <1>1
  <2>2. CASE i = Len(td) + 1
    BY <1>5, <2>1, <2>2
  <2>3. CASE i # Len(td) + 1
    <3>1. i \in 1..Len(td)
      BY <1>1, <1>2, <2>3
    <3>2. PICK k \in 1..n : at[k] = i
      BY <1>2, <1>8, <3>1 DEF Loops, n
    <3> QED BY <1>4, <3>2
  <2> QED BY <2>2, <2>3
<1>9. ASSUME NEW k \in 1..n + 1
      PROVE  /\ m[k].type = G[q[k]].type
             /\ IF m[k].left = Unbounded
                THEN m[k].type = "map" => (m[k].odd <=> G[q[k]].left % 2 = 1)
                ELSE m[k].left = G[q[k]].left /\ ~m[k].odd
  <2>1. CASE k = n + 1
    BY <1>2, <1>3, <1>5, <2>1
  <2>2. CASE k \in 1..n
    <3>1. m[k] = ls[k] /\ G[q[k]] = td[at[k]]
      BY <1>2, <1>3, <1>4, <2>2
    <3> QED BY <2>2, <3>1 DEF Loops, n
  <2> QED BY <1>5, <2>1, <2>2
<1>10. Loops(G, m, q)
  BY <1>3, <1>6, <1>7, <1>8, <1>9 DEF Loops
<1> QED BY <1>10 DEF G, m

\* The innermost block ends, in the recursion and in the levels.
LEMMA LoopsEnded ==
  ASSUME NEW td \in Seq(Frames), NEW ls \in Seq(LevelSet), NEW at, Loops(td, ls, at),
         td # <<>>, td[Len(td)].type # "tag"
  PROVE  \E q : Loops(SubSeq(td, 1, Len(td) - 1), SubSeq(ls, 1, Len(ls) - 1), q)
<1> DEFINE n == Len(ls)
           h == Len(td)
           m == SubSeq(ls, 1, Len(ls) - 1)
           E == SubSeq(td, 1, Len(td) - 1)
<1>1. n \in 1..n /\ at[n] = h
  BY LastLoop
<1>2. n \in Nat /\ h \in Nat /\ ls # <<>>
  BY <1>1, LenProperties, EmptySeq
<1>3. Len(m) = n - 1 /\ (\A k \in 1..n - 1 : m[k] = ls[k])
      /\ Len(E) = h - 1 /\ \A i \in 1..h - 1 : E[i] = td[i]
  BY <1>2, AllButLast
<1> HIDE DEF m, n, E, h
<1> DEFINE q == [k \in 1..n - 1 |-> at[k]]
<1>4. ASSUME NEW k \in 1..n - 1
      PROVE  k \in 1..n /\ q[k] = at[k] /\ at[k] \in 1..h - 1
  <2>1. k \in 1..n /\ k < n /\ q[k] = at[k]
    BY <1>2
  <2>2. at[k] < at[n] /\ at[k] \in 1..h
    BY <1>1, <2>1 DEF Loops, n, h
  <2> QED BY <1>1, <1>2, <2>1, <2>2
<1>5. q \in [1..Len(m) -> 1..Len(E)]
  BY <1>3, <1>4
<1> HIDE DEF q
<1>6. \A j, k \in 1..n - 1 : j < k => q[j] < q[k]
  BY <1>4 DEF Loops, n
<1>7. ASSUME NEW i \in 1..Len(E), E[i].type # "tag" PROVE \E k \in 1..n - 1 : q[k] = i
  <2>1. i \in 1..h - 1 /\ i \in 1..h /\ i # h
    BY <1>2, <1>3
  <2>2. PICK k \in 1..n : at[k] = i
    BY <1>3, <1>7, <2>1 DEF Loops, n, h
  <2>3. k \in 1..n - 1
    BY <1>1, <1>2, <2>1, <2>2
  <2> QED BY <1>4, <2>2, <2>3
<1>8. ASSUME NEW k \in 1..n - 1
      PROVE  /\ m[k].type = E[q[k]].type
             /\ IF m[k].left = Unbounded
                THEN m[k].type = "map" => (m[k].odd <=> E[q[k]].left % 2 = 1)
                ELSE m[k].left = E[q[k]].left /\ ~m[k].odd
  <2>1. m[k] = ls[k] /\ E[q[k]] = td[at[k]] /\ k \in 1..n
    BY <1>3, <1>4
  <2> QED BY <2>1 DEF Loops, n
<1>9. Loops(E, m, q)
  BY <1>3, <1>5, <1>6, <1>7, <1>8 DEF Loops
<1> QED BY <1>9 DEF m, E

\* A tagged item is written: the frame of the tag goes.
LEMMA LoopsUntagged ==
  ASSUME NEW td \in Seq(Frames), NEW ls \in Seq(LevelSet), NEW at, Loops(td, ls, at),
         td # <<>>, td[Len(td)].type = "tag"
  PROVE  Loops(SubSeq(td, 1, Len(td) - 1), ls, at)
<1> DEFINE h == Len(td)
           E == SubSeq(td, 1, Len(td) - 1)
<1>1. h \in Nat /\ Len(E) = h - 1 /\ \A i \in 1..h - 1 : E[i] = td[i]
  BY LenProperties, AllButLast
<1> HIDE DEF E, h
<1>2. ASSUME NEW k \in 1..Len(ls) PROVE at[k] \in 1..h - 1
  <2>1. ls[k] \in LevelSet
    BY ElementOf
  <2>2. ls[k].type # "tag"
    BY <2>1 DEF LevelSet, BlockTypes
  <2>3. at[k] \in 1..h /\ at[k] # h
    BY <2>2 DEF Loops, h
  <2> QED BY <1>1, <2>3
<1>3. at \in [1..Len(ls) -> 1..Len(E)]
  BY <1>1, <1>2 DEF Loops
<1>4. \A k \in 1..Len(ls) : E[at[k]] = td[at[k]]
  BY <1>1, <1>2
<1>5. \A i \in 1..Len(E) : i \in 1..h /\ E[i] = td[i]
  BY <1>1
<1>6. Loops(E, ls, at)
  BY <1>3, <1>4, <1>5 DEF Loops, h
<1> QED BY <1>6 DEF E

\* The recursion and the levels after the innermost frame is done.
LEMMA TagsLeft ==
  ASSUME NEW td \in Seq(Frames), td # <<>>, NEW tg, TagsOf(td, tg)
  PROVE  TagsOf(SubSeq(td, 1, Len(td) - 1), FALSE)
<1> DEFINE h == Len(td)
           E == SubSeq(td, 1, Len(td) - 1)
<1>1. h \in Nat /\ Len(E) = h - 1 /\ \A i \in 1..h - 1 : E[i] = td[i]
  BY LenProperties, AllButLast
<1> HIDE DEF E, h
<1>2. \A i \in 1..Len(E) : i \in 1..h /\ i # h /\ E[i] = td[i]
  BY <1>1
<1>3. TagsOf(E, FALSE)
  BY <1>2 DEF TagsOf, h
<1> QED BY <1>3 DEF E


\* Each turn of cbor_encode_item keeps recursion and levels together: a scalar,
LEMMA ScalarLoops ==
  ASSUME EncodeTypeOK, Recursion, LoopsInv, NEW t, EncodeScalar(t)
  PROVE  LoopsInv'
<1>1. client = "items" /\ MayPut(t) /\ ItemDue /\ Ready /\ mistakes = {}
  BY DEF EncodeScalar, EncodeItem, ItemDue, MayPut, LoopsInv
<1>2. PICK at : TagsOf(todo, tag) /\ Loops(todo, levels, at)
  BY <1>1 DEF LoopsInv
<1>3. TagsOf(Rest, FALSE) /\ Loops(Rest, LevelsTaken, at)
  BY <1>1, <1>2, LoopsItem
<1>4. todo' = Rest /\ levels' = LevelsTaken /\ tag' = FALSE /\ mistakes' = mistakes
  BY DEF EncodeScalar, EncodeItem
<1> QED BY <1>1, <1>3, <1>4 DEF LoopsInv

\* an array or a map,
LEMMA BlockLoops ==
  ASSUME EncodeTypeOK, Recursion, LoopsInv, NEW t \in Tokens(MaxCount), EncodeBlock(t)
  PROVE  LoopsInv'
<1>1. /\ client = "items" /\ MayPut(t) /\ ItemDue /\ Ready /\ mistakes = {}
      /\ t.kind \in {"array", "map", "array_", "map_"}
  BY DEF EncodeBlock, StartBlock, ItemDue, MayPut, LoopsInv
<1>2. PICK at : TagsOf(todo, tag) /\ Loops(todo, levels, at)
  BY <1>1 DEF LoopsInv
<1>3. Rest \in Seq(Frames) /\ TagsOf(Rest, FALSE) /\ Loops(Rest, LevelsTaken, at)
  BY <1>1, <1>2, LoopsItem
<1>4. PICK n \in ItemsOf(t) : todo' = Append(Rest, Frame(Opened(t)[1].type, n))
  BY DEF EncodeBlock
<1>5. PICK l \in LevelSet : Opened(t) = <<l>>
  BY <1>1, OpenedLevel
<1>6. l.type \in {"array", "map"} /\ ~l.odd /\ n \in Nat
      /\ IF l.left = Unbounded THEN l.type = "map" => n % 2 = 0 ELSE l.left = n
  <2>1. l = Opened(t)[1] /\ MaxCount \in Nat
    BY <1>5, BoundsAssumption
  <2>2. t.kind \in {"array", "map"} => t.n \in Nat
    BY BoundsAssumption DEF Tokens, Token
  <2>3. CASE t.kind = "array"
    <3>1. l = Level("array", t.n) /\ n = t.n
      BY <2>1, <2>3 DEF Opened, ItemsOf
    <3> QED BY <2>2, <2>3, <3>1 DEF Level, Unbounded
  <2>4. CASE t.kind = "map"
    <3>1. l = Level("map", 2 * t.n) /\ n = 2 * t.n
      BY <2>1, <2>4 DEF Opened, ItemsOf
    <3> QED BY <2>2, <2>4, <3>1 DEF Level, Unbounded
  <2>5. CASE t.kind = "array_"
    <3>1. l = Level("array", Unbounded) /\ n \in 0..MaxCount
      BY <2>1, <2>5 DEF Opened, ItemsOf
    <3> QED BY <2>1, <3>1 DEF Level, Unbounded
  <2>6. CASE t.kind = "map_"
    <3>1. l = Level("map", Unbounded) /\ \E d \in 0..MaxCount : n = 2 * d
      BY <2>1, <2>6 DEF Opened, ItemsOf
    <3> QED BY <2>1, <3>1 DEF Level, Unbounded
  <2> QED BY <1>1, <2>3, <2>4, <2>5, <2>6
<1> DEFINE f == Frame(l.type, n)
<1>7. f \in Frames /\ f.type = l.type /\ f.left = n
  BY <1>6 DEF Frames, Frame
<1>8. todo' = Append(Rest, f)
  BY <1>4, <1>5
<1> HIDE DEF f
<1>9. IF l.left = Unbounded THEN l.type = "map" => (l.odd <=> f.left % 2 = 1)
      ELSE l.left = f.left /\ ~l.odd
  <2>1. n % 2 = 0 => ~(n % 2 = 1)
    OBVIOUS
  <2> QED BY <1>6, <1>7, <2>1, Zenon
<1>10. LevelsTaken \in Seq(LevelSet) /\ levels' = LevelsTaken \o <<l>> /\ tag' = FALSE
       /\ mistakes' = mistakes /\ client' = client
  BY <1>1, <1>5, LevelsTakenType DEF EncodeBlock, StartBlock
<1>11. levels' = Append(LevelsTaken, l)
  BY <1>10, ConcatOne
<1>12. PICK q : Loops(Append(Rest, f), Append(LevelsTaken, l), q)
  BY <1>3, <1>7, <1>9, <1>10, LoopsOpened
<1>13. TagsOf(Append(Rest, f), FALSE)
  <2>1. Len(Rest) \in Nat /\ Len(Append(Rest, f)) = Len(Rest) + 1
        /\ Append(Rest, f)[Len(Rest) + 1] = f
        /\ \A i \in 1..Len(Rest) : Append(Rest, f)[i] = Rest[i]
    BY <1>3, LenProperties, AppendProperties
  <2>2. \A i \in 1..Len(Append(Rest, f)) : i \in 1..Len(Rest) \/ i = Len(Rest) + 1
    BY <2>1
  <2>3. f.type # "tag"
    BY <1>6, <1>7
  <2> QED BY <1>3, <2>1, <2>2, <2>3 DEF TagsOf
<1> QED BY <1>1, <1>8, <1>10, <1>11, <1>12, <1>13 DEF LoopsInv

\* a tag, whose item is still to come,
LEMMA TagLoops ==
  ASSUME EncodeTypeOK, Recursion, LoopsInv, EncodeTaggedItem
  PROVE  LoopsInv'
<1> DEFINE t == Token("tag", 0)
           f == Frame("tag", 1)
<1>1. client = "items" /\ MayPut(t) /\ ItemDue /\ Ready /\ mistakes = {}
  BY DEF EncodeTaggedItem, EncodeTag, ItemDue, MayPut, LoopsInv
<1>2. todo' = Append(Rest, f) /\ levels' = LevelsTaken /\ tag' = TRUE /\ client' = client
      /\ mistakes' = mistakes
  BY DEF EncodeTaggedItem, EncodeTag
<1>3. f \in Frames /\ f.type = "tag" /\ f.left = 1
  BY DEF Frame, Frames
<1> HIDE DEF t, f
<1>4. PICK at : TagsOf(todo, tag) /\ Loops(todo, levels, at)
  BY <1>1 DEF LoopsInv
<1>5. Rest \in Seq(Frames) /\ TagsOf(Rest, FALSE) /\ Loops(Rest, LevelsTaken, at)
  BY <1>1, <1>4, LoopsItem
<1> DEFINE G == Append(Rest, f)
           h == Len(Rest)
<1>6. h \in Nat /\ Len(G) = h + 1 /\ G[h + 1] = f /\ \A i \in 1..h : G[i] = Rest[i]
  BY <1>3, <1>5, LenProperties, AppendProperties
<1> HIDE DEF G, h
<1>7. /\ \A i \in 1..Len(G) : i \in 1..h \/ i = h + 1
      /\ \A i \in 1..h : i \in 1..Len(G) /\ i # Len(G)
      /\ Len(G) \in 1..Len(G)
  BY <1>6
<1>8. TagsOf(G, TRUE)
  BY <1>3, <1>5, <1>6, <1>7 DEF TagsOf, h
<1>9. Loops(G, LevelsTaken, at)
  <2>1. at \in [1..Len(LevelsTaken) -> 1..h]
    BY <1>5 DEF Loops, h
  <2>2. at \in [1..Len(LevelsTaken) -> 1..Len(G)]
    BY <1>7, <2>1
  <2>3. \A k \in 1..Len(LevelsTaken) : G[at[k]] = Rest[at[k]]
    BY <1>6, <2>1
  <2>4. \A i \in 1..Len(G) : G[i].type # "tag" => i \in 1..h /\ G[i] = Rest[i]
    BY <1>3, <1>6, <1>7
  <2> QED BY <1>5, <2>2, <2>3, <2>4 DEF Loops, h
<1> QED BY <1>1, <1>2, <1>8, <1>9 DEF LoopsInv, G

\* An array or map ends when its items are written, so that its end is no mistake.
LEMMA BlockEndLoops ==
  ASSUME EncodeTypeOK, Recursion, LoopsInv, EncodeBlockEnd, Current.type # "tag"
  PROVE  LoopsInv'
<1>1. /\ client = "items" /\ Ready /\ todo # <<>> /\ Current.left = 0 /\ End(Current.type)
      /\ todo' = SubSeq(todo, 1, Len(todo) - 1)
      /\ mistakes' = mistakes \cup MistakesAtEnd(Current.type)
  BY DEF EncodeBlockEnd, End
<1>2. mistakes = {} /\ TagsOf(todo, tag)
  BY <1>1 DEF LoopsInv
<1>3. PICK at : Loops(todo, levels, at)
  BY <1>1 DEF LoopsInv
<1>4. todo \in Seq(Frames) /\ levels \in Seq(LevelSet)
  BY DEF Recursion, Frames, EncodeTypeOK
<1> DEFINE n == Len(levels)
<1>5. n \in 1..n /\ at[n] = Len(todo) /\ Current = todo[Len(todo)]
  BY <1>1, <1>3, <1>4, LastLoop DEF Current
<1>6. levels # <<>> /\ Innermost(levels) = levels[n] /\ levels[n] \in LevelSet
  BY <1>4, <1>5, EmptySeq, ElementOf DEF Innermost
<1> DEFINE l == Innermost(levels)
<1>7. /\ l.type = Current.type
      /\ IF l.left = Unbounded THEN l.type = "map" => (l.odd <=> Current.left % 2 = 1)
         ELSE l.left = Current.left /\ ~l.odd
  BY <1>3, <1>5, <1>6 DEF Loops
<1>8. ~tag
  BY <1>1, <1>2, <1>5 DEF TagsOf
<1> HIDE DEF l, n
<1>9. ~(l.left > 0)
  <2>1. l.left = Unbounded \/ l.left = 0
    BY <1>1, <1>7
  <2>2. ~(Unbounded > 0) /\ ~(0 > 0)
    BY DEF Unbounded
  <2> QED BY ONLY <2>1, <2>2
<1>10. l.type = "map" => ~l.odd
  <2>1. ~(Current.left % 2 = 1)
    <3>1. 0 % 2 = 0
      OBVIOUS
    <3>2. Current.left % 2 = 0
      BY <1>1, <3>1
    <3> QED BY ONLY <3>2
  <2> QED BY <1>7, <2>1, Zenon
<1>11. MistakesAtEnd(Current.type) = {}
  BY <1>6, <1>7, <1>8, <1>9, <1>10 DEF MistakesAtEnd, l
<1>12. mistakes' = {} /\ client' = client
  BY <1>1, <1>2, <1>11 DEF EncodeBlockEnd
<1>13. Ready' => levels' = SubSeq(levels, 1, Len(levels) - 1) /\ tag' = FALSE
  BY <1>1 DEF End, EndBlock, Refuse, BlockDone, Ready
<1>14. PICK q : Loops(SubSeq(todo, 1, Len(todo) - 1), SubSeq(levels, 1, Len(levels) - 1), q)
  BY <1>1, <1>3, <1>4, <1>5, LoopsEnded
<1>15. TagsOf(SubSeq(todo, 1, Len(todo) - 1), FALSE)
  BY <1>1, <1>2, <1>4, TagsLeft
<1> QED BY <1>1, <1>12, <1>13, <1>14, <1>15 DEF LoopsInv

\* The tagged item is complete when its call returns.
LEMMA TagEndLoops ==
  ASSUME EncodeTypeOK, Recursion, LoopsInv, EncodeBlockEnd, Current.type = "tag"
  PROVE  LoopsInv'
<1>1. /\ client = "items" /\ Ready /\ todo # <<>> /\ Current.left = 0 /\ UNCHANGED <<vars, client>>
      /\ todo' = SubSeq(todo, 1, Len(todo) - 1)
  BY DEF EncodeBlockEnd
<1>2. mistakes = {} /\ TagsOf(todo, tag)
  BY <1>1 DEF LoopsInv
<1>3. PICK at : Loops(todo, levels, at)
  BY <1>1 DEF LoopsInv
<1>4. todo \in Seq(Frames) /\ levels \in Seq(LevelSet) /\ tag \in BOOLEAN
  BY DEF Recursion, Frames, EncodeTypeOK
<1>5. Len(todo) \in 1..Len(todo) /\ Current = todo[Len(todo)]
  <2>1. Len(todo) \in Nat /\ Len(todo) # 0
    BY <1>1, <1>4, EmptySeq
  <2>2. Len(todo) \in 1..Len(todo)
    BY ONLY <2>1
  <2> QED BY <2>2 DEF Current
<1>6. tag = FALSE
  <2>1. Current.left = IF tag THEN 1 ELSE 0
    BY <1>2, <1>5 DEF TagsOf
  <2>2. ~tag
    BY <1>1, <2>1
  <2> QED BY <1>4, <2>2
<1>7. TagsOf(SubSeq(todo, 1, Len(todo) - 1), FALSE)
  BY <1>1, <1>2, <1>4, TagsLeft
<1>8. Loops(SubSeq(todo, 1, Len(todo) - 1), levels, at)
  BY <1>1, <1>3, <1>4, <1>5, LoopsUntagged
<1>9. client' = client /\ mistakes' = mistakes /\ levels' = levels /\ tag' = FALSE
  BY <1>1, <1>6 DEF vars
<1> QED BY <1>1, <1>2, <1>7, <1>8, <1>9 DEF LoopsInv

\* No item has begun.
LEMMA LoopsInit == ItemInit => LoopsInv
<1> SUFFICES ASSUME ItemInit PROVE LoopsInv
  OBVIOUS
<1>1. todo = <<>> /\ levels = <<>> /\ tag = FALSE /\ mistakes = {}
  BY DEF ItemInit, Init
<1>2. Len(<<>>) = 0
  BY EmptySeq
<1> DEFINE at == [k \in 1..0 |-> 1]
<1>3. Loops(<<>>, <<>>, at)
  <2>1. at \in [1..0 -> 1..0]
    OBVIOUS
  <2> HIDE DEF at
  <2> QED BY <1>2, <2>1 DEF Loops
<1>4. TagsOf(<<>>, FALSE)
  BY <1>2 DEF TagsOf
<1> HIDE DEF at
<1> QED BY <1>1, <1>3, <1>4 DEF LoopsInv

\* The invariant is inductive beside that of the blocks.
LEMMA LoopsNext == EncodeInv /\ Recursion /\ LoopsInv /\ [ItemNext]_itemVars => LoopsInv'
<1> SUFFICES ASSUME EncodeInv, Recursion, LoopsInv, [ItemNext]_itemVars PROVE LoopsInv'
  OBVIOUS
<1>1. EncodeTypeOK
  BY DEF EncodeInv
<1>2. CASE client = "calls" /\ Next /\ UNCHANGED <<client, todo>>
  BY <1>2 DEF LoopsInv
<1>3. CASE \E t \in Tokens(MaxCount) : EncodeScalar(t)
  BY <1>1, <1>3, ScalarLoops
<1>4. CASE \E t \in Tokens(MaxCount) : EncodeBlock(t)
  BY <1>1, <1>4, BlockLoops
<1>5. CASE EncodeTaggedItem
  BY <1>1, <1>5, TagLoops
<1>6. CASE EncodeBlockEnd
  BY <1>1, <1>6, BlockEndLoops, TagEndLoops
<1>7. CASE UNCHANGED itemVars
  BY <1>7 DEF itemVars, vars, LoopsInv, Ready
<1> QED BY <1>2, <1>3, <1>4, <1>5, <1>6, <1>7 DEF ItemNext

\* Encoding a whole item fills and ends each block it opens as announced, misuses no
\* call, and leaves complete items if none is refused.
THEOREM ItemProper == ItemSpec => []WholeItemIsProper
<1>1. EncodeInv /\ WrittenInv /\ Recursion /\ LoopsInv => WholeItemIsProper
  <2> SUFFICES ASSUME EncodeInv, WrittenInv, Recursion, LoopsInv, client = "items"
               PROVE  WholeItemIsProper
    BY DEF WholeItemIsProper
  <2>1. mistakes = {}
    BY DEF LoopsInv
  <2>2. levels \in Seq(LevelSet) /\ EncodeTypeOK
    BY DEF EncodeInv, EncodeTypeOK
  <2> SUFFICES ASSUME Ready
               PROVE  /\ todo = <<>> => Complete(open) /\ Len(blocks) = 1
                      /\ \E at \in [1..Len(levels) -> 1..Len(todo)] :
                           /\ \A j, k \in 1..Len(levels) : j < k => at[j] < at[k]
                           /\ \A i \in 1..Len(todo) :
                                todo[i].type # "tag" => \E k \in 1..Len(levels) : at[k] = i
                           /\ \A k \in 1..Len(levels) :
                                /\ levels[k].type = todo[at[k]].type
                                /\ levels[k].left \in {todo[at[k]].left, Unbounded}
    BY <2>1 DEF WholeItemIsProper
  <2>3. TagsOf(todo, tag)
    BY DEF LoopsInv
  <2>4. PICK at : Loops(todo, levels, at)
    BY DEF LoopsInv
  <2>5. at \in [1..Len(levels) -> 1..Len(todo)]
    BY <2>4 DEF Loops
  <2>6. \A k \in 1..Len(levels) : /\ levels[k].type = todo[at[k]].type
                                  /\ levels[k].left \in {todo[at[k]].left, Unbounded}
    BY <2>4 DEF Loops
  <2>7. ASSUME todo = <<>> PROVE Complete(open) /\ Len(blocks) = 1
    <3>1. Len(todo) = 0 /\ Len(levels) \in Nat
      BY <2>2, <2>7, EmptySeq, LenProperties
    <3>2. Len(levels) = 0 /\ ~tag
      BY <2>3, <2>5, <3>1 DEF TagsOf
    <3>3. Len(blocks) = 1
      BY <2>1, <3>2 DEF EncodeInv, Follows, Ready
    <3>4. Complete(open) \/ tag
      BY <2>1, <3>3, RootComplete DEF EmptyStackIsComplete, Ready
    <3> QED BY <3>2, <3>3, <3>4
  <2> QED BY <2>4, <2>5, <2>6, <2>7 DEF Loops
<1>2. ItemSpec => [](EncodeInv /\ WrittenInv)
  BY ItemsAreCalls, InitInv, NextInv, WrittenInit, WrittenNext, PTL DEF Spec
<1>3. ItemInit => Recursion
  BY DEF ItemInit, Recursion
<1> QED BY <1>1, <1>2, <1>3, RecursionInv, LoopsInit, LoopsNext, PTL DEF ItemSpec
=============================================================================
