----------------------------- MODULE CborEncode -----------------------------
(***************************************************************************)
(* The streaming calls of src/encode.c and what they let a client write.   *)
(*                                                                         *)
(* A client writes items one after the other, and opens and ends blocks.   *)
(* The encoder counts the items of the innermost block and checks the end  *)
(* of a block: that one is open, its type, and that a map has no odd item. *)
(* That a definite-length block gets the items announced for it is left to *)
(* the client (the check in end_block is commented out), and so is the     *)
(* item that belongs to a tag.  Every header is counted, that of a tag as  *)
(* well, so that a map with an odd number of tags in it is refused if its  *)
(* items are complete and accepted if one is missing.                      *)
(*                                                                         *)
(* The client modelled here puts into a block only what may stand there,   *)
(* but may end a block of any type at any time.  "levels" is its own view  *)
(* of the blocks it has open; "open" is CborSyntax's view of the bytes.    *)
(***************************************************************************)
EXTENDS CborSyntax

CONSTANTS
  MaxTokens,  \* bound: tokens written
  MaxCount,   \* bound: the length announced for an array or map
  MaxDepth    \* bound: open blocks

ASSUME BoundsAssumption == MaxTokens \in Nat /\ MaxCount \in Nat /\ MaxDepth \in Nat

VARIABLES
  blocks,    \* cs->blocks
  err,       \* the error that has ended the process, or NB_ERR_OK
  nwritten,  \* tokens written
  levels,    \* client: the blocks it has open and the items they still take
  tag,       \* client: it has written a tag and not yet its item
  tags,      \* history: the tags in each of its blocks whose items have begun
  mistakes,  \* history: what the client has done wrong at the end of a block
  open,      \* history: the levels open after the tokens written
  legal      \* history: the tokens are the beginning of well-formed items

vars == <<blocks, err, nwritten, levels, tag, tags, mistakes, open, legal>>

\* No such block is open, items are missing in it, a map has an odd item (which
\* an odd number of tags hides from the encoder, or not).
Mistakes == {"not open", "short", "odd", "hidden"}

Block(type, indefinite) == [type |-> type, indefinite |-> indefinite, num_items |-> 0]
TopBlock == blocks[Len(blocks)]
\* write_hdr_count: every header counts, whatever it begins, but a break.
Counted == [blocks EXCEPT ![Len(blocks)].num_items = @ + 1]

Init ==
  /\ blocks = <<Block("root", TRUE)>> /\ err = "NB_ERR_OK" /\ nwritten = 0
  /\ levels = <<>> /\ tag = FALSE /\ tags = <<>> /\ mistakes = {}
  /\ open = <<>> /\ legal = TRUE

Ready == err = "NB_ERR_OK" /\ legal
\* The client may put t where it is.
MayPut(t) ==
  /\ Ready /\ nwritten < MaxTokens
  /\ levels # <<>> => /\ Innermost(levels).left # 0 \/ tag
                      /\ Innermost(levels).type = "text" => t.kind = "text"

\* The token t goes to the buffer.
Write(t) ==
  /\ nwritten' = nwritten + 1
  /\ legal' = Legal(open, t)
  /\ open' = IF Legal(open, t) THEN After(open, t) ELSE open

\* An item begins in the innermost level; what follows a tag is part of that.
LevelsTaken == IF tag THEN levels ELSE Taken(levels)
TagsTaken == IF tag /\ tags # <<>> THEN [tags EXCEPT ![Len(tags)] = @ + 1] ELSE tags

-----------------------------------------------------------------------------
\* cbor_encode_uint .. cbor_encode_sval, cbor_encode_text, cbor_encode_bytes.
EncodeItem(t) ==
  /\ t.kind \in {"uint", "text"} /\ MayPut(t)
  /\ Write(t)
  /\ blocks' = Counted
  /\ levels' = LevelsTaken /\ tag' = FALSE /\ tags' = TagsTaken
  /\ UNCHANGED <<err, mistakes>>

EncodeTag ==
  /\ MayPut(Token("tag", 0))
  /\ Write(Token("tag", 0))
  /\ blocks' = Counted
  /\ levels' = LevelsTaken /\ tag' = TRUE /\ tags' = TagsTaken
  /\ UNCHANGED <<err, mistakes>>

\* Mutant of StartBlock: the block is pushed before its header is counted.
StartBlockCountedInside(t) ==
  /\ t.kind \in {"array", "map", "array_", "map_", "text_"} /\ MayPut(t)
  /\ Len(levels) < MaxDepth
  /\ Write(t)
  /\ blocks' = Append(blocks, [Block(Opened(t)[1].type, Opened(t)[1].left = Unbounded)
                                 EXCEPT !.num_items = 1])
  /\ levels' = LevelsTaken \o Opened(t) /\ tag' = FALSE /\ tags' = Append(TagsTaken, 0)
  /\ UNCHANGED <<err, mistakes>>

\* start_block and start_block_indef.
StartBlock(t) ==
  /\ t.kind \in {"array", "map", "array_", "map_", "text_"} /\ MayPut(t)
  /\ Len(levels) < MaxDepth
  /\ Write(t)
  /\ blocks' = Append(Counted, Block(Opened(t)[1].type, Opened(t)[1].left = Unbounded))
  /\ levels' = LevelsTaken \o Opened(t) /\ tag' = FALSE /\ tags' = Append(TagsTaken, 0)
  /\ UNCHANGED <<err, mistakes>>

\* The tags that the innermost block counts as items are odd in number.
OddTags == tags # <<>> /\ tags[Len(tags)] % 2 = 1

\* What is wrong with ending a block of that type now.
MistakesAtEnd(type) ==
  IF levels = <<>> \/ Innermost(levels).type # type THEN {"not open"}
  ELSE (IF Innermost(levels).left > 0 \/ tag THEN {"short"} ELSE {})
         \cup (IF type = "map" /\ Innermost(levels).odd
               THEN {IF OddTags THEN "hidden" ELSE "odd"} ELSE {})

Refuse(code) == err' = code /\ UNCHANGED <<nwritten, levels, tag, tags, open, legal>>

\* The client's innermost block is no longer open.
BlockDone ==
  /\ levels' = SubSeq(levels, 1, Len(levels) - 1) /\ tag' = FALSE
  /\ tags' = SubSeq(tags, 1, Len(tags) - 1)

\* Mutant of EndBlock: the break is written before the type is compared.
EndBlockBreakFirst(type) ==
  IF TopBlock.type = "root" THEN Refuse("NB_ERR_OPER") /\ UNCHANGED blocks
  ELSE /\ blocks' = SubSeq(blocks, 1, Len(blocks) - 1)
       /\ IF TopBlock.indefinite THEN Write(Break) ELSE UNCHANGED <<nwritten, open, legal>>
       /\ err' = IF TopBlock.type # type THEN "NB_ERR_OPER" ELSE err
       /\ BlockDone

\* Mutant of EndBlock: no break.
EndBlockNoBreak(type) ==
  IF TopBlock.type # type THEN Refuse("NB_ERR_OPER") /\ UNCHANGED blocks
  ELSE /\ blocks' = SubSeq(blocks, 1, Len(blocks) - 1)
       /\ BlockDone
       /\ UNCHANGED <<err, nwritten, open, legal>>

\* end_block: the block is popped before its type is compared; a definite-length
\* block is ended whatever it holds.
EndBlock(type) ==
  IF TopBlock.type = "root" THEN Refuse("NB_ERR_OPER") /\ UNCHANGED blocks
  ELSE /\ blocks' = SubSeq(blocks, 1, Len(blocks) - 1)
       /\ IF TopBlock.type # type THEN Refuse("NB_ERR_OPER")
          ELSE /\ IF TopBlock.indefinite THEN Write(Break) ELSE UNCHANGED <<nwritten, open, legal>>
               /\ BlockDone
               /\ UNCHANGED err

\* cbor_encode_array_end, cbor_encode_text_end, and cbor_encode_map_end, which
\* looks for an odd item before it looks at the type of the block.
End(type) ==
  /\ Ready
  /\ mistakes' = mistakes \cup MistakesAtEnd(type)
  /\ IF type = "map" /\ TopBlock.num_items % 2 # 0
     THEN Refuse("NB_ERR_NITEMS") /\ UNCHANGED blocks
     ELSE EndBlock(type)

Next ==
  \/ \E t \in Tokens(MaxCount) : EncodeItem(t) \/ StartBlock(t)
  \/ EncodeTag
  \/ \E type \in {"array", "map", "text"} : End(type)

Spec == Init /\ [][Next]_vars

-----------------------------------------------------------------------------
(* Properties.                                                             *)

\* A client that ends each block when it is complete is refused nothing but the
\* end of a map with an odd number of tags in it, which cbor_encode_map_end takes
\* for items.
ProperClientAccepted ==
  err # "NB_ERR_OK" =>
    \/ mistakes # {}
    \/ err = "NB_ERR_NITEMS" /\ Innermost(levels).type = "map" /\ OddTags

\* What the encoder checks is enough for the rest: the bytes are ill-formed only
\* if the client has left a definite-length block or a tag without its items, or
\* a map with an odd item and an odd number of tags.  An end of the wrong type,
\* an end too many, or any other map with an odd item is refused before anything
\* is written for it.
WrittenIsWellFormed == legal \/ mistakes \cap {"short", "hidden"} # {}

\* When a proper client has ended all its blocks, cbor_block_stack_empty says so
\* and the bytes are complete items.
EmptyStackIsComplete ==
  mistakes = {} /\ err = "NB_ERR_OK" =>
    (Len(blocks) = 1 => levels = <<>> /\ (Complete(open) \/ tag))

=============================================================================
