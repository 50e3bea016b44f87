----------------------------- MODULE CborDecode -----------------------------
(***************************************************************************)
(* cbor_decode_item of src/decode.c, called for one item after the other   *)
(* until the stream ends, as diag_dump_cbor_stream and nbdiag's mirror do. *)
(*                                                                         *)
(* The decoder is recursive: "calls" holds the loops of decode_array_items *)
(* and of cbor_decode_stream and the tagged items it is in, "blocks" is    *)
(* the block stack of the cbor_stream, which it keeps besides.  The stream *)
(* is any sequence of tokens up to a length; the next one is known, as the *)
(* decoder peeks.  Numbers have no values here: whether one is out of the  *)
(* range the decoder supports is left open.  What has been read is         *)
(* followed by CborSyntax, the reference.                                  *)
(***************************************************************************)
EXTENDS CborSyntax

CONSTANTS
  MaxTokens,  \* bound: tokens in the stream
  MaxCount    \* bound: the length announced by a definite-length header

ASSUME BoundsAssumption == MaxTokens \in Nat /\ MaxCount \in Nat

VARIABLES
  next,       \* the token at which the buffer stands, or Eof
  nread,      \* tokens read
  blocks,     \* cs->blocks
  calls,      \* the callers of cbor_decode_item that wait for it to return
  at,         \* where the decoder is, or the error it has ended with
  open,       \* history: the levels open after the tokens read
  legal,      \* history: the tokens read are the beginning of well-formed items
  met         \* history: what decode.c does not cope with among the tokens read

vars == <<next, nread, blocks, calls, at, open, legal, met>>

Eof == Token("eof", 0)

Errors == {"NB_ERR_UNSUP", "NB_ERR_INDEF", "NB_ERR_ITEM", "NB_ERR_NITEMS", "NB_ERR_EOF",
           "NB_ERR_OPER", "NB_ERR_RANGE"}

Block(type, indefinite, len) ==
  [type |-> type, indefinite |-> indefinite, len |-> len, num_items |-> 0]
Root == <<Block("root", TRUE, 0)>>
TopBlock == blocks[Len(blocks)]
Counted == [blocks EXCEPT ![Len(blocks)].num_items = @ + 1]

\* A loop over the items of an array or map, over the chunks of a string, or a
\* tag: "size" is the loop's bound, i the number of items or chunks decoded.
Call(type, indefinite, size) == [type |-> type, indefinite |-> indefinite, size |-> size, i |-> 0]
TopCall == calls[Len(calls)]
CallerOf(c) == SubSeq(c, 1, Len(c) - 1)

ItemTypes == {"array", "map"}
Indefinite(t) == t.kind \in {"array_", "map_", "text_"}
TypeOf(t) ==
  CASE t.kind = "array_" -> "array"
    [] t.kind = "map_"   -> "map"
    [] t.kind = "text_"  -> "text"
    [] OTHER             -> t.kind

\* decode.c refuses floats, and loses track of a string of indefinite length
\* anywhere and of a tag among the items of a definite-length block.
Trouble(t) ==
  CASE t.kind = "other" -> {"float"}
    [] t.kind = "text_" -> {"string"}
    [] t.kind = "tag" /\ ~TopBlock.indefinite -> {"tag"}
    [] OTHER -> {}

\* What may come after a token; the stream may end at any point.
Coming(n) == {Eof} \cup (IF n < MaxTokens THEN Tokens(MaxCount) ELSE {})

Init ==
  /\ next \in Coming(0) /\ nread = 0
  /\ blocks = Root /\ calls = <<>> /\ at = "item"
  /\ open = <<>> /\ legal = TRUE /\ met = {}

-----------------------------------------------------------------------------
\* read_stream of one header, with the bytes that belong to it.
Read ==
  /\ next # Eof
  /\ nread' = nread + 1
  /\ next' \in Coming(nread + 1)
  /\ legal' = (legal /\ Legal(open, next))
  /\ open' = IF Legal(open, next) THEN After(open, next) ELSE open
  /\ met' = met \cup Trouble(next)
Unread == UNCHANGED <<next, nread, open, legal, met>>

\* cbor_is_break, which is false at the end of the stream.
IsBreak == next.kind = "break"

\* Between two items of the stream its end is seen by nb_buffer_is_eof.
Finish ==
  /\ at = "item" /\ calls = <<>> /\ next = Eof
  /\ at' = "finished"
  /\ Unread /\ UNCHANGED <<blocks, calls>>

\* A call of cbor_decode_item: the peeked header decides.
\* An integer below the least int64_t is refused when it has been read.
DecodeScalar ==
  /\ at = "item" /\ next.kind \in {"uint", "text"}
  /\ Read /\ blocks' = Counted
  /\ at' \in {"return"} \cup (IF next.kind = "uint" THEN {"NB_ERR_RANGE"} ELSE {})
  /\ UNCHANGED calls

\* So is a tag that does not fit 32 bits.
DecodeTag ==
  /\ at = "item" /\ next.kind = "tag"
  /\ Read /\ blocks' = Counted
  /\ \/ calls' = Append(calls, Call("tag", FALSE, 1)) /\ UNCHANGED at
     \/ at' = "NB_ERR_RANGE" /\ UNCHANGED calls

\* Mutant of DecodeBegin: the pairs of a map counted once.
DecodeBeginPairs ==
  /\ at = "item" /\ TypeOf(next) \in ItemTypes
  /\ Read
  /\ blocks' = Append(Counted, Block(TypeOf(next), Indefinite(next), next.n))
  /\ calls' = Append(calls, Call(TypeOf(next), Indefinite(next), next.n))
  /\ at' = "items"

\* Mutant of DecodeBegin: the array itself is not counted where it stands.
DecodeBeginUncounted ==
  /\ at = "item" /\ TypeOf(next) \in ItemTypes
  /\ Read
  /\ LET size == IF next.kind = "map" THEN 2 * next.n ELSE next.n
     IN  /\ blocks' = Append(blocks, Block(TypeOf(next), Indefinite(next), size))
         /\ calls' = Append(calls, Call(TypeOf(next), Indefinite(next), size))
  /\ at' = "items"

\* decode_block_start: a map of n pairs has 2n items.
DecodeBegin ==
  /\ at = "item" /\ TypeOf(next) \in ItemTypes
  /\ Read
  /\ LET size == IF next.kind = "map" THEN 2 * next.n ELSE next.n
     IN  /\ blocks' = Append(Counted, Block(TypeOf(next), Indefinite(next), size))
         /\ calls' = Append(calls, Call(TypeOf(next), Indefinite(next), size))
  /\ at' = "items"

DecodeString ==
  /\ at = "item" /\ next.kind = "text_"
  /\ Read /\ blocks' = Counted
  /\ calls' = Append(calls, Call(TypeOf(next), TRUE, 0))
  /\ at' = "chunks"

\* A float is read before it is refused; a break is only peeked at, and so is the
\* end of the stream, which cbor_peek cuts to the byte of a break.
DecodeUnsupported ==
  /\ at = "item"
  /\ \/ next.kind = "other" /\ Read /\ blocks' = Counted
     \/ /\ IsBreak \/ (next = Eof /\ calls # <<>>)
        /\ Unread /\ UNCHANGED blocks
  /\ at' = "NB_ERR_UNSUP" /\ UNCHANGED calls

\* Mutant of Chunk: a read that gets nothing is tried again.
ChunkReadAgain ==
  /\ at = "chunks"
  /\ IF IsBreak
     THEN /\ at' \in {"return"} \cup (IF TopCall.i = 0 THEN {"crashed"} ELSE {})
          /\ calls' = CallerOf(calls)
          /\ Unread /\ UNCHANGED blocks
     ELSE IF next = Eof THEN Unread /\ UNCHANGED <<at, blocks, calls>>
     ELSE /\ Read /\ blocks' = Counted
          /\ calls' = [calls EXCEPT ![Len(calls)].i = @ + 1]
          /\ at' = IF next.kind = TopCall.type THEN at ELSE "NB_ERR_ITEM"

\* One iteration of cbor_decode_stream.  The break that ends it is not read.  Of a
\* string with no chunk decode_text writes the final zero through a null pointer,
\* cbor_decode_bytes nothing; "text" stands for either.
Chunk ==
  /\ at = "chunks"
  /\ \/ /\ IsBreak
        /\ at' \in {"return"} \cup (IF TopCall.i = 0 THEN {"crashed"} ELSE {})
        /\ calls' = CallerOf(calls)
        /\ Unread /\ UNCHANGED blocks
     \/ /\ next = Eof
        /\ at' = "NB_ERR_EOF"
        /\ Unread /\ UNCHANGED <<blocks, calls>>
     \/ /\ ~IsBreak
        /\ Read /\ blocks' = Counted
        /\ calls' = [calls EXCEPT ![Len(calls)].i = @ + 1]
        /\ at' \in IF next.kind = TopCall.type THEN {at}
                  ELSE IF TypeOf(next) = TopCall.type THEN {"NB_ERR_INDEF"}
                  ELSE IF next.kind = "other" THEN {"NB_ERR_UNSUP"}
                  ELSE IF next.kind = "uint" THEN {"NB_ERR_ITEM", "NB_ERR_RANGE"}
                  ELSE {"NB_ERR_ITEM"}

\* The loop of decode_array_items: an early break ends a definite-length block too.
NextItem ==
  /\ at = "items"
  /\ LET full == ~TopCall.indefinite /\ TopCall.i >= TopCall.size
     IN  at' = IF full \/ IsBreak THEN "end" ELSE "item"
  /\ Unread /\ UNCHANGED <<blocks, calls>>

\* cbor_decode_item returns, to decode_array_items or to the item of a tag.
Return ==
  /\ at = "return"
  /\ IF calls = <<>> THEN at' = "item" /\ UNCHANGED calls
     ELSE IF TopCall.type = "tag" THEN calls' = CallerOf(calls) /\ UNCHANGED at
     ELSE calls' = [calls EXCEPT ![Len(calls)].i = @ + 1] /\ at' = "items"
  /\ Unread /\ UNCHANGED blocks

\* Mutant of BlockEnd: the count is not compared (as in encode.c's end_block).
BlockEndUncompared ==
  /\ at = "end"
  /\ IF TopBlock.indefinite THEN next.kind = "break" /\ Read ELSE Unread
  /\ blocks' = SubSeq(blocks, 1, Len(blocks) - 1)
  /\ calls' = CallerOf(calls)
  /\ at' = "return"

\* The end of decode_map_items and decode_block_end: the odd item of a map, the
\* break of an indefinite-length block or the count of a definite-length one.
BlockEnd ==
  /\ at = "end"
  /\ IF TopCall.type = "map" /\ TopCall.i % 2 = 1
     THEN at' = "NB_ERR_NITEMS" /\ Unread /\ UNCHANGED <<blocks, calls>>
     ELSE IF TopBlock.indefinite /\ next = Eof
     THEN at' = "NB_ERR_EOF" /\ Unread /\ UNCHANGED <<blocks, calls>>
     ELSE IF ~TopBlock.indefinite /\ TopBlock.num_items # TopBlock.len
     THEN at' = "NB_ERR_OPER" /\ Unread /\ UNCHANGED <<blocks, calls>>
     ELSE /\ IF TopBlock.indefinite THEN Read ELSE Unread
          /\ blocks' = SubSeq(blocks, 1, Len(blocks) - 1)
          /\ calls' = CallerOf(calls)
          /\ at' = "return"

Next ==
  \/ Finish \/ DecodeScalar \/ DecodeTag \/ DecodeBegin \/ DecodeString
  \/ DecodeUnsupported \/ Chunk \/ NextItem \/ Return \/ BlockEnd

Spec == Init /\ [][Next]_vars

-----------------------------------------------------------------------------
(* Properties.                                                             *)

\* A stream that is decoded to its end without an error is a sequence of
\* well-formed items, for all its early exits on breaks and its counts.
AcceptsOnlyWellFormed == at = "finished" /\ met = {} => legal /\ Complete(open)

\* The tokens read and the one seen next begin no sequence of well-formed items,
\* or the stream ends inside one.
IllFormed == ~legal \/ IF next = Eof THEN ~Complete(open) ELSE ~Legal(open, next)

\* An error is raised for an ill-formed stream only, but for the refusal of numbers
\* out of range, which may be well-formed.
RejectsOnlyIllFormed == at \in Errors \ {"NB_ERR_RANGE"} /\ met = {} => IllFormed

\* The recursion and the block stack, which decode.c keeps apart, agree: the
\* blocks open are those whose items are being decoded (place[k] is the loop of the
\* k-th), of the announced length, and every block has counted the items its loop has
\* been through, with the one in progress.
LoopsAndBlocksAgree ==
  LET open_blocks == 1..Len(blocks) - 1
  IN  \E place \in [open_blocks -> 1..Len(calls)] :
        /\ \A j, k \in open_blocks : j < k => place[j] < place[k]
        /\ \A i \in 1..Len(calls) :
             calls[i].type \in ItemTypes => \E k \in open_blocks : place[k] = i
        /\ \A k \in open_blocks :
             LET b == blocks[k + 1]
                 c == calls[place[k]]
                 current == k = Len(blocks) - 1 /\ at \in {"item", "items", "end"}
             IN  /\ c.type \in ItemTypes
                 /\ b.type = c.type /\ b.indefinite = c.indefinite /\ b.len = c.size
                 /\ met = {} /\ ~b.indefinite /\ at \notin Errors =>
                      b.num_items = IF current THEN c.i ELSE c.i + 1

\* tests/run-tests.sh:160 feeds the RFC 7049 test vectors to the decoder, strings
\* of indefinite length and tags among them, skips those with floats and the one with
\* an integer out of range, and demands that no error is raised.
DecodesWellFormed ==
  at \in Errors \ {"NB_ERR_RANGE"} /\ "float" \notin met => IllFormed
=============================================================================
