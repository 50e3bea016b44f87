------------------------------ MODULE CborItem ------------------------------
(***************************************************************************)
(* cbor_encode_item of src/encode.c, which writes a whole item held in     *)
(* memory (as nbdiag's mirror does, one item after the other), beside the  *)
(* clients of CborEncode that use the streaming calls themselves.          *)
(*                                                                         *)
(* The encoder is recursive; "todo" holds the arrays, maps and tagged      *)
(* items it is in, and how many of their items are still to be encoded.    *)
(* The item is any tree: what stands at a place in it is chosen when the   *)
(* encoder gets there.                                                     *)
(***************************************************************************)
EXTENDS CborEncode

VARIABLES
  client,  \* who uses the encoder: "calls" or "items"
  todo     \* the calls of cbor_encode_item that have called it again

itemVars == <<vars, client, todo>>

Frame(type, left) == [type |-> type, left |-> left]
Current == todo[Len(todo)]

\* An item begins: at top level, or as the next one of the innermost frame.
ItemDue == client = "items" /\ (todo # <<>> => Current.left > 0)
Rest == IF todo = <<>> THEN todo ELSE [todo EXCEPT ![Len(todo)].left = @ - 1]

EncodeScalar(t) ==
  /\ ItemDue /\ EncodeItem(t)
  /\ todo' = Rest /\ UNCHANGED client

EncodeTaggedItem ==
  /\ ItemDue /\ EncodeTag
  /\ todo' = Append(Rest, Frame("tag", 1)) /\ UNCHANGED client

\* Mutant of ItemsOf: the length of a map is taken for its items.
ItemsOfLength(t) ==
  IF t.kind \in {"array", "map"} THEN {t.n} ELSE 0..MaxCount

\* The items of an array or map that begins with t: len, or twice that.
ItemsOf(t) ==
  LET lengths == IF t.kind \in {"array", "map"} THEN {t.n} ELSE 0..MaxCount
  IN  IF t.kind \in {"map", "map_"} THEN {2 * n : n \in lengths} ELSE lengths

\* encode_array and encode_map up to encode_array_items.
EncodeBlock(t) ==
  /\ ItemDue /\ t.kind # "text_" /\ StartBlock(t)
  /\ \E n \in ItemsOf(t) : todo' = Append(Rest, Frame(Opened(t)[1].type, n))
  /\ UNCHANGED client

\* The last item of an array, map or tag is written.
EncodeBlockEnd ==
  /\ client = "items" /\ todo # <<>> /\ Current.left = 0
  /\ IF Current.type = "tag" THEN Ready /\ UNCHANGED vars ELSE End(Current.type)
  /\ todo' = SubSeq(todo, 1, Len(todo) - 1) /\ UNCHANGED client

ItemInit == Init /\ client \in {"calls", "items"} /\ todo = <<>>
ItemNext ==
  \/ client = "calls" /\ Next /\ UNCHANGED <<client, todo>>
  \/ \E t \in Tokens(MaxCount) : EncodeScalar(t) \/ EncodeBlock(t)
  \/ EncodeTaggedItem
  \/ EncodeBlockEnd

ItemSpec == ItemInit /\ [][ItemNext]_itemVars

-----------------------------------------------------------------------------
(* Properties.                                                             *)

\* Whatever the tree and wherever an error stops it, encoding a whole item is no
\* misuse of the streaming calls.  Until one of them refuses, the recursion has as many
\* items left in each block as the block takes (the k-th open block is that of
\* todo[at[k]]), and when the outermost call returns, the bytes are complete items.
WholeItemIsProper ==
  client = "items" =>
    /\ mistakes = {}
    /\ Ready =>
         /\ todo = <<>> => Complete(open) /\ Len(blocks) = 1
         /\ \E at \in [1..Len(levels) -> 1..Len(todo)] :
              /\ \A j, k \in 1..Len(levels) : j < k => at[j] < at[k]
              /\ \A i \in 1..Len(todo) : todo[i].type # "tag" => \E k \in 1..Len(levels) : at[k] = i
              /\ \A k \in 1..Len(levels) :
                   /\ levels[k].type = todo[at[k]].type
                   /\ levels[k].left \in {todo[at[k]].left, Unbounded}
=============================================================================
