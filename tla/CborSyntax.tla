----------------------------- MODULE CborSyntax -----------------------------
(***************************************************************************)
(* What a well-formed sequence of CBOR items is (RFC 7049, the standard    *)
(* that src/encode.c and src/decode.c implement), read from left to right. *)
(* It is the reference both are compared with, written from the standard's *)
(* grammar and from no line of the code.                                   *)
(*                                                                         *)
(* A token is the header of an item, with the bytes of a definite-length   *)
(* string, or the break.  The items still open are a sequence of levels,   *)
(* the outermost first.  A level counts the items it still takes when they *)
(* begin, so a level that takes no more is closed when the innermost item  *)
(* in it is.                                                               *)
(***************************************************************************)
EXTENDS Integers, Sequences, FiniteSetsExt

Token(kind, n) == [kind |-> kind, n |-> n]
Break == Token("break", 0)

\* left is the number of items a level still takes; an indefinite-length level
\* takes any number, and "odd" tells whether that is odd so far.
Unbounded == -1
Level(type, left) == [type |-> type, left |-> left, odd |-> FALSE]

Innermost(open) == open[Len(open)]

\* May t come next?
Legal(open, t) ==
  IF t.kind = "break"
  THEN /\ open # <<>> /\ Innermost(open).left = Unbounded
       /\ Innermost(open).type = "map" => ~Innermost(open).odd
  ELSE open # <<>> /\ Innermost(open).type = "text" => t.kind = "text"

\* One more item in a level; in the innermost level.
TakenLevel(l) ==
  IF l.left = Unbounded THEN [l EXCEPT !.odd = ~@] ELSE [l EXCEPT !.left = @ - 1]
Taken(open) ==
  IF open = <<>> THEN <<>> ELSE [open EXCEPT ![Len(open)] = TakenLevel(Innermost(open))]

\* What t opens.
Opened(t) ==
  CASE t.kind = "array"  -> <<Level("array", t.n)>>
    [] t.kind = "map"    -> <<Level("map", 2 * t.n)>>
    [] t.kind = "tag"    -> <<Level("tag", 1)>>
    [] t.kind = "array_" -> <<Level("array", Unbounded)>>
    [] t.kind = "map_"   -> <<Level("map", Unbounded)>>
    [] t.kind = "text_"  -> <<Level("text", Unbounded)>>
    [] OTHER             -> <<>>

\* The levels up to the last one that takes more items.
Trimmed(open) ==
  SubSeq(open, 1, Max({0} \cup {i \in 1..Len(open) : open[i].left # 0}))

\* The open levels once the legal token t has been read.
After(open, t) ==
  Trimmed(IF t.kind = "break" THEN SubSeq(open, 1, Len(open) - 1)
          ELSE Taken(open) \o Opened(t))
Complete(open) == open = <<>>

\* Every kind of token, with counts up to "most"; an underscore stands for
\* indefinite length, "uint" for all integers and simple values, "text" for
\* strings of bytes as well, and "other" for the rest of major type 7 (floats).
Tokens(most) ==
  {Token(k, 0) : k \in {"uint", "text", "tag", "other", "break", "array_", "map_", "text_"}}
    \cup {Token(k, n) : k \in {"array", "map"}, n \in 0..most}
=============================================================================
