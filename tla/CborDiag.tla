------------------------------ MODULE CborDiag ------------------------------
(***************************************************************************)
(* src/diag.c under the decoder: diag_dump_cbor_stream, what nbdiag does.  *)
(*                                                                         *)
(* While it reads, the decoder logs the bytes of an item and the item in   *)
(* diagnostic notation.  Whether a comma follows is known only when the    *)
(* next item begins, so two lines are kept back: the one being written and *)
(* the one before it, each with an indentation of its own.  A line ends    *)
(* when the first bytes of the next item are logged.                       *)
(*                                                                         *)
(* The text is a sequence of symbols: brackets, commas, colons, and "v"    *)
(* for any other item.  What is printed is read again, from left to right, *)
(* by the reader below, the reference; it knows the grammar of diagnostic  *)
(* notation (RFC 7049, section 6) and counts the tokens the text is worth. *)
(***************************************************************************)
EXTENDS CborDecode, SequencesExt

VARIABLES
  diag,  \* struct diag: lines, line (its index), eol_on_next_raw; the reader of
         \* what is printed; and whether the assertion of isbuf_dedent has failed
  seen   \* history: whether tags and strings of indefinite length were read

diagVars == <<vars, diag, seen>>

-----------------------------------------------------------------------------
(* The reader.  A level knows what was read in it last.                    *)

ReaderLevel(type, indefinite) == [type |-> type, indefinite |-> indefinite, last |-> "begin"]
NewReader == [levels |-> <<ReaderLevel("root", FALSE)>>, tokens |-> 0, ok |-> TRUE]

Opens ==
  [s \in {"[", "[_", "{", "{_"} |->
     ReaderLevel(IF s \in {"[", "[_"} THEN "array" ELSE "map", s \in {"[_", "{_"})]
Closes == [s \in {"]", "}"} |-> IF s = "]" THEN "array" ELSE "map"]

Fits(level, s) ==
  \/ s = "," /\ level.last = "value"
  \/ s = ":" /\ level.last = "key"
  \/ s \in DOMAIN Closes /\ level.type = Closes[s] /\ level.last \in {"begin", "value"}
  \/ s \in {"v"} \cup DOMAIN Opens /\ level.last \in {"begin", "comma", "colon"}

ReadSymbol(r, s) ==
  LET depth == Len(r.levels)
      level == r.levels[depth]
      Having(what, n) == [r EXCEPT !.levels[depth].last = what, !.tokens = @ + n]
      item == Having(IF level.type = "map" /\ level.last # "colon" THEN "key" ELSE "value", 1)
  IN  IF ~(r.ok /\ Fits(level, s)) THEN [r EXCEPT !.ok = FALSE]
      ELSE CASE s = "," -> Having("comma", 0)
             [] s = ":" -> Having("colon", 0)
             [] s = "v" -> item
             [] s \in DOMAIN Opens -> [item EXCEPT !.levels = Append(@, Opens[s])]
             [] OTHER -> [r EXCEPT !.levels = SubSeq(@, 1, depth - 1),
                                   !.tokens = @ + IF level.indefinite THEN 1 ELSE 0]

ReadText(r, text) ==
  LET read[i \in 0..Len(text)] == IF i = 0 THEN r ELSE ReadSymbol(read[i - 1], text[i])
  IN  read[Len(text)]

-----------------------------------------------------------------------------
(* The calls of diag.c, each as a function from struct diag to struct diag. *)

NewLine == [empty |-> TRUE, cbor_comma |-> FALSE, cbor |-> <<>>, indent_level |-> 0]
NewDiag == [lines |-> <<NewLine, NewLine>>, line |-> 1, eol_on_next_raw |-> FALSE,
            reader |-> NewReader, aborted |-> FALSE]
OtherLine(d) == 3 - d.line

\* Mutant of Switched: the indentation stays with the line.
SwitchedOnly(d) == [d EXCEPT !.line = OtherLine(d)]

\* switch_lines: the other line goes on at the same indentation.
Switched(d) ==
  [d EXCEPT !.line = OtherLine(d),
            !.lines[OtherLine(d)].indent_level = d.lines[d.line].indent_level]

\* diag_dump_line: the line before the current one is printed and becomes the
\* current one.  If there is none, eol_on_next_raw stays set.
DumpLine(d) ==
  LET e == Switched(d)
      line == e.lines[e.line]
  IN  IF line.empty THEN e
      ELSE [e EXCEPT !.reader = ReadText(@, line.cbor),
                     !.lines[e.line] = [NewLine EXCEPT !.indent_level = line.indent_level],
                     !.eol_on_next_raw = FALSE]
Flush(d) == DumpLine(DumpLine(d))

\* diag_log_raw; the text of the column is left out, and with it diag_log_offset
\* and diag_log_item.
LogRaw(d) ==
  LET e == IF d.eol_on_next_raw THEN DumpLine(d) ELSE d
  IN  [e EXCEPT !.lines[e.line].empty = FALSE]

LogCbor(d, symbol) ==
  [d EXCEPT !.lines[d.line].cbor = Append(@, symbol), !.lines[d.line].empty = FALSE]

Eol(d, comma) == [d EXCEPT !.lines[d.line].cbor_comma = comma, !.eol_on_next_raw = TRUE]

\* diag_comma: the line before the current one gets the comma that may follow.
Comma(d) ==
  IF d.lines[OtherLine(d)].cbor_comma
  THEN [d EXCEPT !.lines[OtherLine(d)].cbor = Append(@, ","),
                 !.lines[OtherLine(d)].cbor_comma = FALSE]
  ELSE d

Indent(d) == [d EXCEPT !.lines[d.line].indent_level = @ + 1]
Dedent(d) ==
  IF d.lines[d.line].indent_level = 0 THEN [d EXCEPT !.aborted = TRUE]
  ELSE [d EXCEPT !.lines[d.line].indent_level = @ - 1]

\* diag_finish_item, with the block the item stands in: in a map items are keys
\* and values in turns, by the number of headers counted.
FinishItem(d, block) ==
  IF block.type # "map" THEN Eol(d, TRUE)
  ELSE IF block.num_items % 2 = 1 THEN Indent(Eol(LogCbor(d, ":"), FALSE))
  ELSE Eol(Dedent(d), TRUE)

\* Mutant of Predecode: the comma comes behind the last byte of the header.
PredecodeCommaLate(d, more) == Comma(IF more THEN LogRaw(LogRaw(d)) ELSE LogRaw(d))

\* The header's first byte, the comma in front of the item, and the rest of the
\* header, if there is more of it.
Predecode(d, more) ==
  LET first == Comma(LogRaw(d)) IN IF more THEN LogRaw(first) ELSE first

\* What predecode logs for the token t once it is counted in the block.
Logged(d, t, more, block) ==
  LET header == Predecode(d, more)
  IN  CASE t.kind = "break" -> LogRaw(d)
        [] t.kind = "uint"  -> FinishItem(LogCbor(header, "v"), block)
        [] t.kind = "tag"   -> FinishItem(header, block)
        [] OTHER -> header

-----------------------------------------------------------------------------
(* The decoder's actions with what they log.                               *)

Running == ~diag.aborted
Seen == seen' = seen \cup ({next.kind} \cap {"tag", "text_"})

\* A header is one byte long or longer.  Of a number that is refused no item is logged.
DiagDecodeScalar ==
  /\ Running /\ DecodeScalar /\ Seen
  /\ \E more \in BOOLEAN :
       LET header == Logged(diag, next, more, Last(blocks'))
       IN  diag' = IF at' = "NB_ERR_RANGE" THEN Predecode(diag, more)
                   ELSE IF next.kind = "uint" THEN header
                   ELSE FinishItem(LogCbor(LogRaw(header), "v"), Last(blocks'))

DiagDecodeTag ==
  /\ Running /\ DecodeTag /\ Seen
  /\ \E more \in BOOLEAN : diag' = Logged(diag, next, more, Last(blocks'))

Bracket ==
  [k \in {"array", "array_", "map", "map_"} |->
     CASE k = "array" -> "[" [] k = "array_" -> "[_" [] k = "map" -> "{" [] k = "map_" -> "{_"]

DiagDecodeBegin ==
  /\ Running /\ DecodeBegin /\ Seen
  /\ \E more \in IF Indefinite(next) THEN {FALSE} ELSE BOOLEAN :
       diag' = Indent(Eol(LogCbor(Predecode(diag, more), Bracket[next.kind]), FALSE))

DiagDecodeString ==
  /\ Running /\ DecodeString /\ Seen
  /\ diag' = Predecode(diag, FALSE)

DiagDecodeUnsupported ==
  /\ Running /\ DecodeUnsupported
  /\ IF next.kind = "other" THEN diag' = Predecode(diag, TRUE) /\ Seen ELSE UNCHANGED <<diag, seen>>

\* The chunks of a string are logged as one item behind the last one.
DiagChunk ==
  /\ Running /\ Chunk
  /\ IF IsBreak
     THEN /\ diag' = IF at' = "crashed" THEN diag ELSE FinishItem(LogCbor(diag, "v"), TopBlock)
          /\ UNCHANGED seen
     ELSE IF next = Eof THEN UNCHANGED <<diag, seen>>
     ELSE /\ Seen
          /\ \E more \in IF Indefinite(next) THEN {FALSE} ELSE BOOLEAN :
               LET header == Logged(diag, next, more, Last(blocks'))
               IN  diag' = IF at' = "NB_ERR_RANGE" THEN Predecode(diag, more)
                           ELSE IF at' = "chunks" THEN LogRaw(header) ELSE header

\* The end of a block of definite length has no bytes, its line is forced; the
\* block is popped before the item it is in its turn is finished.
DiagBlockEnd ==
  /\ Running /\ BlockEnd /\ UNCHANGED seen
  /\ LET line == IF TopBlock.indefinite THEN LogRaw(diag) ELSE DumpLine(diag)
         end == IF TopBlock.type = "map" THEN "}" ELSE "]"
     IN  diag' = IF at' # "return" THEN diag
                 ELSE FinishItem(LogCbor(Dedent(line), end), Last(blocks'))

DiagNextItem == Running /\ NextItem /\ UNCHANGED <<diag, seen>>

\* diag_dump_cbor_stream ends the line behind every item.
DiagReturn ==
  /\ Running /\ Return /\ UNCHANGED seen
  /\ diag' = IF calls = <<>> THEN Eol(diag, TRUE) ELSE diag

DiagFinish == Running /\ Finish /\ diag' = Flush(diag) /\ UNCHANGED seen

DiagInit == Init /\ diag = NewDiag /\ seen = {}
DiagNext ==
  \/ DiagFinish \/ DiagDecodeScalar \/ DiagDecodeTag \/ DiagDecodeBegin \/ DiagDecodeString
  \/ DiagDecodeUnsupported \/ DiagChunk \/ DiagNextItem \/ DiagReturn \/ DiagBlockEnd

\* The decoder runs until it is through, an error ends the process or an assertion
\* fails; logging never holds it up.
DiagSpec == DiagInit /\ [][DiagNext]_diagVars /\ WF_vars(Running /\ Next)

-----------------------------------------------------------------------------
(* Properties.                                                             *)

\* What is printed and what the two lines still hold, in their order.
Text(d) == ReadText(d.reader, d.lines[OtherLine(d)].cbor \o d.lines[d.line].cbor)
WholeText == Text(diag)

\* Without tags and strings of indefinite length, the text is diagnostic notation
\* at any time, accounts for every token read and has the same blocks open as the
\* decoder; when the stream has ended all of it has been printed.
PrintsWhatItReads ==
  seen = {} /\ at \notin Errors =>
    /\ WholeText.ok /\ WholeText.tokens = nread
    /\ [i \in 1..Len(WholeText.levels) |-> WholeText.levels[i].type]
         = [i \in 1..Len(blocks) |-> blocks[i].type]
    /\ at = "finished" => diag.reader = WholeText

\* Between two items the indentation is the depth in blocks, and one more behind
\* the key of a map; isbuf_dedent's assertion (diag.c:41) fails at the most for a
\* map that holds a tag as well as a string of indefinite length.
IndentationIsDepth ==
  /\ seen = {} /\ at \in {"item", "items", "end"} =>
       diag.lines[diag.line].indent_level =
         Len(calls) + Cardinality({k \in 1..Len(calls) : calls[k].type = "map" /\ calls[k].i % 2 = 1})
  /\ diag.aborted => seen = {"tag", "text_"}

\* Whatever the stream holds and wherever it ends, decoding comes to an end.
Terminates == <>(at \in Errors \cup {"finished", "crashed"} \/ diag.aborted)
=============================================================================
