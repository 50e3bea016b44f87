------------------------------ MODULE NbStrbuf ------------------------------
(***************************************************************************)
(* strbuf.c: a string that grows.  Error messages and the lines of the     *)
(* diagnostics are built in it.  A character is "c", the terminating zero  *)
(* "nul", memory that was never written "junk".                            *)
(***************************************************************************)
EXTENDS Integers

CONSTANTS
  InitStrSize,  \* init_size: 4 in netbufs.c, 24 in cbor.c, 8 to 64 elsewhere
  MaxPrint,     \* bound: the longest text of one call
  MaxLen        \* bound: no longer string is written

ASSUME StrbufAssumption == InitStrSize \in Nat \ {0} /\ MaxPrint \in Nat /\ MaxLen \in Nat

VARIABLES
  str,       \* buf->str, str[1] the first character
  str_size,  \* buf->size
  len,       \* buf->len
  reach,     \* history: the last cell written by the last call
  whole      \* history: no print has ended before the end of the string

strbufVars == <<str, str_size, len, reach, whole>>

Most(a, b) == IF a >= b THEN a ELSE b

\* strbuf_resize to a larger size, then n characters behind offset, then the
\* terminating zero if it ends there.
Written(new, offset, n, ends) ==
  [i \in 1..new |->
     IF offset < i /\ i <= offset + n THEN "c"
     ELSE IF ends /\ i = offset + n + 1 THEN "nul"
     ELSE IF i <= str_size THEN str[i] ELSE "junk"]

\* The size that makes room for so many cells.
SizeFor(count) == IF count > str_size THEN Most(2 * str_size, count) ELSE str_size

\* Mutant of SizeForAppend: > instead of >=.
SizeForAppendTight(count) ==
  IF len + count > str_size THEN Most(len + count, 2 * str_size) ELSE str_size

\* strbuf_prepare_append: >= because of the terminating zero.
SizeForAppend(count) ==
  IF len + count >= str_size THEN Most(len + count, 2 * str_size) ELSE str_size

StrbufInit ==
  /\ str_size = InitStrSize /\ str = [i \in 1..InitStrSize |-> "junk"]
  /\ len = 0 /\ reach = 0 /\ whole = TRUE

Putc ==
  /\ len < MaxLen
  /\ str_size' = SizeForAppend(1)
  /\ str' = Written(SizeForAppend(1), len, 1, FALSE)
  /\ len' = len + 1 /\ reach' = len + 1
  /\ UNCHANGED whole

\* Mutant of PrintfAt: the length counts the terminating zero.
PrintfAtCountsNul(offset, n) ==
  /\ offset <= len /\ offset + n < MaxLen
  /\ str_size' = SizeFor(offset + n + 2)
  /\ str' = Written(SizeFor(offset + n + 2), offset, n, TRUE)
  /\ len' = Most(len, offset + n + 1) /\ reach' = offset + n + 1
  /\ whole' = (whole /\ offset + n >= len)

\* strbuf_vprintf_at; strbuf_printf and strbuf_puts print at len, an error
\* message is printed at 0 after a reset.
PrintfAt(offset, n) ==
  /\ offset <= len /\ offset + n <= MaxLen
  /\ str_size' = SizeFor(offset + n + 1)
  /\ str' = Written(SizeFor(offset + n + 1), offset, n, TRUE)
  /\ len' = Most(len, offset + n) /\ reach' = offset + n + 1
  /\ whole' = (whole /\ offset + n >= len)

\* strbuf_fill leaves len alone.
Fill(offset, n) ==
  /\ offset + n <= MaxLen
  /\ str_size' = SizeFor(offset + n + 1)
  /\ str' = Written(SizeFor(offset + n + 1), offset, n, FALSE)
  /\ reach' = offset + n
  /\ UNCHANGED <<len, whole>>

\* strbuf_get_string and strbuf_strcpy.
GetString ==
  /\ str' = [str EXCEPT ![len + 1] = "nul"]
  /\ reach' = len + 1
  /\ UNCHANGED <<str_size, len, whole>>

\* strbuf_trim to a length, or (negative) by a length; strbuf_reset is to 0.
Trim(n) ==
  /\ n <= len
  /\ len' = n /\ reach' = 0
  /\ whole' = (whole \/ n = 0)
  /\ UNCHANGED <<str, str_size>>

StrbufNext ==
  \/ Putc \/ GetString
  \/ \E offset \in 0..MaxLen, n \in 0..MaxPrint : PrintfAt(offset, n) \/ Fill(offset, n)
  \/ \E n \in 0..MaxLen : Trim(n)

StrbufSpec == StrbufInit /\ [][StrbufNext]_strbufVars

-----------------------------------------------------------------------------
\* Types.
StrbufTypeOK ==
  /\ str_size \in Nat \ {0} /\ str \in [1..str_size -> {"c", "nul", "junk"}]
  /\ len \in Nat /\ reach \in Nat /\ whole \in BOOLEAN

\* Every write is inside the memory, and there is room for the terminating zero
\* at any time: strbuf_get_string writes it without looking at the size.
StrbufFits == reach <= str_size /\ len < str_size

\* The string has neither holes nor zeros in it, so a reader sees all that was
\* printed: true as long as nobody prints over the middle of the string, which
\* leaves a zero there.
StringIsWhole == whole => \A i \in 1..len : str[i] = "c"
=============================================================================
