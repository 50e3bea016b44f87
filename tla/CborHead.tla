------------------------------ MODULE CborHead ------------------------------
(***************************************************************************)
(* Numbers on the wire: how encode.c chooses a header for an integer, a    *)
(* tag or a simple value, and how decode.c reads it back into a variable   *)
(* of a type the receiver chooses.                                         *)
(*                                                                         *)
(* All widths are scaled: a byte has Base values (256 in the code) and the *)
(* header itself has room for 0 .. Direct (23).  A value is sent by one    *)
(* call and received by another, perhaps cut short by the end of the       *)
(* stream.                                                                 *)
(***************************************************************************)
EXTENDS Integers, Sequences

CONSTANTS
  Base,    \* values of a byte
  Direct,  \* the largest value in the header itself
  Samples  \* bound: absolute values sent

ASSUME BaseAssumption == Base \in Nat /\ Base % 2 = 0 /\ Base > 2
ASSUME DirectAssumption == Direct \in 1..(Base - 2)

\* Base to the power of n; a function, since nothing can be proved about ^.
Power[n \in 0..8] == IF n = 0 THEN 1 ELSE Power[n - 1] * Base

ASSUME SamplesAssumption == Samples \subseteq 0..(Power[8] - 1)

VARIABLES
  bytes,     \* what is in the stream
  sent,      \* the call that has sent a value, and the value
  got,       \* the call that has received it, and what came of it
  cut        \* the stream has ended inside the item

vars == <<bytes, sent, got, cut>>

\* An integer type of "width" bytes, a tag or a simple value.
Call(type, width) == [type |-> type, width |-> width]
Calls == {Call(t, w) : t \in {"uint", "int"}, w \in {1, 2, 4, 8}}
           \cup {Call("tag", 4), Call("sval", 1)}
None == [call |-> Call("none", 0), res |-> "none", value |-> 0]
Value(call, res, value) == [call |-> call, res |-> res, value |-> value]

UintMax(width) == Power[width] - 1
IntMax(width) == Power[width] \div 2 - 1
IntMin(width) == -(Power[width] \div 2)

\* The values of the C type of a call's argument.
Fits(call, v) ==
  IF call.type = "int" THEN IntMin(call.width) <= v /\ v <= IntMax(call.width)
  ELSE 0 <= v /\ v <= UintMax(call.width)

\* enum lbits and, for major type 7, enum minor; the next one is unassigned.
LBITS_1B == Direct + 1
LBITS_2B == Direct + 2
LBITS_4B == Direct + 3
LBITS_8B == Direct + 4
CBOR_MINOR_SVAL == LBITS_1B

Init == bytes = <<>> /\ sent = None /\ got = None /\ cut = FALSE

-----------------------------------------------------------------------------
(* Encoding.                                                               *)

Header(major, lbits) == [major |-> major, lbits |-> lbits]

\* The last "len" bytes of htobe64(u).
BigEndian(u, len) == [i \in 1..len |-> (u \div Power[len - i]) % Base]

\* Mutant of Widths: the 2-byte form announces 4 bytes.
WidthsMixed(u) ==
  IF u <= UintMax(1) THEN [len |-> 1, lbits |-> LBITS_1B]
  ELSE IF u <= UintMax(2) THEN [len |-> 4, lbits |-> LBITS_2B]
  ELSE IF u <= UintMax(4) THEN [len |-> 4, lbits |-> LBITS_4B]
  ELSE [len |-> 8, lbits |-> LBITS_8B]

\* The form of a value that does not fit the header.
Widths(u) ==
  IF u <= UintMax(1) THEN [len |-> 1, lbits |-> LBITS_1B]
  ELSE IF u <= UintMax(2) THEN [len |-> 2, lbits |-> LBITS_2B]
  ELSE IF u <= UintMax(4) THEN [len |-> 4, lbits |-> LBITS_4B]
  ELSE [len |-> 8, lbits |-> LBITS_8B]

WriteHdrU64(major, u) ==
  IF u <= Direct THEN <<Header(major, u)>>
  ELSE <<Header(major, Widths(u).lbits)>> \o BigEndian(u, Widths(u).len)

\* The inline cbor_encode_uint64: anything but a direct value is handed to
\* cbor_encode_uint32_slow, whose parameter is 32 bits wide.
EncodeUint64(u) == WriteHdrU64("uint", IF u <= Direct THEN u ELSE u % Power[4])

\* Mutant of I64ToU64: -i64.
I64ToU64Negated(i) == -i

I64ToU64(i) == -(i + 1)

EncodeInt(i) ==
  IF i >= 0 THEN WriteHdrU64("uint", i) ELSE WriteHdrU64("negint", I64ToU64(i))

\* Values up to 23 of major type 7 are the header, others a byte behind it.
EncodeSval(v) ==
  IF v <= Direct THEN <<Header("7", v)>> ELSE <<Header("7", CBOR_MINOR_SVAL), v>>

Encoded(call, v) ==
  CASE call = Call("uint", 8) -> EncodeUint64(v)
    [] call.type = "uint" /\ call.width < 8 -> WriteHdrU64("uint", v)
    [] call.type = "int" -> EncodeInt(v)
    [] call.type = "tag" -> WriteHdrU64("tag", v)
    [] call.type = "sval" -> EncodeSval(v)

\* cbor_encode_uint8 .. cbor_encode_int64, cbor_encode_tag, cbor_encode_sval.
Send(call, v) ==
  /\ sent = None
  /\ Fits(call, v)
  /\ bytes' = Encoded(call, v)
  /\ sent' = Value(call, "ok", v)
  /\ UNCHANGED <<got, cut>>

-----------------------------------------------------------------------------
(* Decoding.                                                               *)

\* decode_u64: the number behind a header, -1 if the stream ends before it does.
\* (lbits above LBITS_8B, an error, is written by nobody.)
NumBytes(lbits) ==
  CASE lbits = LBITS_1B -> 1 [] lbits = LBITS_2B -> 2
    [] lbits = LBITS_4B -> 4 [] lbits = LBITS_8B -> 8
FromBigEndian(digits) ==
  LET sum[i \in 0..Len(digits)] == IF i = 0 THEN 0 ELSE sum[i - 1] * Base + digits[i]
  IN  sum[Len(digits)]
Ended == -1

\* Mutant of DecodeU64: a short read is not noticed.
DecodeU64Short(lbits, rest) ==
  IF lbits <= Direct THEN lbits
  ELSE FromBigEndian(SubSeq(rest, 1, IF Len(rest) < NumBytes(lbits) THEN Len(rest) ELSE NumBytes(lbits)))

DecodeU64(lbits, rest) ==
  IF lbits <= Direct THEN lbits
  ELSE IF Len(rest) < NumBytes(lbits) THEN Ended
  ELSE FromBigEndian(SubSeq(rest, 1, NumBytes(lbits)))

\* predecode of one item: its type, the number u64 and what comes behind it.
Item(type, u64, rest) == [type |-> type, u64 |-> u64, rest |-> rest]
Predecode(s) ==
  IF s = <<>> THEN Item("none", Ended, <<>>)
  ELSE LET lbits == Head(s).lbits
           used == IF lbits <= Direct THEN 0 ELSE NumBytes(lbits)
       IN  Item(Head(s).major, DecodeU64(lbits, Tail(s)), SubSeq(s, 2 + used, Len(s)))

\* u64_to_i64; INT64_MIN_ABS is INT64_MAX.
I64Of(item) == IF item.type = "negint" THEN -item.u64 - 1 ELSE item.u64

\* Mutant of UintResult: the maximum itself is refused.
UintResultStrict(call, item) ==
  IF item.u64 >= UintMax(call.width) THEN "NB_ERR_RANGE" ELSE "ok"

\* decode_uint compares with the maximum of the type, and does not look at the
\* type of the item.
UintResult(call, item) == IF item.u64 > UintMax(call.width) THEN "NB_ERR_RANGE" ELSE "ok"

\* decode_int, with the range checks of predecode and u64_to_i64.
IntResult(call, item) ==
  IF item.type \notin {"uint", "negint"} THEN "NB_ERR_ITEM"
  ELSE IF item.u64 > IntMax(8) THEN "NB_ERR_RANGE"
  ELSE IF Fits(call, I64Of(item)) THEN "ok" ELSE "NB_ERR_RANGE"

\* cbor_decode_tag, cbor_decode_sval.
OtherResult(call, item) ==
  IF item.type # (IF call.type = "tag" THEN "tag" ELSE "7") THEN "NB_ERR_ITEM"
  ELSE IF call.type = "tag" /\ item.u64 > UintMax(4) THEN "NB_ERR_RANGE" ELSE "ok"

\* A negint that does not fit int64_t is refused by predecode for every call.
Result(call, item) ==
  IF item.u64 = Ended THEN "NB_ERR_EOF"
  ELSE IF item.type = "negint" /\ item.u64 > IntMax(8) THEN "NB_ERR_RANGE"
  ELSE CASE call.type = "uint" -> UintResult(call, item)
         [] call.type = "int"  -> IntResult(call, item)
         [] OTHER              -> OtherResult(call, item)

\* cbor_decode_uint8 .. cbor_decode_int64, cbor_decode_tag, cbor_decode_sval.  The
\* casts to the type of the call change nothing behind these checks (see NumberArrives).
\* An error ends the process.
Receive(call) ==
  /\ sent # None /\ got = None
  /\ LET item == Predecode(bytes)
         res == Result(call, item)
     IN  /\ got' = Value(call, res,
                         IF res # "ok" THEN 0
                         ELSE IF call.type = "int" THEN I64Of(item) ELSE item.u64)
         /\ bytes' = IF res = "ok" THEN item.rest ELSE bytes
  /\ UNCHANGED <<sent, cut>>

\* The stream ends inside the item.
Cut ==
  /\ sent # None /\ got = None /\ ~cut
  /\ \E n \in 0..(Len(bytes) - 1) : bytes' = SubSeq(bytes, 1, n)
  /\ cut' = TRUE
  /\ UNCHANGED <<sent, got>>

Next ==
  \/ \E call \in Calls, v \in Samples : Send(call, v) \/ Send(call, -v)
  \/ \E call \in Calls : Receive(call)
  \/ Cut

Spec == Init /\ [][Next]_vars

-----------------------------------------------------------------------------
(* Properties.                                                             *)

\* Both ends take the item for an integer, or for the same other thing.
SameKind ==
  \/ sent.call.type \in {"uint", "int"} /\ got.call.type \in {"uint", "int"}
  \/ sent.call.type = got.call.type

\* encode.c loses the upper half of these numbers, and decode_uint takes these
\* others for unsigned ones.
Truncated == sent.value > UintMax(4) /\ sent.call = Call("uint", 8)
NegativeAsUnsigned == sent.value < 0 /\ got.call.type = "uint"

\* What is received fits the variable it is received into and is the number that
\* was sent, whatever the types at the two ends, but for the cases above.
NumberArrives ==
  got.res = "ok" =>
    /\ Fits(got.call, got.value)
    /\ SameKind /\ ~Truncated /\ ~NegativeAsUnsigned => got.value = sent.value

\* A number is refused only if the receiver's type cannot hold it.
RefusedOnlyOutOfRange ==
  got.res \notin {"none", "ok"} /\ SameKind /\ ~cut =>
    got.res = "NB_ERR_RANGE" /\ ~Fits(got.call, sent.value)

\* A number that the end of the stream has cut short is never delivered.
CutIsReported == cut => got.res \in {"none", "NB_ERR_EOF"}

\* The decoder takes exactly the bytes the encoder has written for an item.
InStep == got.res = "ok" => bytes = <<>>

\* nb_send_u64 and nb_recv_u64 (netbufs.h:91 and 112), cbor_encode_uint64 and
\* cbor_decode_uint64 (cbor.h:220 and 263) are for any uint64_t.
Uint64Arrives ==
  sent.call = Call("uint", 8) /\ got.call = Call("uint", 8) /\ got.res = "ok" =>
    got.value = sent.value
=============================================================================
