----------------------------- MODULE MCCborHead -----------------------------
(***************************************************************************)
(* CborHead with bytes of four values, of which two fit the header, so     *)
(* that eight bytes hold 65536: every value of up to two bytes, and those  *)
(* at the limits of the wider types.                                       *)
(***************************************************************************)
EXTENDS CborHead

MCSamples ==
  0..20 \cup 126..130 \cup 254..258 \cup 32766..32769 \cup 65534..65535
=============================================================================
