---------------------------- MODULE MCCborDecode ----------------------------
(* CborDiag and CborDecode on every stream of up to MaxTokens tokens.                   *)
EXTENDS CborDiag
=============================================================================
