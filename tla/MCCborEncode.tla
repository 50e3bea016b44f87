---------------------------- MODULE MCCborEncode ----------------------------
(* CborItem and CborEncode: every client and every item of up to MaxTokens tokens. *)
EXTENDS CborItem
=============================================================================
