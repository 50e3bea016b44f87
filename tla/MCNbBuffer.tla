----------------------------- MODULE MCNbBuffer -----------------------------
(* Every order of calls, also the ones the asserts do not catch. *)
EXTENDS NbBuffer
=============================================================================
