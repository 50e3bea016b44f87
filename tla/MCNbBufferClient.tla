-------------------------- MODULE MCNbBufferClient --------------------------
(* A client that uses the buffer as its authors do. *)
EXTENDS NbBufferClient
=============================================================================
