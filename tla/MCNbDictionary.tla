--------------------------- MODULE MCNbDictionary ---------------------------
(***************************************************************************)
(* Two namespaces that share a name, numbered differently by the receiver. *)
(***************************************************************************)
EXTENDS NbDictionary

MCNamespaces == {"rt", "rte"}
MCNames == {"a", "b", "c"}
MCRLids == [rt |-> <<"c", "a", "b">>, rte |-> <<"b", "a">>]
=============================================================================
