----------------------------- MODULE MCNetbufs ------------------------------
(***************************************************************************)
(* A schema with everything the protocol has: a value, a nested group, an  *)
(* array of values and an array of groups, a group that contains itself,   *)
(* and lids in different orders at the two ends.                           *)
(***************************************************************************)
EXTENDS Netbufs

MCGroups == {"rt", "rte"}
MCAttrs == [rt |-> {"routes", "version"}, rte |-> {"attrs", "uplink"}]
MCType == [rt |-> [routes |-> ArrayOf("rte"), version |-> Value],
           rte |-> [attrs |-> ArrayOf(NoGroup), uplink |-> GroupOf("rt")]]
\* The sender's order is free: it assigns pids in the order of first use.
MCRLids == [groups |-> <<"rte", "rt">>, rt |-> <<"version", "routes">>,
            rte |-> <<"attrs", "uplink">>]
MCValues == {1, 2}
MCTopGroups == {"rt"}
=============================================================================
