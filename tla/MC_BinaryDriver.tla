---------------------------- MODULE MC_BinaryDriver ----------------------------
(***************************************************************************)
(* Model-checking instance of BinaryDriver: two addresses and every node  *)
(* list of up to three entries, so an address may be listed twice (as a   *)
(* cluster config loaded from a file may list it).                        *)
(***************************************************************************)
EXTENDS BinaryDriver

CONSTANTS a1, a2

MCAddrs == {a1, a2}

MCNodeLists == UNION {[1..n -> MCAddrs] : n \in 0..3}

=============================================================================
