--------------------------- MODULE MachineAllocation ---------------------------
(***************************************************************************)
(* What the eggops controller promises about machines (spec, sections 5   *)
(* and 8): a machine belongs to at most one cluster at a time; a cluster  *)
(* takes its machines in one go, only free ones and only while it holds   *)
(* none; and it gives all of them back at once.  A machine never passes   *)
(* from one cluster to another without being free in between.              *)
(*                                                                         *)
(* ClusterReconciler implements this with owner computed from the          *)
(* MachineBindings in the API server (see OwnerOf there).                  *)
(***************************************************************************)
CONSTANTS
    Clusters,
    Machines,
    Free        \* the owner of a machine no cluster holds (not a cluster)

VARIABLE owner  \* owner[m]: the cluster holding machine m, or Free

Held(c) == {m \in Machines : owner[m] = c}

TypeOK == owner \in [Machines -> Clusters \cup {Free}]

Init == owner = [m \in Machines |-> Free]

\* A cluster with no machines takes a set of free machines.
Acquire(c, S) ==
    /\ Held(c) = {}
    /\ \A m \in S : owner[m] = Free
    /\ owner' = [m \in Machines |-> IF m \in S THEN c ELSE owner[m]]

\* A cluster gives back every machine it holds.
Release(c) ==
    owner' = [m \in Machines |-> IF owner[m] = c THEN Free ELSE owner[m]]

Next ==
    \E c \in Clusters :
        \/ \E S \in SUBSET Machines : Acquire(c, S)
        \/ Release(c)

Spec == Init /\ [][Next]_owner

=============================================================================
