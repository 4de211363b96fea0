------------------------- MODULE MC_ClusterReconciler -------------------------
(***************************************************************************)
(* Model-checking instance of ClusterReconciler: two clusters over three  *)
(* machines, each asking for one master and one worker.  Together they    *)
(* need four machines, so whichever allocates second finds a bound        *)
(* machine in its pool and must skip it, or fail and retry until the      *)
(* other cluster's binding is deleted.  etcd and loadbalance ask for 0    *)
(* and -1 machines, the pass-through case of filterMachines.               *)
(***************************************************************************)
EXTENDS ClusterReconciler, TLC

CONSTANTS m1, m2, m3, c1, c2

MCMachines == {m1, m2, m3}

MCClusters == {c1, c2}

\* The liveness run follows one cluster: its own binding, deleted and
\* re-created across incarnations, is what the lagging cache can hide.
MCOneCluster == {c1}

MCMasterMatch == [c \in Clusters |-> MCMachines]

MCRequire ==
    [c \in Clusters |->
        IF c = c1 THEN [master |-> 1, worker |-> 1, etcd |-> 0, lb |-> -1]
                  ELSE [master |-> 1, worker |-> 1, etcd |-> 0, lb |-> 0]]

\* Machines are interchangeable: every cluster's selector matches all of them.
MachineSymmetry == Permutations(MCMachines)

=============================================================================
