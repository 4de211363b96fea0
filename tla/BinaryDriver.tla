------------------------------ MODULE BinaryDriver ------------------------------
(***************************************************************************)
(* The SSH connection cache of the binary deployment driver               *)
(* (src/pkg/clusterdeployment/binary/binary.go).  New builds a            *)
(* BinaryClusterDeployment and connects to every node of the cluster      *)
(* config (initConnections); Finish closes every cached connection and    *)
(* empties the cache.  The deployment stages (PrepareInfrastructure ...   *)
(* CleanupCluster) only log and change nothing.                           *)
(*                                                                         *)
(* Both functions hold connLock for their whole body and New calls        *)
(* initConnections before the driver is handed to anyone, so the steps    *)
(* here are sequential: one step is one iteration of the loop of          *)
(* initConnections, its end, or a whole Finish.  A runner is one SSH      *)
(* session object returned by runner.NewSSHRunner, which may fail.        *)
(***************************************************************************)
EXTENDS Integers, Sequences

CONSTANTS
    Addrs,      \* node addresses
    NodeLists,  \* the address lists config.Nodes may hold
    None        \* no runner cached for an address

ASSUME BinaryDriverAssumption ==
    /\ None \notin Nat
    /\ NodeLists \subseteq Seq(Addrs)

VARIABLES
    phase,    \* "connecting" (inside New), "ready" (New returned), "finished"
    nodes,    \* the addresses of config.Nodes, in order
    i,        \* index of the loop of initConnections, 1-based
    conns,    \* conns[a]: index in runners of the runner cached for a, or None
    runners   \* every runner NewSSHRunner returned: its address and whether it is open

vars == <<phase, nodes, i, conns, runners>>

Runner == [addr: Addrs, open: BOOLEAN]

TypeOK ==
    /\ phase \in {"connecting", "ready", "finished"}
    /\ nodes \in NodeLists
    /\ i \in Nat \ {0}
    /\ conns \in [Addrs -> DOMAIN runners \cup {None}]
    /\ runners \in Seq(Runner)

\* New: an empty cache, then initConnections.
Init ==
    /\ phase = "connecting"
    /\ nodes \in NodeLists
    /\ i = 1
    /\ conns = [a \in Addrs |-> None]
    /\ runners = <<>>

\* Mutant: an address already connected is connected again.
CachedNever(a) == FALSE

\* "if _, ok := bcp.connections[cfg.Address]; ok { continue }"
Cached(a) == conns[a] # None

\* An iteration for an address already in the cache skips it.
SkipCached ==
    /\ phase = "connecting"
    /\ i <= Len(nodes)
    /\ Cached(nodes[i])
    /\ i' = i + 1
    /\ UNCHANGED <<phase, nodes, conns, runners>>

\* NewSSHRunner succeeds: the runner is cached under the address.
Connect ==
    /\ phase = "connecting"
    /\ i <= Len(nodes)
    /\ ~Cached(nodes[i])
    /\ runners' = Append(runners, [addr |-> nodes[i], open |-> TRUE])
    /\ conns' = [conns EXCEPT ![nodes[i]] = Len(runners) + 1]
    /\ i' = i + 1
    /\ UNCHANGED <<phase, nodes>>

\* NewSSHRunner fails: initConnections returns the error, which New
\* discards ("bcd.initConnections()"), and New returns the driver.
ConnectFails ==
    /\ phase = "connecting"
    /\ i <= Len(nodes)
    /\ ~Cached(nodes[i])
    /\ phase' = "ready"
    /\ UNCHANGED <<nodes, i, conns, runners>>

\* The loop ends and New returns the driver.
Connected ==
    /\ phase = "connecting"
    /\ i > Len(nodes)
    /\ phase' = "ready"
    /\ UNCHANGED <<nodes, i, conns, runners>>

\* Finish: Close every cached runner and replace the cache by an empty map.
Finish ==
    /\ phase \in {"ready", "finished"}
    /\ runners' = [k \in DOMAIN runners |->
                      IF \E a \in Addrs : conns[a] = k
                      THEN [runners[k] EXCEPT !.open = FALSE]
                      ELSE runners[k]]
    /\ conns' = [a \in Addrs |-> None]
    /\ phase' = "finished"
    /\ UNCHANGED <<nodes, i>>

Next == SkipCached \/ Connect \/ ConnectFails \/ Connected \/ Finish

Spec == Init /\ [][Next]_vars

-----------------------------------------------------------------------------
(* Properties *)

\* Finish leaves no SSH session open: every runner New created is in the
\* cache when Finish runs, so none is dropped from the map while open.
\* (A second runner for an address would overwrite the first in the map.)
NoRunnerLeak == phase = "finished" => \A k \in DOMAIN runners : ~runners[k].open

=============================================================================
