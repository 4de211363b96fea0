------------------------- MODULE BinaryDriver_proofs -------------------------
(***************************************************************************)
(* Proof that the binary driver's Finish closes every SSH session New     *)
(* opened, for every set of addresses and every node list.                *)
(*                                                                         *)
(* NoRunnerLeak alone is not inductive: a Finish step from "ready" needs  *)
(* to know that every open runner is still reachable through the cache,   *)
(* which is what LeakInv adds.  Connect keeps it because it only caches   *)
(* under an address with no runner yet (the "continue" of                 *)
(* initConnections), so no open runner loses its cache entry.             *)
(***************************************************************************)
EXTENDS BinaryDriver, TLAPS

\* Every open runner is the one the cache holds for some address.
OpenRunnersCached ==
    \A k \in DOMAIN runners : runners[k].open => \E a \in Addrs : conns[a] = k

LeakInv == TypeOK /\ OpenRunnersCached /\ NoRunnerLeak

LEMMA LeakInvInit == Init => LeakInv
BY BinaryDriverAssumption DEF Init, LeakInv, TypeOK, OpenRunnersCached, NoRunnerLeak

LEMMA LeakInvStep == LeakInv /\ [Next]_vars => LeakInv'
<1> SUFFICES ASSUME LeakInv, [Next]_vars PROVE LeakInv'
  OBVIOUS
<1>1. /\ nodes \in Seq(Addrs)
      /\ i \in Nat \ {0}
      /\ conns \in [Addrs -> DOMAIN runners \cup {None}]
      /\ runners \in Seq(Runner)
  BY BinaryDriverAssumption DEF LeakInv, TypeOK
<1>2. CASE SkipCached
  BY <1>2 DEF SkipCached, LeakInv, TypeOK, OpenRunnersCached, NoRunnerLeak
<1>3. CASE Connect
  <2>1. nodes[i] \in Addrs
    BY <1>1, <1>3 DEF Connect
  <2>2. TypeOK'
    BY <1>1, <1>3, <2>1 DEF Connect, LeakInv, TypeOK, Runner
  <2>3. OpenRunnersCached'
    <3> SUFFICES ASSUME NEW k \in DOMAIN runners', runners'[k].open
                 PROVE  \E a \in Addrs : conns'[a] = k
      BY DEF OpenRunnersCached
    <3>1. CASE k = Len(runners) + 1
      BY <1>1, <1>3, <2>1, <3>1 DEF Connect
    <3>2. CASE k \in DOMAIN runners
      <4>1. runners[k].open
        BY <1>1, <1>3, <3>2 DEF Connect
      <4>2. PICK a \in Addrs : conns[a] = k
        BY <4>1, <3>2 DEF LeakInv, OpenRunnersCached
      <4>3. a # nodes[i]
        BY <4>2, <3>2, <1>3, BinaryDriverAssumption DEF Connect, Cached
      <4> QED
        BY <4>2, <4>3, <1>1, <1>3 DEF Connect
    <3> QED
      BY <1>1, <1>3, <3>1, <3>2 DEF Connect
  <2>4. NoRunnerLeak'
    BY <1>3 DEF Connect, NoRunnerLeak
  <2> QED
    BY <2>2, <2>3, <2>4 DEF LeakInv
<1>4. CASE ConnectFails
  BY <1>4 DEF ConnectFails, LeakInv, TypeOK, OpenRunnersCached, NoRunnerLeak
<1>5. CASE Connected
  BY <1>5 DEF Connected, LeakInv, TypeOK, OpenRunnersCached, NoRunnerLeak
<1>6. CASE Finish
  <2>1. \A k \in DOMAIN runners' : ~runners'[k].open
    BY <1>1, <1>6 DEF Finish, LeakInv, OpenRunnersCached
  <2>2. runners' \in Seq(Runner)
    <3>1. \A k \in DOMAIN runners : [runners[k] EXCEPT !.open = FALSE] \in Runner
      <4> SUFFICES ASSUME NEW k \in DOMAIN runners
                   PROVE  [runners[k] EXCEPT !.open = FALSE] \in Runner
        OBVIOUS
      <4>1. PICK r \in Runner : r = runners[k]
        BY <1>1
      <4>2. [r EXCEPT !.open = FALSE] \in Runner
        BY DEF Runner
      <4> QED
        BY <4>1, <4>2
    <3>2. runners' \in [1..Len(runners) -> Runner]
      BY <1>1, <1>6, <3>1 DEF Finish
    <3> QED
      BY <1>1, <3>2
  <2>3. TypeOK'
    BY <1>1, <1>6, <2>2, BinaryDriverAssumption DEF Finish, LeakInv, TypeOK
  <2> QED
    BY <2>1, <2>3 DEF LeakInv, OpenRunnersCached, NoRunnerLeak
<1>7. CASE UNCHANGED vars
  BY <1>7 DEF vars, LeakInv, TypeOK, OpenRunnersCached, NoRunnerLeak
<1> QED
  BY <1>2, <1>3, <1>4, <1>5, <1>6, <1>7 DEF Next

\* The binary driver's Finish leaves no SSH session open, for every
\* configuration: New caches each runner it opens under its address, and
\* Finish closes every cached runner.
THEOREM FinishClosesAllRunners == Spec => []NoRunnerLeak
<1>1. Init => LeakInv
  BY LeakInvInit
<1>2. LeakInv /\ [Next]_vars => LeakInv'
  BY LeakInvStep
<1>3. LeakInv => NoRunnerLeak
  BY DEF LeakInv
<1> QED
  BY <1>1, <1>2, <1>3, PTL DEF Spec

\* The driver's state stays well formed for every configuration: the cache
\* maps each address to a runner New really created, or to nothing.
THEOREM DriverTypeCorrect == Spec => []TypeOK
<1>1. LeakInv => TypeOK
  BY DEF LeakInv
<1> QED
  BY LeakInvInit, LeakInvStep, <1>1, PTL DEF Spec

=============================================================================
