------------------------- MODULE ConfigsLoops_proofs -------------------------
(***************************************************************************)
(* Proofs about the loops of the conversion that the model writes as      *)
(* recursive functions over an index, and the properties of the converted *)
(* cluster that rest on them.  The induction over the index is done by    *)
(* taking the least index where a claim fails (WFMin on the order of the  *)
(* naturals) and deriving a contradiction from the step before it.        *)
(***************************************************************************)
EXTENDS Configs_proofs, WellFoundedInduction

-----------------------------------------------------------------------------
(* The member loop of toClusterdeploymentConfig *)

\* One step of MembersLoop: what index k of the loop holds, given the
\* values g holds before it.
MemberStep(g, members, nodes, bit, k) ==
    IF k = 0 THEN members
    ELSE IF bit \in nodes[k].type THEN Append(g[k - 1], nodes[k])
         ELSE g[k - 1]

\* Every non-empty set of naturals has a least element.
LEMMA LeastNat ==
    ASSUME NEW S \in SUBSET Nat, S # {}
    PROVE  \E n \in S : \A m \in S : ~(m < n)
<1>1. \E n \in S : \A m \in S : ~(<<m, n>> \in OpToRel(<, Nat))
  BY NatLessThanWellFounded, WFMin
<1> QED
  BY <1>1 DEF OpToRel

\* The recursive definition of the loop has a solution on every prefix
\* of the nodes.
LEMMA MembersLoopExists ==
    ASSUME NEW members, NEW nodes, Len(nodes) \in Nat, NEW bit
    PROVE  \A n \in 0..Len(nodes) :
               \E g : /\ DOMAIN g = 0..n
                      /\ \A k \in 0..n : g[k] = MemberStep(g, members, nodes, bit, k)
<1> DEFINE Sol(g, n) == /\ DOMAIN g = 0..n
                        /\ \A k \in 0..n : g[k] = MemberStep(g, members, nodes, bit, k)
           Bad == {n \in 0..Len(nodes) : ~\E g : Sol(g, n)}
<1> SUFFICES Bad = {}
  OBVIOUS
<1>1. SUFFICES ASSUME Bad # {} PROVE FALSE
  OBVIOUS
<1>2. PICK n \in Bad : \A m \in Bad : ~(m < n)
  <2>1. Bad \in SUBSET Nat
    OBVIOUS
  <2> QED
    BY <1>1, <2>1, LeastNat
<1>3. CASE n = 0
  <2> DEFINE g == [k \in 0..0 |-> members]
  <2>1. Sol(g, 0)
    BY DEF MemberStep
  <2> QED
    BY <1>2, <1>3, <2>1
<1>4. CASE n # 0
  <2>1. n - 1 \in 0..Len(nodes) /\ n - 1 \notin Bad
    BY <1>2, <1>4
  <2>2. PICK g : Sol(g, n - 1)
    BY <2>1
  <2> DEFINE h == [k \in 0..n |-> IF k < n THEN g[k]
                                  ELSE MemberStep(g, members, nodes, bit, n)]
  <2>3. ASSUME NEW k \in 0..n
        PROVE  MemberStep(h, members, nodes, bit, k) = MemberStep(g, members, nodes, bit, k)
    BY <1>4 DEF MemberStep
  <2>4. Sol(h, n)
    BY <2>2, <2>3
  <2> QED
    BY <1>2, <2>4
<1> QED
  BY <1>3, <1>4

\* So MembersLoop, which the model defines by that recursion, follows it.
LEMMA MembersLoopDef ==
    ASSUME NEW members, NEW nodes, Len(nodes) \in Nat, NEW bit
    PROVE  /\ DOMAIN MembersLoop(members, nodes, bit) = 0..Len(nodes)
           /\ \A k \in 0..Len(nodes) :
                  MembersLoop(members, nodes, bit)[k] =
                      MemberStep(MembersLoop(members, nodes, bit), members, nodes, bit, k)
<1>1. \A n \in 0..Len(nodes) :
          \E h : /\ DOMAIN h = 0..n
                 /\ \A k \in 0..n : h[k] = MemberStep(h, members, nodes, bit, k)
  BY SMTT(120), MembersLoopExists
<1>2. PICK g : /\ DOMAIN g = 0..Len(nodes)
               /\ \A k \in 0..Len(nodes) : g[k] = MemberStep(g, members, nodes, bit, k)
  BY <1>1
<1>3. g = [k \in 0..Len(nodes) |-> MemberStep(g, members, nodes, bit, k)]
  BY <1>2
<1>4. \E f : f = [k \in 0..Len(nodes) |-> MemberStep(f, members, nodes, bit, k)]
  BY <1>3
<1>5. MembersLoop(members, nodes, bit) =
          [k \in 0..Len(nodes) |-> MemberStep(MembersLoop(members, nodes, bit),
                                               members, nodes, bit, k)]
  BY <1>4 DEF MembersLoop, MemberStep
<1> QED
  BY <1>5

\* What the loop has appended after its first n steps, starting from no
\* members: the nodes among the first n with the bit, each once, in a
\* sequence whose positions map one-to-one onto those nodes' indices.
PickedUpTo(F, nodes, bit, n) ==
    /\ F[n] \in Seq({nodes[m] : m \in 1..Len(nodes)})
    /\ \E g \in [1..Len(F[n]) -> 1..n] :
           /\ \A a, b \in 1..Len(F[n]) : a # b => g[a] # g[b]
           /\ \A j \in 1..Len(F[n]) : F[n][j] = nodes[g[j]]
           /\ {g[j] : j \in 1..Len(F[n])} = {m \in 1..n : bit \in nodes[m].type}

\* Starting from no members, the loop appends exactly the nodes with the
\* bit, each once.
LEMMA MembersPicked ==
    ASSUME NEW nodes, Len(nodes) \in Nat, NEW bit
    PROVE  PickedUpTo(MembersLoop(<< >>, nodes, bit), nodes, bit, Len(nodes))
<1>1. PICK F : F = MembersLoop(<< >>, nodes, bit)
  OBVIOUS
<1>2. \A k \in 0..Len(nodes) : F[k] = MemberStep(F, << >>, nodes, bit, k)
  BY <1>1, SMTT(60), MembersLoopDef
<1> DEFINE X == {nodes[m] : m \in 1..Len(nodes)}
           Bad == {n \in 0..Len(nodes) : ~PickedUpTo(F, nodes, bit, n)}
<1>3. SUFFICES Bad = {}
  BY <1>1
<1>4. SUFFICES ASSUME Bad # {} PROVE FALSE
  OBVIOUS
<1>5. PICK n \in Bad : \A m \in Bad : ~(m < n)
  <2>1. Bad \in SUBSET Nat
    OBVIOUS
  <2> QED
    BY <1>4, <2>1, LeastNat
<1>6. CASE n = 0
  <2>1. F[0] = << >>
    BY <1>2 DEF MemberStep
  <2>2. PickedUpTo(F, nodes, bit, 0)
    <3>1. F[0] \in Seq(X) /\ Len(F[0]) = 0
      BY <2>1
    <3>2. /\ << >> \in [1..Len(F[0]) -> 1..0]
          /\ \A a, b \in 1..Len(F[0]) : a # b => << >>[a] # << >>[b]
          /\ \A j \in 1..Len(F[0]) : F[0][j] = nodes[<< >>[j]]
          /\ {<< >>[j] : j \in 1..Len(F[0])} = {m \in 1..0 : bit \in nodes[m].type}
      BY <3>1
    <3> QED
      BY <3>1, <3>2 DEF PickedUpTo
  <2> QED
    BY <1>5, <1>6, <2>2
<1>7. CASE n # 0
  <2>1. n \in 1..Len(nodes) /\ n - 1 \in 0..Len(nodes) /\ n - 1 \notin Bad
    BY <1>5, <1>7
  <2>2. PickedUpTo(F, nodes, bit, n - 1)
    BY <2>1
  <2>3. /\ F[n - 1] \in Seq(X)
        /\ nodes[n] \in X
    BY <2>1, <2>2 DEF PickedUpTo
  <2>4. PICK g \in [1..Len(F[n - 1]) -> 1..n - 1] :
            /\ \A a, b \in 1..Len(F[n - 1]) : a # b => g[a] # g[b]
            /\ \A j \in 1..Len(F[n - 1]) : F[n - 1][j] = nodes[g[j]]
            /\ {g[j] : j \in 1..Len(F[n - 1])} = {m \in 1..n - 1 : bit \in nodes[m].type}
    BY <2>2 DEF PickedUpTo
  <2>5. CASE bit \in nodes[n].type
    <3>1. F[n] = Append(F[n - 1], nodes[n])
      BY <1>2, <1>7, <2>1, <2>5 DEF MemberStep
    <3>2. /\ F[n] \in Seq(X)
          /\ Len(F[n]) = Len(F[n - 1]) + 1
          /\ \A j \in 1..Len(F[n - 1]) : F[n][j] = F[n - 1][j]
          /\ F[n][Len(F[n])] = nodes[n]
      <4>1. Append(F[n - 1], nodes[n]) \in Seq(X)
        BY <2>3
      <4>2. Len(Append(F[n - 1], nodes[n])) = Len(F[n - 1]) + 1
        BY <2>3
      <4>3. \A j \in 1..Len(F[n - 1]) : Append(F[n - 1], nodes[n])[j] = F[n - 1][j]
        BY <2>3
      <4>4. Append(F[n - 1], nodes[n])[Len(F[n - 1]) + 1] = nodes[n]
        BY <2>3
      <4> QED
        BY <3>1, <4>1, <4>2, <4>3, <4>4
    <3> DEFINE g2 == [j \in 1..Len(F[n]) |-> IF j <= Len(F[n - 1]) THEN g[j] ELSE n]
    <3>3. g2 \in [1..Len(F[n]) -> 1..n]
      BY <2>1, <2>3, <2>4, <3>2
    <3>4. \A a, b \in 1..Len(F[n]) : a # b => g2[a] # g2[b]
      <4> SUFFICES ASSUME NEW a \in 1..Len(F[n]), NEW b \in 1..Len(F[n]), a # b
                   PROVE  g2[a] # g2[b]
        OBVIOUS
      <4>1. Len(F[n - 1]) \in Nat
        BY <2>3
      <4>2. CASE a <= Len(F[n - 1]) /\ b <= Len(F[n - 1])
        BY <2>4, <3>2, <4>1, <4>2
      <4>3. CASE a <= Len(F[n - 1]) /\ ~(b <= Len(F[n - 1]))
        <5>1. g[a] \in 1..n - 1
          BY <2>4, <4>3
        <5>2. g2[a] = g[a] /\ g2[b] = n
          BY <4>3
        <5> QED
          BY <2>1, <5>1, <5>2
      <4>4. CASE ~(a <= Len(F[n - 1])) /\ b <= Len(F[n - 1])
        BY <2>1, <2>4, <3>2, <4>1, <4>4
      <4>5. CASE ~(a <= Len(F[n - 1])) /\ ~(b <= Len(F[n - 1]))
        BY <3>2, <4>1, <4>5
      <4> QED
        BY <4>2, <4>3, <4>4, <4>5
    <3>5. \A j \in 1..Len(F[n]) : F[n][j] = nodes[g2[j]]
      BY <2>3, <2>4, <3>2
    <3>6. {g2[j] : j \in 1..Len(F[n])} = {m \in 1..n : bit \in nodes[m].type}
      <4>1. Len(F[n - 1]) \in Nat
        BY <2>3
      <4>2. {g2[j] : j \in 1..Len(F[n])} =
                {g[j] : j \in 1..Len(F[n - 1])} \cup {n}
        <5>1. \A j \in 1..Len(F[n]) :
                  g2[j] = IF j <= Len(F[n - 1]) THEN g[j] ELSE n
          OBVIOUS
        <5>2. ASSUME NEW j \in 1..Len(F[n])
              PROVE  g2[j] \in {g[l] : l \in 1..Len(F[n - 1])} \cup {n}
          BY <3>2, <4>1, <5>1
        <5>3. ASSUME NEW l \in 1..Len(F[n - 1])
              PROVE  g[l] \in {g2[j] : j \in 1..Len(F[n])}
          <6>1. l \in 1..Len(F[n]) /\ g2[l] = g[l]
            BY <3>2, <4>1, <5>1
          <6> QED
            BY <6>1
        <5>4. n \in {g2[j] : j \in 1..Len(F[n])}
          <6>1. Len(F[n]) \in 1..Len(F[n]) /\ g2[Len(F[n])] = n
            BY <3>2, <4>1, <5>1
          <6> QED
            BY <6>1
        <5> QED
          BY <5>2, <5>3, <5>4
      <4>3. {m \in 1..n : bit \in nodes[m].type} =
                {m \in 1..n - 1 : bit \in nodes[m].type} \cup {n}
        BY <2>1, <2>5
      <4> QED
        BY <2>4, <4>2, <4>3
    <3>7. PickedUpTo(F, nodes, bit, n)
      BY <3>2, <3>3, <3>4, <3>5, <3>6 DEF PickedUpTo
    <3> QED
      BY <1>5, <3>7
  <2>6. CASE bit \notin nodes[n].type
    <3>1. F[n] = F[n - 1]
      BY <1>2, <1>7, <2>1, <2>6 DEF MemberStep
    <3>2. g \in [1..Len(F[n]) -> 1..n]
      BY <2>1, <2>3, <2>4, <3>1
    <3>3. {m \in 1..n : bit \in nodes[m].type} = {m \in 1..n - 1 : bit \in nodes[m].type}
      BY <2>1, <2>6
    <3>4. /\ F[n] \in Seq(X)
          /\ \A a, b \in 1..Len(F[n]) : a # b => g[a] # g[b]
          /\ \A j \in 1..Len(F[n]) : F[n][j] = nodes[g[j]]
          /\ {g[j] : j \in 1..Len(F[n])} = {m \in 1..n : bit \in nodes[m].type}
      BY <2>3, <2>4, <3>1, <3>3
    <3>5. PickedUpTo(F, nodes, bit, n)
      BY <3>2, <3>4 DEF PickedUpTo
    <3> QED
      BY <1>5, <3>5
  <2> QED
    BY <2>5, <2>6
<1> QED
  BY <1>6, <1>7


-----------------------------------------------------------------------------
(* The etcd members of the converted cluster *)

\* Before toClusterdeploymentConfig's member loop there are no etcd
\* members; after it, the members are what the loop appends from
\* ccfg.Nodes.
EtcdInv ==
    /\ pc # "done" => ccfg.etcdNodes = << >>
    /\ pc = "done" => ccfg.etcdNodes = AppendMembers(<< >>, ccfg.nodes, "etcd")

LEMMA EtcdInvInit == Init => EtcdInv
BY DEF Init, EtcdInv

LEMMA EtcdInvStep == MergeInv /\ EtcdInv /\ [Next]_vars => EtcdInv'
<1> SUFFICES ASSUME MergeInv, EtcdInv, [Next]_vars PROVE EtcdInv'
  OBVIOUS
<1>1. CASE Template \/ TemplatePanics
  BY <1>1 DEF Template, TemplatePanics, EtcdInv
<1>2. ASSUME NEW role \in Roles, Iterate(role)
      PROVE  EtcdInv'
  BY <1>2 DEF Iterate, EtcdInv, Roles
<1>3. ASSUME NEW role \in Roles, LoopDone(role)
      PROVE  EtcdInv'
  <2>1. pc' # "done"
    BY <1>3, RoleIndexValues DEF LoopDone, RoleOrder, Roles
  <2> QED
    BY <1>3, <2>1 DEF LoopDone, EtcdInv, Roles
<1>4. CASE CollectHosts
  <2>1. DOMAIN ccfg = {"nodes", "etcdNodes", "certSans"}
    BY DEF MergeInv
  <2> QED
    BY <1>4, <2>1 DEF CollectHosts, EtcdInv
<1>5. CASE Finish
  <2>1. DOMAIN ccfg = {"nodes", "etcdNodes", "certSans"}
    BY DEF MergeInv
  <2>2. /\ pc' = "done"
        /\ ccfg'.nodes = ccfg.nodes
        /\ ccfg'.etcdNodes = AppendMembers(ccfg.etcdNodes, ccfg.nodes, "etcd")
    BY <1>5, <2>1 DEF Finish
  <2> QED
    BY <1>5, <2>2 DEF Finish, EtcdInv
<1>6. CASE UNCHANGED vars
  BY <1>6 DEF vars, EtcdInv
<1> QED
  BY <1>1, <1>2, <1>3, <1>4, <1>5, <1>6 DEF Next


\* At the end the members are the hosts of ccfg.Nodes with the ETCD bit:
\* one per address, and those addresses are the ones the etcd list (or,
\* when it is empty, the master list) names.
LEMMA EtcdInvMembership == MergeInv /\ EtcdInv => EtcdMembership
<1> SUFFICES ASSUME MergeInv, EtcdInv, pc = "done"
             PROVE  /\ Range(Addrs(ccfg.etcdNodes)) = {ip \in IPs : Listed(conf, "etcd", ip)}
                    /\ Distinct(Addrs(ccfg.etcdNodes))
  BY DEF EtcdMembership
<1>1. CacheInv /\ NodesFromCache
  BY DEF MergeInv
<1>2. \A a : SeenRoles(a) = RefRoles(conf, a)
  BY SeenAtEnd DEF SeenRoles
<1>3. PICK order \in SetToSeqs(DOMAIN cache) :
          ccfg.nodes = [k \in DOMAIN order |-> cache[order[k]]]
  BY <1>1 DEF NodesFromCache
<1>4. /\ DOMAIN order = 1..Cardinality(DOMAIN cache)
      /\ \A k \in DOMAIN order : order[k] \in DOMAIN cache
      /\ \A a, b \in DOMAIN order : a # b => order[a] # order[b]
      /\ \A x \in DOMAIN cache : \E k \in DOMAIN order : order[k] = x
      /\ Cardinality(DOMAIN cache) \in Nat
  <2>1. IsFiniteSet(DOMAIN cache)
    BY <1>1, InputsAssumption, FS_Subset DEF CacheInv
  <2> QED
    BY <2>1, SetToSeqsOrder, FS_CardinalityType
<1> DEFINE nodes == ccfg.nodes
<1>5. /\ nodes \in Seq(Range(nodes))
      /\ Len(nodes) = Cardinality(DOMAIN cache)
      /\ \A k \in 1..Len(nodes) : /\ nodes[k] = cache[order[k]]
                                  /\ nodes[k].addr = order[k]
                                  /\ nodes[k].type = RefRoles(conf, order[k])
  <2>1. nodes \in [1..Cardinality(DOMAIN cache) -> Range(nodes)]
    BY <1>3, <1>4 DEF Range
  <2>2. nodes \in Seq(Range(nodes))
    BY <1>4, <2>1, FunctionIsSeq
  <2>3. Len(nodes) = Cardinality(DOMAIN cache)
    BY <1>3, <1>4, <2>2
  <2>4. \A k \in 1..Len(nodes) : nodes[k] = cache[order[k]]
    BY <1>3, <1>4, <2>3
  <2> QED
    BY <1>1, <1>2, <1>4, <2>2, <2>3, <2>4 DEF CacheInv
<1>6. PICK F : F = MembersLoop(<< >>, nodes, "etcd")
  OBVIOUS
<1>7. ccfg.etcdNodes = F[Len(nodes)]
  BY <1>6 DEF EtcdInv, AppendMembers
<1>7a. PickedUpTo(F, nodes, "etcd", Len(nodes))
  BY <1>5, <1>6, MembersPicked
<1>8. PICK g \in [1..Len(F[Len(nodes)]) -> 1..Len(nodes)] :
          /\ \A a, b \in 1..Len(F[Len(nodes)]) : a # b => g[a] # g[b]
          /\ \A j \in 1..Len(F[Len(nodes)]) : F[Len(nodes)][j] = nodes[g[j]]
          /\ {g[j] : j \in 1..Len(F[Len(nodes)])} =
                 {m \in 1..Len(nodes) : "etcd" \in nodes[m].type}
  BY <1>7a DEF PickedUpTo
<1> DEFINE M == ccfg.etcdNodes
<1>9. /\ DOMAIN M = 1..Len(F[Len(nodes)])
      /\ \A j \in DOMAIN M : M[j].addr = order[g[j]]
  <2>1. F[Len(nodes)] \in Seq({nodes[m] : m \in 1..Len(nodes)})
    BY <1>7a DEF PickedUpTo
  <2> QED
    BY <1>5, <1>7, <1>8, <2>1
<1>10. Range(Addrs(M)) = {ip \in IPs : Listed(conf, "etcd", ip)}
  <2>1. Range(Addrs(M)) = {order[g[j]] : j \in DOMAIN M}
    BY <1>9 DEF Range, Addrs
  <2>2. {order[g[j]] : j \in DOMAIN M} =
            {order[m] : m \in {m \in 1..Len(nodes) : "etcd" \in nodes[m].type}}
    <3> DEFINE S == {m \in 1..Len(nodes) : "etcd" \in nodes[m].type}
    <3>1. \A j \in DOMAIN M : g[j] \in S
      BY <1>8, <1>9
    <3>2. \A m \in S : \E j \in DOMAIN M : g[j] = m
      BY <1>8, <1>9
    <3> QED
      BY <3>1, <3>2
  <2>3. {order[m] : m \in {m \in 1..Len(nodes) : "etcd" \in nodes[m].type}} =
            {ip \in DOMAIN cache : "etcd" \in RefRoles(conf, ip)}
    BY <1>4, <1>5
  <2>4. DOMAIN cache = ListedIPs(conf)
    BY <1>1, <1>2 DEF CacheInv, ListedIPs
  <2>5. {ip \in DOMAIN cache : "etcd" \in RefRoles(conf, ip)} =
            {ip \in IPs : Listed(conf, "etcd", ip)}
    BY <2>4 DEF ListedIPs, RefRoles, Roles
  <2> QED
    BY <2>1, <2>2, <2>3, <2>5
<1>11. Distinct(Addrs(M))
  <2>1. \A j \in DOMAIN M : g[j] \in DOMAIN order
    BY <1>4, <1>5, <1>8, <1>9
  <2> QED
    BY <1>4, <1>8, <1>9, <2>1 DEF Distinct, Addrs
<1> QED
  BY <1>10, <1>11

\* toClusterdeploymentConfig makes an etcd member of every host of
\* ccfg.Nodes with the ETCD bit, and fillHostConfig's etcds loop (on the
\* masters when the etcd list is empty) is what sets that bit: the members
\* are the etcd hosts of the config, each once.  EtcdMembership holds in
\* every behaviour, for every set of addresses and every input config.
THEOREM EtcdMembers == Spec => []EtcdMembership
<1>1. Init => MergeInv /\ EtcdInv
  BY MergeInvInit, EtcdInvInit
<1>2. MergeInv /\ EtcdInv /\ [Next]_vars => MergeInv' /\ EtcdInv'
  BY MergeInvStep, EtcdInvStep
<1>3. MergeInv /\ EtcdInv => EtcdMembership
  BY EtcdInvMembership
<1> QED
  BY <1>1, <1>2, <1>3, PTL DEF Spec

=============================================================================
