---------------------------- MODULE Configs_proofs ----------------------------
(***************************************************************************)
(* Proofs about the conversion of a deploy config (Configs).              *)
(*                                                                         *)
(* HostsMergedByIP is a statement about the end of the conversion; it is  *)
(* proved from an inductive invariant that says what the host cache of    *)
(* fillHostConfig holds after any number of loop iterations: exactly the  *)
(* IPs of the entries visited so far, each host under its own address     *)
(* and with the role bits of the visited lists naming that address.       *)
(* Once the loop over the cache has run, ccfg.Nodes is the cache's hosts  *)
(* in some order without repetition.                                      *)
(***************************************************************************)
EXTENDS Configs, FiniteSetTheorems, SequenceTheorems, TLAPS

\* A host entry of a deploy config.  Its name is the user's or a default
\* name the template wrote; no property here depends on it.
DefaultNames(p) == {DefaultName(p, k) : k \in Nat}

Names == STRING \cup UNION {DefaultNames(p) : p \in Range(NamePrefix)}

Entry == [ip: IPs, name: Names, port: UserPorts \cup {0, 22}]

\* The host lists of a config are lists of entries.
ConfOK(c) ==
    /\ c.masters \in Seq(Entry)
    /\ c.nodes \in Seq(Entry)
    /\ c.etcds \in Seq(Entry)
    /\ c.loadbalances \in Seq(Entry)

\* How far fillHostConfig has come at pc p: the loop of the role p (1 to
\* 4), all four loops behind it (5), or none begun (0).
StageOf(p) ==
    IF p \in Roles THEN RoleIndex(p)
    ELSE IF p \in {"collect", "finish", "done"} THEN 5 ELSE 0

\* At pc p and loop index n, entry k of the list of role r was visited.
VisitedAt(p, n, r, k) == RoleIndex(r) < StageOf(p) \/ (r = p /\ k < n)

\* The roles of config c whose lists have an entry of address ip visited
\* by the time the conversion is at pc p and loop index n.
Seen(c, p, n, ip) ==
    {r \in Roles : \E k \in DOMAIN RefLists(c)[r] :
                       VisitedAt(p, n, r, k) /\ RefLists(c)[r][k].ip = ip}

SeenRoles(ip) == Seen(conf, pc, i, ip)

\* The fields of an api.HostConfig the model keeps.
HostFields == {"addr", "name", "port", "type", "pkgs", "ports"}

\* The cache holds one host per address seen so far, stored under its own
\* address, with the role bits of every visited entry of that address.
CacheInv ==
    /\ DOMAIN cache = {ip \in IPs : SeenRoles(ip) # {}}
    /\ \A ip \in DOMAIN cache :
           /\ DOMAIN cache[ip] = HostFields
           /\ cache[ip].addr = ip
           /\ cache[ip].type = SeenRoles(ip)

\* ccfg.Nodes is the cache's hosts, each once, in some order.
NodesFromCache ==
    \E order \in SetToSeqs(DOMAIN cache) :
        ccfg.nodes = [k \in DOMAIN order |-> cache[order[k]]]

\* The name and SSH port createCommonHostConfig gives a host created from
\* entry e, the k-th of the list of role r.
LoginOf(r, k, e) ==
    [name |-> IF e.name # "" THEN e.name ELSE DefaultName(NamePrefix[r], k),
     port |-> IF e.port # 0 THEN e.port ELSE 22]

HasLogin(h, g) == h.name = g.name /\ h.port = g.port

\* k is the last visited master entry of address ip (at pc p, index n).
LastVisitedMaster(c, p, n, ip, k) ==
    /\ k \in DOMAIN c.masters
    /\ c.masters[k].ip = ip
    /\ VisitedAt(p, n, "master", k)
    /\ \A j \in DOMAIN c.masters :
           j > k /\ VisitedAt(p, n, "master", j) => c.masters[j].ip # ip

\* k is the first entry of address ip in list l.
FirstOf(l, ip, k) ==
    /\ k \in DOMAIN l
    /\ l[k].ip = ip
    /\ \A j \in 1..k - 1 : l[j].ip # ip

\* r is the role of S whose loop runs first.
FirstRole(S, r) == r \in S /\ \A s \in S : RoleIndex(r) <= RoleIndex(s)

\* A cached host has the login of the entry that created it: the last
\* master entry of its address visited so far, else the first entry of
\* the first list that named it.
LoginOK(ip) ==
    IF "master" \in SeenRoles(ip)
    THEN \E k \in DOMAIN conf.masters :
             /\ LastVisitedMaster(conf, pc, i, ip, k)
             /\ HasLogin(cache[ip], LoginOf("master", k, conf.masters[k]))
    ELSE \E r \in Roles : \E k \in DOMAIN RefLists(conf)[r] :
             /\ FirstRole(SeenRoles(ip), r)
             /\ FirstOf(RefLists(conf)[r], ip, k)
             /\ HasLogin(cache[ip], LoginOf(r, k, RefLists(conf)[r][k]))

LoginInv ==
    pc \notin {"template", "panic"} => \A ip \in DOMAIN cache : LoginOK(ip)

MergeInv ==
    /\ pc \in PcValues
    /\ i \in Nat \ {0}
    /\ DOMAIN ccfg = {"nodes", "etcdNodes", "certSans"}
    /\ pc \in {"template", "panic"} => conf = Nil /\ DOMAIN cache = {}
    /\ pc = "template" => opts \in Opts /\ i = 1
    /\ pc \notin {"template", "panic"} => ConfOK(conf) /\ CacheInv
    /\ pc \notin {"finish", "done"} => ccfg.nodes = << >>
    /\ pc \in {"finish", "done"} => NodesFromCache

-----------------------------------------------------------------------------
(* Lemmas on the operators of the model *)

\* The position of each role in the order of fillHostConfig's loops.
LEMMA RoleIndexValues ==
    /\ RoleIndex("master") = 1
    /\ RoleIndex("node") = 2
    /\ RoleIndex("etcd") = 3
    /\ RoleIndex("loadbalance") = 4
BY DEF RoleIndex, RoleOrder

\* What the loop over the cache visits: SetToSeqs(S) holds the orders of a
\* finite set S, each element once.
LEMMA SetToSeqsOrder ==
    ASSUME NEW S, IsFiniteSet(S), NEW order \in SetToSeqs(S)
    PROVE  /\ DOMAIN order = 1..Cardinality(S)
           /\ \A k \in DOMAIN order : order[k] \in S
           /\ \A a, b \in DOMAIN order : a # b => order[a] # order[b]
           /\ \A x \in S : \E k \in DOMAIN order : order[k] = x
<1> DEFINE n == Cardinality(S)
<1>1. n \in Nat
  BY FS_CardinalityType
<1>2. /\ order \in [1..n -> S]
      /\ \A a, b \in 1..n : a # b => order[a] # order[b]
  BY DEF SetToSeqs
<1>3. order \in Injection(1..n, S)
  BY <1>2 DEF Injection, IsInjective
<1>4. IsFiniteSet(1..n) /\ Cardinality(1..n) = n
  BY <1>1, FS_Interval
<1>5. order \in Surjection(1..n, S)
  BY <1>3, <1>4, FS_Injection
<1> QED
  BY <1>2, <1>5 DEF Surjection

\* loadDeployConfig: the host lists of a user's file are lists of entries.
LEMMA UserConfOK ==
    ASSUME NEW c \in UserConfs
    PROVE  ConfOK(c)
<1>1. c \in DeployConf
  BY InputsAssumption
<1>2. HostIn \subseteq Entry
  BY DEF HostIn, Entry, Names
<1> QED
  BY <1>1, <1>2 DEF DeployConf, ConfOK

\* A function on 1..n is a sequence.
LEMMA FunctionIsSeq ==
    ASSUME NEW S, NEW n \in Nat, NEW f \in [1..n -> S]
    PROVE  f \in Seq(S)
BY SeqDef

\* getHostconfigs builds one entry per IP of the list.
LEMMA HostconfigsEntries ==
    ASSUME NEW p \in Range(NamePrefix), NEW ips \in Seq(IPs)
    PROVE  GetHostconfigs(p, ips) \in Seq(Entry)
<1> DEFINE n == Len(ips)
<1>1. n \in Nat /\ DOMAIN ips = 1..n
  OBVIOUS
<1>2. ASSUME NEW k \in 1..n
      PROVE  [ip |-> ips[k], name |-> DefaultName(p, k), port |-> 22] \in Entry
  <2>1. k \in Nat /\ ips[k] \in IPs
    BY <1>1
  <2>2. DefaultName(p, k) \in DefaultNames(p)
    BY <2>1 DEF DefaultNames
  <2>3. DefaultName(p, k) \in Names
    BY <2>2, Zenon DEF Names
  <2> QED
    BY <2>1, <2>3 DEF Entry
<1>3. GetHostconfigs(p, ips) \in [1..n -> Entry]
  BY <1>1, <1>2 DEF GetHostconfigs
<1> QED
  BY <1>1, <1>3, FunctionIsSeq

\* The template's host lists are lists of entries.
LEMMA TemplateConfOK ==
    ASSUME NEW o \in Opts
    PROVE  ConfOK(TemplateConf(o))
<1>1. \A l \in Seq(IPs) \cup {Nil}, d \in Seq(IPs) : OrDefault(l, d) \in Seq(IPs)
  BY DEF OrDefault
<1>2. /\ <<"192.168.0.1">> \in Seq(IPs)
      /\ <<"192.168.0.2">> \in Seq(IPs)
      /\ <<"192.168.0.3", "192.168.0.4">> \in Seq(IPs)
  BY InputsAssumption
<1>3. /\ OrDefault(o.masters, <<"192.168.0.2">>) \in Seq(IPs)
      /\ OrDefault(o.nodes, <<"192.168.0.3", "192.168.0.4">>) \in Seq(IPs)
      /\ OrDefault(o.etcds, OrDefault(o.masters, <<"192.168.0.2">>)) \in Seq(IPs)
      /\ TemplateLBIPs(o) \in Seq(IPs)
  BY <1>1, <1>2 DEF Opts, TemplateLBIPs
<1> DEFINE masters == GetHostconfigs("k8s-master-", OrDefault(o.masters, <<"192.168.0.2">>))
           etcds == GetHostconfigs("etcd-", OrDefault(o.etcds, OrDefault(o.masters, <<"192.168.0.2">>)))
<1>0. /\ "k8s-master-" \in Range(NamePrefix) /\ "etcd-" \in Range(NamePrefix)
      /\ "k8s-node-" \in Range(NamePrefix) /\ "k8s-loadbalance-" \in Range(NamePrefix)
  BY DEF NamePrefix, Range
<1>4. masters \in Seq(Entry) /\ etcds \in Seq(Entry)
  <2>1. masters \in Seq(Entry)
    BY <1>0, <1>3, HostconfigsEntries
  <2>2. etcds \in Seq(Entry)
    BY <1>0, <1>3, HostconfigsEntries
  <2> QED
    BY <2>1, <2>2
<1>5. (IF Len(etcds) = 0 THEN masters ELSE etcds) \in Seq(Entry)
  BY <1>4
<1>6. /\ GetHostconfigs("k8s-node-", OrDefault(o.nodes, <<"192.168.0.3", "192.168.0.4">>)) \in Seq(Entry)
      /\ GetHostconfigs("k8s-loadbalance-", TemplateLBIPs(o)) \in Seq(Entry)
  <2>1. GetHostconfigs("k8s-node-", OrDefault(o.nodes, <<"192.168.0.3", "192.168.0.4">>)) \in Seq(Entry)
    BY <1>0, <1>3, HostconfigsEntries
  <2>2. GetHostconfigs("k8s-loadbalance-", TemplateLBIPs(o)) \in Seq(Entry)
    BY <1>0, <1>3, HostconfigsEntries
  <2> QED
    BY <2>1, <2>2
<1> QED
  BY <1>4, <1>5, <1>6 DEF TemplateConf, ConfOK

\* Each loop of fillHostConfig walks the list the reference names for its
\* role: "len(conf.Etcds) == 0" and an empty list are the same test.
LEMMA RoleListRef ==
    ASSUME NEW c, ConfOK(c), NEW r \in Roles
    PROVE  /\ RoleList(r, c) = RefLists(c)[r]
           /\ RefLists(c)[r] \in Seq(Entry)
<1>1. c.etcds = << >> <=> Len(c.etcds) = 0
  BY DEF ConfOK
<1>2. CASE r = "master"
  BY <1>2 DEF ConfOK, RoleList, RefLists
<1>3. CASE r = "node"
  BY <1>3 DEF ConfOK, RoleList, RefLists
<1>4. CASE r = "etcd"
  BY <1>1, <1>4 DEF ConfOK, RoleList, RefLists, EtcdHosts
<1>5. CASE r = "loadbalance"
  BY <1>5 DEF ConfOK, RoleList, RefLists
<1> QED
  BY <1>2, <1>3, <1>4, <1>5 DEF Roles

\* The roles in the order of the loops: every role has an index in 1..4,
\* and only the master loop has index 1.
LEMMA RoleIndexRange ==
    \A r \in Roles :
        /\ RoleIndex(r) \in 1..4
        /\ RoleIndex(r) = 1 => r = "master"
BY RoleIndexValues DEF Roles

\* Before the masters loop runs, no entry has been visited.
LEMMA SeenAtStart ==
    ASSUME NEW c, ConfOK(c), NEW ip
    PROVE  Seen(c, "master", 1, ip) = {}
<1>1. \A r \in Roles : DOMAIN RefLists(c)[r] \subseteq 1..Len(RefLists(c)[r])
  BY RoleListRef
<1>2. StageOf("master") = 1
  BY RoleIndexValues DEF StageOf, Roles
<1>3. ASSUME NEW r \in Roles, NEW k \in DOMAIN RefLists(c)[r]
      PROVE  ~VisitedAt("master", 1, r, k)
  <2>1. k \in Nat /\ k >= 1
    BY <1>1, RoleListRef
  <2>2. RoleIndex(r) \in 1..4
    BY RoleIndexRange
  <2> QED
    BY <1>2, <2>1, <2>2 DEF VisitedAt
<1> QED
  BY <1>3 DEF Seen

\* Within the loop of role r0 only the roles up to r0 have been seen.
LEMMA SeenWithinStage ==
    ASSUME NEW c, NEW r0 \in Roles, NEW n, NEW ip
    PROVE  \A r \in Seen(c, r0, n, ip) : RoleIndex(r) <= RoleIndex(r0)
<1>1. StageOf(r0) = RoleIndex(r0)
  BY DEF StageOf
<1>2. ASSUME NEW r \in Roles, NEW k, VisitedAt(r0, n, r, k)
      PROVE  RoleIndex(r) <= RoleIndex(r0)
  BY <1>1, <1>2, RoleIndexRange DEF VisitedAt
<1> QED
  BY <1>2 DEF Seen

\* One iteration of the loop of role r0 visits entry n of its list.
LEMMA SeenAfterIterate ==
    ASSUME NEW c, ConfOK(c), NEW r0 \in Roles, NEW n \in Nat \ {0},
           n <= Len(RefLists(c)[r0]), NEW ip
    PROVE  Seen(c, r0, n + 1, ip) =
               Seen(c, r0, n, ip) \cup (IF RefLists(c)[r0][n].ip = ip THEN {r0} ELSE {})
<1>1. RefLists(c)[r0] \in Seq(Entry)
  BY RoleListRef
<1>2. n \in DOMAIN RefLists(c)[r0]
  BY <1>1
<1>3. \A r \in Roles, k \in Nat :
          VisitedAt(r0, n + 1, r, k) <=> VisitedAt(r0, n, r, k) \/ (r = r0 /\ k = n)
  BY DEF VisitedAt
<1>4. \A r \in Roles : DOMAIN RefLists(c)[r] \subseteq Nat
  BY RoleListRef
<1> QED
  BY <1>2, <1>3, <1>4 DEF Seen

\* The pc fillHostConfig goes to when the loop of role r0 ends.
LoopNext(r0) ==
    IF r0 = "loadbalance" THEN "collect" ELSE RoleOrder[RoleIndex(r0) + 1]

\* The end of the loop of role r0 visits nothing new and forgets nothing:
\* every entry of r0's list has been visited, and the next loop has not
\* begun.
LEMMA VisitedAfterLoop ==
    ASSUME NEW c, ConfOK(c), NEW r0 \in Roles, NEW n \in Nat,
           n > Len(RefLists(c)[r0]),
           NEW r \in Roles, NEW k \in DOMAIN RefLists(c)[r]
    PROVE  VisitedAt(LoopNext(r0), 1, r, k) <=> VisitedAt(r0, n, r, k)
<1> DEFINE p == LoopNext(r0)
<1>1. StageOf(p) = RoleIndex(r0) + 1
  <2>1. CASE r0 = "master"
    BY <2>1, RoleIndexValues DEF LoopNext, StageOf, RoleOrder, Roles
  <2>2. CASE r0 = "node"
    BY <2>2, RoleIndexValues DEF LoopNext, StageOf, RoleOrder, Roles
  <2>3. CASE r0 = "etcd"
    BY <2>3, RoleIndexValues DEF LoopNext, StageOf, RoleOrder, Roles
  <2>4. CASE r0 = "loadbalance"
    BY <2>4, RoleIndexValues DEF LoopNext, StageOf, Roles
  <2> QED
    BY <2>1, <2>2, <2>3, <2>4 DEF Roles
<1>2. \A s \in Roles : RoleIndex(s) = RoleIndex(r0) => s = r0
  BY RoleIndexValues DEF Roles
<1>3. k \in Nat /\ k >= 1 /\ (r = r0 => k < n)
  BY RoleListRef
<1>4. RoleIndex(r) \in 1..4 /\ RoleIndex(r0) \in 1..4
  BY RoleIndexRange
<1>5. StageOf(r0) = RoleIndex(r0)
  BY DEF StageOf
<1>6. CASE r = r0
  BY <1>1, <1>3, <1>4, <1>5, <1>6 DEF VisitedAt
<1>7. CASE r # r0
  <2>1. RoleIndex(r) # RoleIndex(r0)
    BY <1>2, <1>7
  <2> QED
    BY <1>1, <1>3, <1>4, <1>5, <2>1 DEF VisitedAt
<1> QED
  BY <1>6, <1>7

\* The end of the loop of role r0: the next loop starts with every entry
\* of r0's list visited.
LEMMA SeenAfterLoop ==
    ASSUME NEW c, ConfOK(c), NEW r0 \in Roles, NEW n \in Nat,
           n > Len(RefLists(c)[r0]), NEW ip
    PROVE  Seen(c, LoopNext(r0), 1, ip) = Seen(c, r0, n, ip)
BY VisitedAfterLoop DEF Seen

\* After the four loops every entry of every list has been visited: the
\* roles seen of an address are those the reference gives it.
LEMMA SeenAtEnd ==
    ASSUME NEW c, NEW p \in {"collect", "finish", "done"}, NEW n, NEW ip
    PROVE  Seen(c, p, n, ip) = RefRoles(c, ip)
<1>1. \A r \in Roles : \A k \in DOMAIN RefLists(c)[r] : VisitedAt(p, n, r, k)
  BY RoleIndexRange DEF VisitedAt, StageOf, Roles
<1> QED
  BY <1>1 DEF Seen, RefRoles, Listed

\* createCommonHostConfig builds a host of the entry's address and no role.
LEMMA CommonHostFacts ==
    ASSUME NEW u, NEW name
    PROVE  LET h == CreateCommonHostConfig(u, name)
           IN  DOMAIN h = HostFields /\ h.addr = u.ip /\ h.type = {}
BY DEF CreateCommonHostConfig, HostFields

\* ... with the entry's name and port, or the defaults of its position.
LEMMA CommonHostLogin ==
    ASSUME NEW u, NEW r, NEW k
    PROVE  HasLogin(CreateCommonHostConfig(u, DefaultName(NamePrefix[r], k)),
                    LoginOf(r, k, u))
BY DEF CreateCommonHostConfig, HasLogin, LoginOf

\* The rest of an iteration on host h0: the role bit, addUserPackages and
\* addPackagesAndExports.
IterHost(h0, role, c) ==
    AddPackagesAndExports([h0 EXCEPT !.type = @ \cup {role},
                                     !.pkgs = AddUserPackages(@, c.packages[role])],
                          DefaultPackages[role], Exports(role, c))

\* The rest of an iteration changes neither the fields of the host nor its
\* address, and adds the role to its type.
LEMMA IterationHostFacts ==
    ASSUME NEW role, NEW c, NEW h0, DOMAIN h0 = HostFields
    PROVE  /\ DOMAIN IterHost(h0, role, c) = HostFields
           /\ IterHost(h0, role, c).addr = h0.addr
           /\ IterHost(h0, role, c).type = h0.type \cup {role}
           /\ IterHost(h0, role, c).name = h0.name
           /\ IterHost(h0, role, c).port = h0.port
BY DEF IterHost, AddPackagesAndExports, HostFields

-----------------------------------------------------------------------------
(* The inductive invariant *)

LEMMA MergeInvInit == Init => MergeInv
<1> SUFFICES ASSUME Init PROVE MergeInv
  OBVIOUS
<1>1. /\ i = 1 /\ cache = << >>
      /\ ccfg = [nodes |-> << >>, etcdNodes |-> << >>, certSans |-> << >>]
  BY DEF Init
<1>2. /\ i \in Nat \ {0}
      /\ DOMAIN ccfg = {"nodes", "etcdNodes", "certSans"}
      /\ ccfg.nodes = << >>
      /\ DOMAIN cache = {}
  BY <1>1
<1>3. CASE opts = Nil /\ conf \in UserConfs /\ pc = "master"
  <2>1. ConfOK(conf)
    BY <1>3, UserConfOK
  <2>2. \A ip : SeenRoles(ip) = {}
    BY <1>1, <1>3, <2>1, SeenAtStart DEF SeenRoles
  <2>3. CacheInv
    BY <1>2, <2>2 DEF CacheInv
  <2> QED
    BY <1>2, <1>3, <2>1, <2>3 DEF MergeInv, PcValues, Roles
<1>4. CASE opts \in TemplateOpts /\ conf = Nil /\ pc = "template"
  <2>1. opts \in Opts
    BY <1>4, InputsAssumption
  <2> QED
    BY <1>1, <1>2, <1>4, <2>1 DEF MergeInv, PcValues
<1> QED
  BY <1>3, <1>4 DEF Init

\* createDeployConfigTemplate: the conversion starts on the template.
LEMMA MergeInvTemplate ==
    ASSUME MergeInv, Template
    PROVE  MergeInv'
<1>1. /\ pc = "template" /\ pc' = "master"
      /\ conf' = TemplateConf(opts)
      /\ UNCHANGED <<i, opts, cache, ccfg>>
  BY DEF Template
<1>2. /\ DOMAIN cache = {} /\ opts \in Opts /\ ccfg.nodes = << >>
      /\ i \in Nat \ {0} /\ DOMAIN ccfg = {"nodes", "etcdNodes", "certSans"}
  BY <1>1 DEF MergeInv
<1>3. ConfOK(conf')
  BY <1>1, <1>2, TemplateConfOK
<1>4. i' = 1
  BY <1>1, <1>2 DEF MergeInv
<1>5. \A ip : Seen(conf', pc', i', ip) = {}
  BY <1>1, <1>3, <1>4, SeenAtStart
<1>6. CacheInv'
  BY <1>1, <1>2, <1>5 DEF CacheInv, SeenRoles
<1> QED
  BY <1>1, <1>2, <1>3, <1>4, <1>6 DEF MergeInv, PcValues, Roles

\* With no load balancer the template panics; nothing else changes.
LEMMA MergeInvPanics ==
    ASSUME MergeInv, TemplatePanics
    PROVE  MergeInv'
BY DEF MergeInv, TemplatePanics, PcValues

\* One iteration of the loop of role: the entry's host, taken from the
\* cache or created, gets the role bit and is stored under its address.
LEMMA MergeInvIterate ==
    ASSUME MergeInv, NEW role \in Roles, Iterate(role)
    PROVE  MergeInv'
<1> DEFINE L == RoleList(role, conf)
           u == L[i]
<1>1. /\ pc = role /\ i <= Len(L)
      /\ i' = i + 1
      /\ UNCHANGED <<pc, opts, conf, ccfg>>
  BY DEF Iterate
<1>2. /\ i \in Nat \ {0}
      /\ ConfOK(conf) /\ CacheInv
      /\ ccfg.nodes = << >>
  BY <1>1 DEF MergeInv, Roles
<1>3. /\ L = RefLists(conf)[role]
      /\ L \in Seq(Entry)
  BY <1>2, RoleListRef
<1>4. u \in Entry /\ u.ip \in IPs
  <2>1. i \in 1..Len(L)
    BY <1>1, <1>2, <1>3
  <2>2. u \in Entry
    BY <1>3, <2>1, ElementOfSeq
  <2> QED
    BY <2>2 DEF Entry
<1>20. PICK a \in IPs : a = u.ip
  BY <1>4
<1>5. PICK g0 : g0 = HostFor(role, u, i)
  OBVIOUS
<1>6. PICK g2 : g2 = IterHost(g0, role, conf)
  OBVIOUS
<1>7. cache' = [ip \in DOMAIN cache \cup {g2.addr} |->
                  IF ip = g2.addr THEN g2 ELSE cache[ip]]
  BY <1>5, <1>6 DEF Iterate, IterHost
<1>8. /\ DOMAIN g0 = HostFields
      /\ g0.addr = a
      /\ g0.type = IF role # "master" /\ a \in DOMAIN cache
                   THEN SeenRoles(a) ELSE {}
  BY <1>2, <1>5, <1>20, CommonHostFacts DEF HostFor, CacheInv
<1>9. /\ DOMAIN g2 = HostFields
      /\ g2.addr = a
      /\ g2.type = g0.type \cup {role}
  BY <1>6, <1>8, IterationHostFacts
<1>10. /\ DOMAIN cache' = DOMAIN cache \cup {a}
       /\ cache'[a] = g2
       /\ \A ip \in DOMAIN cache \ {a} : cache'[ip] = cache[ip]
  BY <1>7, <1>9
<1>11. \A ip : SeenRoles(ip)' = SeenRoles(ip) \cup (IF a = ip THEN {role} ELSE {})
  BY <1>1, <1>2, <1>3, <1>20, SeenAfterIterate DEF SeenRoles
<1>12. g2.type = SeenRoles(a)'
  <2>1. CASE role = "master"
    <3>1. SeenRoles(a) \subseteq {"master"}
      <4>1. \A r \in SeenRoles(a) : RoleIndex(r) <= RoleIndex("master")
        BY <1>1, <2>1, SeenWithinStage DEF SeenRoles
      <4>2. SeenRoles(a) \subseteq Roles
        BY DEF SeenRoles, Seen
      <4> QED
        BY <4>1, <4>2, RoleIndexRange, RoleIndexValues
    <3> QED
      BY <1>8, <1>9, <1>11, <2>1, <3>1
  <2>2. CASE role # "master" /\ a \in DOMAIN cache
    BY <1>8, <1>9, <1>11, <2>2
  <2>3. CASE role # "master" /\ a \notin DOMAIN cache
    <3>1. SeenRoles(a) = {}
      BY <1>2, <2>3 DEF CacheInv
    <3> QED
      BY <1>8, <1>9, <1>11, <2>3, <3>1
  <2> QED
    BY <2>1, <2>2, <2>3
<1>13. CacheInv'
  <2>1. DOMAIN cache' = {ip \in IPs : SeenRoles(ip)' # {}}
    BY <1>2, <1>10, <1>11 DEF CacheInv
  <2>2. ASSUME NEW ip \in DOMAIN cache'
        PROVE  /\ DOMAIN cache'[ip] = HostFields
               /\ cache'[ip].addr = ip
               /\ cache'[ip].type = SeenRoles(ip)'
    <3>1. CASE ip = a
      BY <1>9, <1>10, <1>12, <3>1
    <3>2. CASE ip # a
      BY <1>2, <1>10, <1>11, <3>2 DEF CacheInv
    <3> QED
      BY <3>1, <3>2
  <2> QED
    BY <2>1, <2>2 DEF CacheInv
<1> QED
  BY <1>1, <1>2, <1>13 DEF MergeInv, PcValues, Roles

\* The loop of role ends and the next begins, with every entry of role's
\* list visited.
LEMMA MergeInvLoopDone ==
    ASSUME MergeInv, NEW role \in Roles, LoopDone(role)
    PROVE  MergeInv'
<1> DEFINE next == IF role = "loadbalance" THEN "collect"
                   ELSE RoleOrder[RoleIndex(role) + 1]
<1>1. /\ pc = role /\ i > Len(RoleList(role, conf))
      /\ pc' = next /\ i' = 1
      /\ UNCHANGED <<opts, conf, cache, ccfg>>
  BY DEF LoopDone
<1>2. /\ i \in Nat \ {0}
      /\ DOMAIN ccfg = {"nodes", "etcdNodes", "certSans"}
      /\ ConfOK(conf) /\ CacheInv
      /\ ccfg.nodes = << >>
  BY <1>1 DEF MergeInv, Roles
<1>3. next \in Roles \cup {"collect"}
  BY RoleIndexValues DEF RoleOrder, Roles
<1>4. i > Len(RefLists(conf)[role])
  BY <1>1, <1>2, RoleListRef
<1>5. \A ip : SeenRoles(ip)' = SeenRoles(ip)
  BY <1>1, <1>2, <1>4, SeenAfterLoop DEF SeenRoles, LoopNext
<1>6. CacheInv'
  BY <1>1, <1>2, <1>5 DEF CacheInv
<1> QED
  BY <1>1, <1>2, <1>3, <1>6 DEF MergeInv, PcValues, Roles

\* The loop over the cache: ccfg.Nodes becomes the cached hosts in the
\* order in which Go's map iteration visits them.
LEMMA MergeInvCollect ==
    ASSUME MergeInv, CollectHosts
    PROVE  MergeInv'
<1>1. /\ pc = "collect" /\ pc' = "finish"
      /\ UNCHANGED <<i, opts, conf, cache>>
  BY DEF CollectHosts
<1>2. /\ i \in Nat \ {0}
      /\ DOMAIN ccfg = {"nodes", "etcdNodes", "certSans"}
      /\ ConfOK(conf) /\ CacheInv
      /\ ccfg.nodes = << >>
  BY <1>1 DEF MergeInv
<1>3. PICK order \in SetToSeqs(DOMAIN cache) :
          ccfg' = [ccfg EXCEPT !.nodes = @ \o [k \in DOMAIN order |-> cache[order[k]]]]
  BY DEF CollectHosts
<1>4. IsFiniteSet(DOMAIN cache)
  BY <1>2, InputsAssumption, FS_Subset DEF CacheInv
<1>5. DOMAIN order = 1..Cardinality(DOMAIN cache) /\ Cardinality(DOMAIN cache) \in Nat
  BY <1>3, <1>4, SetToSeqsOrder, FS_CardinalityType
<1>6. [k \in DOMAIN order |-> cache[order[k]]] \in Seq(Range(cache))
  BY <1>3, <1>4, <1>5, SetToSeqsOrder, FunctionIsSeq DEF Range
<1>7. << >> \o [k \in DOMAIN order |-> cache[order[k]]] = [k \in DOMAIN order |-> cache[order[k]]]
  BY <1>6, ConcatEmptySeq
<1>8. /\ DOMAIN ccfg' = {"nodes", "etcdNodes", "certSans"}
      /\ ccfg'.nodes = [k \in DOMAIN order |-> cache[order[k]]]
  BY <1>2, <1>3, <1>7
<1>9. NodesFromCache'
  BY <1>1, <1>3, <1>8 DEF NodesFromCache
<1>10. CacheInv'
  <2>1. \A ip : SeenRoles(ip)' = SeenRoles(ip)
    BY <1>1, SeenAtEnd DEF SeenRoles
  <2> QED
    BY <1>1, <1>2, <2>1 DEF CacheInv
<1> QED
  BY <1>1, <1>2, <1>8, <1>9, <1>10 DEF MergeInv, PcValues

\* The rest of toClusterdeploymentConfig leaves ccfg.Nodes as it is.
LEMMA MergeInvFinish ==
    ASSUME MergeInv, Finish
    PROVE  MergeInv'
<1>1. /\ pc = "finish" /\ pc' = "done"
      /\ UNCHANGED <<i, opts, conf, cache>>
  BY DEF Finish
<1>2. /\ i \in Nat \ {0}
      /\ DOMAIN ccfg = {"nodes", "etcdNodes", "certSans"}
      /\ ConfOK(conf) /\ CacheInv /\ NodesFromCache
  BY <1>1 DEF MergeInv
<1>3. DOMAIN ccfg' = DOMAIN ccfg /\ ccfg'.nodes = ccfg.nodes
  BY <1>2 DEF Finish
<1>4. NodesFromCache'
  BY <1>1, <1>2, <1>3 DEF NodesFromCache
<1>5. CacheInv'
  <2>1. \A ip : SeenRoles(ip)' = SeenRoles(ip)
    BY <1>1, SeenAtEnd DEF SeenRoles
  <2> QED
    BY <1>1, <1>2, <2>1 DEF CacheInv
<1> QED
  BY <1>1, <1>2, <1>3, <1>4, <1>5 DEF MergeInv, PcValues

LEMMA MergeInvStep == MergeInv /\ [Next]_vars => MergeInv'
<1> SUFFICES ASSUME MergeInv, [Next]_vars PROVE MergeInv'
  OBVIOUS
<1>1. CASE Template
  BY <1>1, MergeInvTemplate
<1>2. CASE TemplatePanics
  BY <1>2, MergeInvPanics
<1>3. ASSUME NEW role \in Roles, Iterate(role)
      PROVE  MergeInv'
  BY <1>3, MergeInvIterate
<1>4. ASSUME NEW role \in Roles, LoopDone(role)
      PROVE  MergeInv'
  BY <1>4, MergeInvLoopDone
<1>5. CASE CollectHosts
  BY <1>5, MergeInvCollect
<1>6. CASE Finish
  BY <1>6, MergeInvFinish
<1>7. CASE UNCHANGED vars
  BY <1>7 DEF vars, MergeInv, CacheInv, NodesFromCache, SeenRoles, ConfOK
<1> QED
  BY <1>1, <1>2, <1>3, <1>4, <1>5, <1>6, <1>7 DEF Next

\* At the end, the invariant gives the merge: ccfg.Nodes lists each cached
\* address once, and the cache holds the listed addresses with all their
\* roles.
LEMMA MergeInvMerged == MergeInv => HostsMergedByIP
<1> SUFFICES ASSUME MergeInv, pc = "done"
             PROVE  /\ Range(Addrs(ccfg.nodes)) = ListedIPs(conf)
                    /\ Distinct(Addrs(ccfg.nodes))
                    /\ \A k \in DOMAIN ccfg.nodes :
                           ccfg.nodes[k].type = RefRoles(conf, ccfg.nodes[k].addr)
  BY DEF HostsMergedByIP
<1>1. CacheInv /\ NodesFromCache
  BY DEF MergeInv
<1>2. \A ip : SeenRoles(ip) = RefRoles(conf, ip)
  BY SeenAtEnd DEF SeenRoles
<1>3. DOMAIN cache = ListedIPs(conf)
  BY <1>1, <1>2 DEF CacheInv, ListedIPs
<1>4. PICK order \in SetToSeqs(DOMAIN cache) :
          ccfg.nodes = [k \in DOMAIN order |-> cache[order[k]]]
  BY <1>1 DEF NodesFromCache
<1>5. IsFiniteSet(DOMAIN cache)
  BY <1>1, InputsAssumption, FS_Subset DEF CacheInv
<1>6. /\ \A k \in DOMAIN order : order[k] \in DOMAIN cache
      /\ \A a, b \in DOMAIN order : a # b => order[a] # order[b]
      /\ \A x \in DOMAIN cache : \E k \in DOMAIN order : order[k] = x
  BY <1>5, SetToSeqsOrder
<1>7. /\ DOMAIN Addrs(ccfg.nodes) = DOMAIN order
      /\ \A k \in DOMAIN order : Addrs(ccfg.nodes)[k] = order[k]
  BY <1>1, <1>4, <1>6 DEF Addrs, CacheInv
<1>8. Range(Addrs(ccfg.nodes)) = ListedIPs(conf)
  BY <1>3, <1>6, <1>7 DEF Range
<1>9. Distinct(Addrs(ccfg.nodes))
  BY <1>6, <1>7 DEF Distinct
<1>10. \A k \in DOMAIN ccfg.nodes :
           ccfg.nodes[k].type = RefRoles(conf, ccfg.nodes[k].addr)
  BY <1>1, <1>2, <1>4, <1>6 DEF CacheInv
<1> QED
  BY <1>8, <1>9, <1>10

\* fillHostConfig merges the entries of each IP, whatever lists name it,
\* into one host with the role bits of all those lists, and the loop over
\* the cache puts each host into ccfg.Nodes once: HostsMergedByIP holds in
\* every behaviour, for every set of addresses and every input config.
THEOREM HostsMerged == Spec => []HostsMergedByIP
<1>1. MergeInv => HostsMergedByIP
  BY MergeInvMerged
<1> QED
  BY MergeInvInit, MergeInvStep, <1>1, PTL DEF Spec

-----------------------------------------------------------------------------
(* The login of each cached host *)

\* One iteration keeps the login of every cached host: the masters loop
\* gives its address the login of the entry it visits, the other loops
\* keep the login of the host they find in the cache, or give a new
\* address the login of its first entry.
LEMMA LoginInvIterate ==
    ASSUME MergeInv, LoginInv, NEW role \in Roles, Iterate(role)
    PROVE  LoginInv'
<1> DEFINE L == RoleList(role, conf)
           u == L[i]
<1>1. /\ pc = role /\ i <= Len(L)
      /\ i' = i + 1
      /\ UNCHANGED <<pc, opts, conf, ccfg>>
  BY DEF Iterate
<1>2. /\ i \in Nat \ {0}
      /\ ConfOK(conf) /\ CacheInv
  BY <1>1 DEF MergeInv, Roles
<1>3. /\ L = RefLists(conf)[role]
      /\ L \in Seq(Entry)
      /\ conf.masters = RefLists(conf)["master"]
  BY <1>2, RoleListRef DEF RefLists
<1>4. i \in DOMAIN L /\ u \in Entry
  <2>1. i \in 1..Len(L)
    BY <1>1, <1>2, <1>3
  <2> QED
    BY <1>3, <2>1, ElementOfSeq
<1>5. PICK a \in IPs : a = u.ip
  BY <1>4 DEF Entry
<1>6. PICK g0 : g0 = HostFor(role, u, i)
  OBVIOUS
<1>7. PICK g2 : g2 = IterHost(g0, role, conf)
  OBVIOUS
<1>8. /\ DOMAIN g0 = HostFields
      /\ g0.addr = a
  BY <1>2, <1>5, <1>6, CommonHostFacts DEF HostFor, CacheInv
<1>9. /\ g2.addr = a
      /\ g2.name = g0.name /\ g2.port = g0.port
  BY <1>7, <1>8, IterationHostFacts
<1>10. /\ DOMAIN cache' = DOMAIN cache \cup {a}
       /\ cache'[a] = g2
       /\ \A ip \in DOMAIN cache \ {a} : cache'[ip] = cache[ip]
  BY <1>6, <1>7, <1>9 DEF Iterate, IterHost
<1>11. \A ip : SeenRoles(ip)' = SeenRoles(ip) \cup (IF a = ip THEN {role} ELSE {})
  BY <1>1, <1>2, <1>3, <1>5, SeenAfterIterate DEF SeenRoles
<1>12. role # "master" /\ a \in DOMAIN cache =>
           HasLogin(cache'[a], cache[a])
  BY <1>5, <1>6, <1>9, <1>10 DEF HostFor, HasLogin
<1>13. ~(role # "master" /\ a \in DOMAIN cache) =>
           HasLogin(cache'[a], LoginOf(role, i, u))
  <2>1. ~(role # "master" /\ a \in DOMAIN cache) =>
            g0 = CreateCommonHostConfig(u, DefaultName(NamePrefix[role], i))
    BY <1>5, <1>6 DEF HostFor
  <2> QED
    BY <1>9, <1>10, <2>1, CommonHostLogin DEF HasLogin
<1>14. \A r \in Roles, k \in Nat :
           VisitedAt(pc, i + 1, r, k) <=> VisitedAt(pc, i, r, k) \/ (r = role /\ k = i)
  BY <1>1, <1>2 DEF VisitedAt
<1>15. DOMAIN conf.masters \subseteq Nat
  BY <1>2 DEF ConfOK
<1>16. \A ip \in DOMAIN cache : LoginOK(ip)
  BY <1>1 DEF LoginInv, Roles
<1>17. SUFFICES ASSUME NEW ip \in DOMAIN cache'
               PROVE  IF "master" \in SeenRoles(ip)'
                      THEN \E k \in DOMAIN conf.masters :
                               /\ LastVisitedMaster(conf, pc, i + 1, ip, k)
                               /\ HasLogin(cache'[ip], LoginOf("master", k, conf.masters[k]))
                      ELSE \E r \in Roles : \E k \in DOMAIN RefLists(conf)[r] :
                               /\ FirstRole(SeenRoles(ip)', r)
                               /\ FirstOf(RefLists(conf)[r], ip, k)
                               /\ HasLogin(cache'[ip], LoginOf(r, k, RefLists(conf)[r][k]))
  BY <1>1 DEF LoginInv, LoginOK, Roles
<1>20. CASE ip # a
  <2>1. /\ ip \in DOMAIN cache /\ cache'[ip] = cache[ip]
        /\ SeenRoles(ip)' = SeenRoles(ip)
        /\ LoginOK(ip)
    BY <1>10, <1>11, <1>16, <1>20
  <2>2. CASE "master" \in SeenRoles(ip)
    <3>1. PICK k \in DOMAIN conf.masters :
              /\ LastVisitedMaster(conf, pc, i, ip, k)
              /\ HasLogin(cache[ip], LoginOf("master", k, conf.masters[k]))
      BY <2>1, <2>2 DEF LoginOK
    <3>2. VisitedAt(pc, i + 1, "master", k)
      BY <1>14, <1>15, <3>1 DEF LastVisitedMaster, Roles
    <3>3. ASSUME NEW j \in DOMAIN conf.masters, j > k,
                 VisitedAt(pc, i + 1, "master", j)
          PROVE  conf.masters[j].ip # ip
      <4>1. VisitedAt(pc, i, "master", j) \/ (role = "master" /\ j = i)
        BY <1>14, <1>15, <3>3 DEF Roles
      <4>2. CASE VisitedAt(pc, i, "master", j)
        BY <3>1, <3>3, <4>2 DEF LastVisitedMaster
      <4>3. CASE role = "master" /\ j = i
        BY <1>3, <1>5, <1>20, <4>3
      <4> QED
        BY <4>1, <4>2, <4>3
    <3>4. LastVisitedMaster(conf, pc, i + 1, ip, k)
      BY <3>1, <3>2, <3>3 DEF LastVisitedMaster
    <3> QED
      BY <2>1, <2>2, <3>1, <3>4
  <2>3. CASE "master" \notin SeenRoles(ip)
    <3>1. PICK r \in Roles : \E k \in DOMAIN RefLists(conf)[r] :
              /\ FirstRole(SeenRoles(ip), r)
              /\ FirstOf(RefLists(conf)[r], ip, k)
              /\ HasLogin(cache[ip], LoginOf(r, k, RefLists(conf)[r][k]))
      BY <2>1, <2>3 DEF LoginOK
    <3> QED
      BY <2>1, <2>3, <3>1
  <2> QED
    BY <2>2, <2>3
<1>21. CASE ip = a /\ role = "master"
  <2>1. "master" \in SeenRoles(a)'
    BY <1>11, <1>21
  <2>2. i \in DOMAIN conf.masters /\ conf.masters[i] = u /\ conf.masters[i].ip = a
    BY <1>3, <1>4, <1>5, <1>21
  <2>3. ASSUME NEW j \in DOMAIN conf.masters, j > i
        PROVE  ~VisitedAt(pc, i + 1, "master", j)
    <3>1. StageOf(pc) = RoleIndex("master")
      BY <1>1, <1>21 DEF StageOf, Roles
    <3> QED
      BY <1>1, <1>2, <1>15, <1>21, <2>3, <3>1, RoleIndexRange DEF VisitedAt, Roles
  <2>4. VisitedAt(pc, i + 1, "master", i)
    BY <1>1, <1>2, <1>21 DEF VisitedAt
  <2>5. LastVisitedMaster(conf, pc, i + 1, a, i)
    BY <2>2, <2>3, <2>4 DEF LastVisitedMaster
  <2>6. HasLogin(cache'[a], LoginOf("master", i, conf.masters[i]))
    BY <1>13, <1>21, <2>2
  <2> QED
    BY <1>21, <2>1, <2>2, <2>5, <2>6
<1>22. CASE ip = a /\ role # "master" /\ a \in DOMAIN cache
  <2>1. /\ SeenRoles(a)' = SeenRoles(a) \cup {role}
        /\ LoginOK(a)
        /\ HasLogin(cache'[a], cache[a])
    BY <1>11, <1>12, <1>16, <1>22
  <2>2. CASE "master" \in SeenRoles(a)
    <3>1. PICK k \in DOMAIN conf.masters :
              /\ LastVisitedMaster(conf, pc, i, a, k)
              /\ HasLogin(cache[a], LoginOf("master", k, conf.masters[k]))
      BY <2>1, <2>2 DEF LoginOK
    <3>2. \A j \in DOMAIN conf.masters :
              VisitedAt(pc, i + 1, "master", j) <=> VisitedAt(pc, i, "master", j)
      BY <1>14, <1>15, <1>22 DEF Roles
    <3>3. LastVisitedMaster(conf, pc, i + 1, a, k)
      BY <3>1, <3>2 DEF LastVisitedMaster
    <3> QED
      BY <1>22, <2>1, <2>2, <3>1, <3>3 DEF HasLogin
  <2>3. CASE "master" \notin SeenRoles(a)
    <3>1. PICK r \in Roles : \E k \in DOMAIN RefLists(conf)[r] :
              /\ FirstRole(SeenRoles(a), r)
              /\ FirstOf(RefLists(conf)[r], a, k)
              /\ HasLogin(cache[a], LoginOf(r, k, RefLists(conf)[r][k]))
      BY <2>1, <2>3 DEF LoginOK
    <3>2. RoleIndex(r) <= RoleIndex(role)
      BY <1>1, <3>1, SeenWithinStage DEF FirstRole, SeenRoles
    <3>3. FirstRole(SeenRoles(a)', r)
      BY <2>1, <3>1, <3>2 DEF FirstRole
    <3> QED
      BY <1>22, <2>1, <2>3, <3>1, <3>3 DEF HasLogin
  <2> QED
    BY <2>2, <2>3
<1>23. CASE ip = a /\ role # "master" /\ a \notin DOMAIN cache
  <2>1. SeenRoles(a) = {}
    BY <1>2, <1>5, <1>23 DEF CacheInv
  <2>2. SeenRoles(a)' = {role}
    BY <1>11, <2>1
  <2>3. ASSUME NEW j \in 1..i - 1
        PROVE  L[j].ip # a
    <3>1. j \in DOMAIN RefLists(conf)[role]
      BY <1>1, <1>2, <1>3
    <3>2. VisitedAt(pc, i, role, j)
      BY <1>1, <1>2 DEF VisitedAt
    <3> QED
      BY <1>1, <1>3, <2>1, <3>1, <3>2 DEF SeenRoles, Seen
  <2>4. FirstOf(RefLists(conf)[role], a, i)
    BY <1>3, <1>4, <1>5, <2>3 DEF FirstOf
  <2>5. FirstRole(SeenRoles(a)', role)
    BY <2>2, RoleIndexRange DEF FirstRole
  <2>6. HasLogin(cache'[a], LoginOf(role, i, RefLists(conf)[role][i]))
    BY <1>3, <1>13, <1>23
  <2> QED
    BY <1>3, <1>4, <1>23, <2>2, <2>4, <2>5, <2>6
<1> QED
  BY <1>20, <1>21, <1>22, <1>23

\* The end of a loop changes the pc and the index only: the entries
\* visited, and so the login each cached host must have, are the same.
LEMMA LoginInvLoopDone ==
    ASSUME MergeInv, LoginInv, NEW role \in Roles, LoopDone(role)
    PROVE  LoginInv'
<1>1. /\ pc = role /\ i > Len(RoleList(role, conf))
      /\ pc' = LoopNext(role) /\ i' = 1
      /\ UNCHANGED <<opts, conf, cache, ccfg>>
  BY DEF LoopDone, LoopNext
<1>2. i \in Nat /\ ConfOK(conf)
  BY <1>1 DEF MergeInv, Roles
<1>3. /\ i > Len(RefLists(conf)[role])
      /\ conf.masters = RefLists(conf)["master"]
  BY <1>1, <1>2, RoleListRef DEF RefLists
<1>4. pc' \notin {"template", "panic"}
  BY <1>1, RoleIndexValues DEF LoopNext, RoleOrder, Roles
<1>5. \A ip : SeenRoles(ip)' = SeenRoles(ip)
  BY <1>1, <1>2, <1>3, SeenAfterLoop DEF SeenRoles
<1>6. \A j \in DOMAIN conf.masters :
          VisitedAt(pc', i', "master", j) <=> VisitedAt(pc, i, "master", j)
  BY <1>1, <1>2, <1>3, VisitedAfterLoop DEF Roles
<1>7. \A ip, k : LastVisitedMaster(conf, pc', i', ip, k) <=>
                 LastVisitedMaster(conf, pc, i, ip, k)
  BY <1>6 DEF LastVisitedMaster
<1>8. \A ip \in DOMAIN cache : LoginOK(ip)
  BY <1>1 DEF LoginInv, Roles
<1>9. \A ip \in DOMAIN cache : LoginOK(ip)'
  BY <1>1, <1>5, <1>7, <1>8 DEF LoginOK
<1> QED
  BY <1>1, <1>9 DEF LoginInv

\* Past the four loops every entry is visited whatever the pc: collecting
\* the hosts and the rest of the conversion keep every login.
LEMMA LoginInvAfterLoops ==
    ASSUME MergeInv, LoginInv, CollectHosts \/ Finish
    PROVE  LoginInv'
<1>1. /\ pc \in {"collect", "finish"} /\ pc' \in {"finish", "done"}
      /\ UNCHANGED <<i, conf, cache>>
  BY DEF CollectHosts, Finish
<1>2. \A ip : SeenRoles(ip)' = SeenRoles(ip)
  <2>1. \A ip : SeenRoles(ip) = RefRoles(conf, ip)
    BY <1>1, SeenAtEnd DEF SeenRoles
  <2>2. \A ip : SeenRoles(ip)' = RefRoles(conf, ip)
    BY <1>1, SeenAtEnd DEF SeenRoles
  <2> QED
    BY <2>1, <2>2
<1>3. \A j : VisitedAt(pc', i', "master", j) /\ VisitedAt(pc, i, "master", j)
  BY <1>1, RoleIndexValues DEF VisitedAt, StageOf, Roles
<1>4. \A ip, k : LastVisitedMaster(conf, pc', i', ip, k) <=>
                 LastVisitedMaster(conf, pc, i, ip, k)
  BY <1>1, <1>3 DEF LastVisitedMaster
<1>5. \A ip \in DOMAIN cache : LoginOK(ip)
  BY <1>1 DEF LoginInv
<1>6. \A ip \in DOMAIN cache : LoginOK(ip)'
  BY <1>1, <1>2, <1>4, <1>5 DEF LoginOK
<1> QED
  BY <1>1, <1>6 DEF LoginInv

LEMMA LoginInvInit == Init => LoginInv
BY DEF Init, LoginInv

LEMMA LoginInvStep == MergeInv /\ LoginInv /\ [Next]_vars => LoginInv'
<1> SUFFICES ASSUME MergeInv, LoginInv, [Next]_vars PROVE LoginInv'
  OBVIOUS
<1>1. CASE Template \/ TemplatePanics
  <2>1. DOMAIN cache' = {}
    BY <1>1 DEF Template, TemplatePanics, MergeInv
  <2> QED
    BY <2>1 DEF LoginInv
<1>2. ASSUME NEW role \in Roles, Iterate(role)
      PROVE  LoginInv'
  BY <1>2, LoginInvIterate
<1>3. ASSUME NEW role \in Roles, LoopDone(role)
      PROVE  LoginInv'
  BY <1>3, LoginInvLoopDone
<1>4. CASE CollectHosts \/ Finish
  BY <1>4, LoginInvAfterLoops
<1>5. CASE UNCHANGED vars
  BY <1>5 DEF vars, LoginInv, LoginOK, SeenRoles, LastVisitedMaster
<1> QED
  BY <1>1, <1>2, <1>3, <1>4, <1>5 DEF Next

\* The origin RefOrigin chooses for an address named by a master entry is
\* its last master entry, the only one with no later entry of the address.
LEMMA OriginMaster ==
    ASSUME NEW c, NEW ip, DOMAIN c.masters \subseteq Nat,
           NEW k0 \in DOMAIN c.masters, c.masters[k0].ip = ip,
           \A j \in DOMAIN c.masters : j > k0 => c.masters[j].ip # ip
    PROVE  RefLogin(c, ip) = LoginOf("master", k0, c.masters[k0])
<1> DEFINE l == RefLists(c)["master"]
           P(k) == l[k].ip = ip /\ \A j \in DOMAIN l : j > k => l[j].ip # ip
<1>1. l = c.masters
  BY DEF RefLists
<1>2. Listed(c, "master", ip)
  BY <1>1 DEF Listed
<1>3. \A k \in DOMAIN l : P(k) => k = k0
  BY <1>1
<1>4. (CHOOSE k \in DOMAIN l : P(k)) = k0
  BY <1>1, <1>3
<1> QED
  BY <1>1, <1>2, <1>4 DEF RefLogin, RefOrigin, LoginOf

\* The origin of an address no master entry names is the first entry of
\* it in the list of its first role: the role is unique, since the loops
\* have distinct positions, and so is the entry.
LEMMA OriginOther ==
    ASSUME NEW c, NEW ip, ~Listed(c, "master", ip),
           NEW r0 \in Roles, FirstRole(RefRoles(c, ip), r0), ConfOK(c),
           NEW k0, FirstOf(RefLists(c)[r0], ip, k0)
    PROVE  RefLogin(c, ip) = LoginOf(r0, k0, RefLists(c)[r0][k0])
<1> DEFINE R == RefRoles(c, ip)
           l == RefLists(c)[r0]
           P(k) == l[k].ip = ip /\ \A j \in 1..k - 1 : l[j].ip # ip
<1>1. r0 # "master"
  BY DEF FirstRole, RefRoles
<1>2. \A x \in R : (\A y \in R : RoleIndex(x) <= RoleIndex(y)) => x = r0
  <2>1. \A x, y \in Roles : RoleIndex(x) = RoleIndex(y) => x = y
    BY RoleIndexValues DEF Roles
  <2>2. \A x \in Roles : RoleIndex(x) \in Nat
    BY RoleIndexRange
  <2> QED
    BY <2>1, <2>2 DEF FirstRole, RefRoles
<1>3. (CHOOSE x \in R : \A y \in R : RoleIndex(x) <= RoleIndex(y)) = r0
  BY <1>2 DEF FirstRole
<1>4. \A k \in DOMAIN l : P(k) => k = k0
  <2> SUFFICES ASSUME NEW k \in DOMAIN l, P(k) PROVE k = k0
    OBVIOUS
  <2>1. k \in Nat /\ k0 \in Nat /\ k >= 1 /\ k0 >= 1
    BY RoleListRef DEF FirstOf
  <2>2. ~(k < k0) /\ ~(k0 < k)
    BY <2>1 DEF FirstOf
  <2> QED
    BY <2>1, <2>2
<1>5. (CHOOSE k \in DOMAIN l : P(k)) = k0
  BY <1>4 DEF FirstOf
<1>6. RefOrigin(c, ip) = <<r0, k0, l[k0]>>
  BY <1>1, <1>3, <1>5 DEF RefOrigin
<1> QED
  BY <1>6 DEF RefLogin, LoginOf

\* At the end every host of ccfg.Nodes is a cached host, which has the
\* login of the entry RefOrigin names for its address.
LEMMA LoginInvHostLogin == MergeInv /\ LoginInv => HostLogin
<1> SUFFICES ASSUME MergeInv, LoginInv, pc = "done",
                    NEW k \in DOMAIN ccfg.nodes
             PROVE  /\ ccfg.nodes[k].name = RefLogin(conf, ccfg.nodes[k].addr).name
                    /\ ccfg.nodes[k].port = RefLogin(conf, ccfg.nodes[k].addr).port
  BY DEF HostLogin
<1>1. CacheInv /\ NodesFromCache /\ ConfOK(conf)
  BY DEF MergeInv
<1>2. \A a : SeenRoles(a) = RefRoles(conf, a)
  BY SeenAtEnd DEF SeenRoles
<1>3. PICK order \in SetToSeqs(DOMAIN cache) :
          ccfg.nodes = [n \in DOMAIN order |-> cache[order[n]]]
  BY <1>1 DEF NodesFromCache
<1>4. \A n \in DOMAIN order : order[n] \in DOMAIN cache
  <2>1. IsFiniteSet(DOMAIN cache)
    BY <1>1, InputsAssumption, FS_Subset DEF CacheInv
  <2> QED
    BY <2>1, SetToSeqsOrder
<1>5. PICK ip \in DOMAIN cache : ccfg.nodes[k] = cache[ip] /\ cache[ip].addr = ip
  BY <1>1, <1>3, <1>4 DEF CacheInv
<1>6. SUFFICES HasLogin(cache[ip], RefLogin(conf, ip))
  BY <1>5 DEF HasLogin
<1>7. LoginOK(ip)
  BY DEF LoginInv
<1>8. \A j : VisitedAt(pc, i, "master", j)
  BY RoleIndexValues DEF VisitedAt, StageOf, Roles
<1>9. DOMAIN conf.masters \subseteq Nat
  BY <1>1 DEF ConfOK
<1>10. CASE "master" \in SeenRoles(ip)
  <2>1. PICK k0 \in DOMAIN conf.masters :
            /\ LastVisitedMaster(conf, pc, i, ip, k0)
            /\ HasLogin(cache[ip], LoginOf("master", k0, conf.masters[k0]))
    BY <1>7, <1>10 DEF LoginOK
  <2>2. /\ conf.masters[k0].ip = ip
        /\ \A j \in DOMAIN conf.masters : j > k0 => conf.masters[j].ip # ip
    BY <1>8, <2>1 DEF LastVisitedMaster
  <2>3. RefLogin(conf, ip) = LoginOf("master", k0, conf.masters[k0])
    BY <1>9, <2>2, OriginMaster
  <2> QED
    BY <2>1, <2>3
<1>11. CASE "master" \notin SeenRoles(ip)
  <2>1. PICK r \in Roles : \E k0 \in DOMAIN RefLists(conf)[r] :
            /\ FirstRole(SeenRoles(ip), r)
            /\ FirstOf(RefLists(conf)[r], ip, k0)
            /\ HasLogin(cache[ip], LoginOf(r, k0, RefLists(conf)[r][k0]))
    BY <1>7, <1>11 DEF LoginOK
  <2>2. PICK k0 \in DOMAIN RefLists(conf)[r] :
            /\ FirstRole(RefRoles(conf, ip), r)
            /\ FirstOf(RefLists(conf)[r], ip, k0)
            /\ HasLogin(cache[ip], LoginOf(r, k0, RefLists(conf)[r][k0]))
    BY <1>2, <2>1
  <2>3. ~Listed(conf, "master", ip)
    BY <1>2, <1>11 DEF RefRoles, Roles
  <2>4. RefLogin(conf, ip) = LoginOf(r, k0, RefLists(conf)[r][k0])
    BY <1>1, <2>2, <2>3, OriginOther
  <2> QED
    BY <2>2, <2>4
<1> QED
  BY <1>10, <1>11

\* createCommonHostConfig names a host and sets its SSH port from the entry
\* that creates it: the masters loop creates a fresh host for every master
\* entry, so the last master entry of an address wins, and the other loops
\* reuse the cached host, so an address no master entry names keeps the
\* login of its first entry in the first list that names it.  HostLogin
\* holds in every behaviour, for every set of addresses and input config.
THEOREM HostLoginHolds == Spec => []HostLogin
<1>1. MergeInv /\ LoginInv => HostLogin
  BY LoginInvHostLogin
<1>2. Init => MergeInv /\ LoginInv
  BY MergeInvInit, LoginInvInit
<1>3. MergeInv /\ LoginInv /\ [Next]_vars => MergeInv' /\ LoginInv'
  BY MergeInvStep, LoginInvStep
<1> QED
  BY <1>1, <1>2, <1>3, PTL DEF Spec

=============================================================================
