-------------------------------- MODULE Configs --------------------------------
(***************************************************************************)
(* The conversion of the user's deploy config into the cluster deployment *)
(* config (src/cmd/configs.go): createDeployConfigTemplate, which writes  *)
(* the template eggo offers the user, and toClusterdeploymentConfig with  *)
(* fillHostConfig, which turns a deploy config into the list of hosts     *)
(* eggo installs, merging the roles of a machine by its IP.               *)
(*                                                                         *)
(* The program is sequential.  A step here is one iteration of one of the *)
(* loops of fillHostConfig (masters, nodes, etcds, loadbalances), the     *)
(* loop over the host cache, or the rest of toClusterdeploymentConfig;    *)
(* pc says which loop runs and i is its index (1-based; the Go index is   *)
(* i - 1).  The template, once written, is read back by loadDeployConfig; *)
(* the YAML round trip keeps every field modelled here.                   *)
(*                                                                         *)
(* Data is abstracted to what the properties tell apart: an IP is an      *)
(* element of IPs, a package is its name and type, a port is its number   *)
(* and protocol, and the host role bits (Type |= api.Master ...) are a    *)
(* set of roles.  Login fields (username, password, arch) behave like     *)
(* name and port and are left out.                                        *)
(***************************************************************************)
EXTENDS Integers, Sequences, SequencesExt, FiniteSets, TLC

CONSTANTS
    IPs,          \* the machine addresses the configs mention
    UserPorts,    \* non-default SSH ports a user may write
    Sans,         \* apiserver-cert-sans entries a user may write
    UserConfs,    \* deploy configs read from a user's file
    TemplateOpts, \* command-line options of "eggo template"
    Nil           \* nil: an IP list or a URL port not given, no opts or conf

\* The roles, named by their key in deployConfig.Packages.
Roles == {"master", "node", "etcd", "loadbalance"}

\* The order in which fillHostConfig's loops visit the roles.
RoleOrder == <<"master", "node", "etcd", "loadbalance">>

RoleIndex(r) == CHOOSE n \in 1..4 : RoleOrder[n] = r

ASSUME ConfigsAssumption == Nil \notin IPs

-----------------------------------------------------------------------------
(* Types *)

\* HostConfig of the deploy config; name "" and port 0 mean "not given".
\* The template writes the default names and port 22 into the file.
HostIn == [ip: IPs, name: STRING,
           port: UserPorts \cup {0, 22}]

\* api.Packages / Package: the name and the type (repo, pkg, binary).
Pkg == [name: STRING, type: {"repo", "pkg", "binary"}]

\* api.OpenPorts.
Port == [port: Nat, proto: {"tcp", "udp"}]

\* The apiserver endpoint as url.Parse sees it: whether it has a scheme
\* (a bare "ip:port" fails to parse) and the port after the last colon.
Endpoint == [scheme: BOOLEAN, port: Nat \cup {Nil}]

\* deployConfig, the fields fillHostConfig and the rest of the conversion read.
DeployConf == [masters: Seq(HostIn), nodes: Seq(HostIn), etcds: Seq(HostIn),
               loadbalances: Seq(HostIn), packages: [Roles -> Seq(Pkg)],
               endpoint: Endpoint, certSans: Seq(Sans)]

\* api.HostConfig as fillHostConfig builds it.
Host == [addr: IPs, name: STRING, port: Nat,
         type: SUBSET Roles, pkgs: Seq(Pkg), ports: Seq(Port)]

\* The options of "eggo template": each IP list is nil or given.
Opts == [masters: Seq(IPs) \cup {Nil}, nodes: Seq(IPs) \cup {Nil},
         loadbalancer: Seq(IPs) \cup {Nil}, etcds: Seq(IPs) \cup {Nil}]

VARIABLES
    pc,     \* which part of the conversion runs next
    i,      \* index of the running loop, 1-based
    opts,   \* the template options, or Nil when the user wrote the file
    conf,   \* the deploy config being converted, or Nil before the template
    cache,  \* the map from an IP to the host fillHostConfig built for it
    ccfg    \* the cluster config: hosts, etcd members and cert SANs

vars == <<pc, i, opts, conf, cache, ccfg>>

-----------------------------------------------------------------------------
(* The default tables of configs.go: the packages and open ports each role *)
(* installs on top of what the user asks for.                             *)

Repo(n) == [name |-> n, type |-> "repo"]
Tcp(p) == [port |-> p, proto |-> "tcp"]

DefaultPackages ==
    [master      |-> <<Repo("kubernetes-client"), Repo("kubernetes-master"),
                       Repo("kubernetes-kubeadm"), Repo("coredns"), Repo("tar")>>,
     node        |-> <<Repo("docker-engine"), Repo("iSulad"), Repo("kubernetes-client"),
                       Repo("kubernetes-node"), Repo("kubernetes-kubelet"), Repo("tar")>>,
     etcd        |-> <<Repo("etcd"), Repo("tar")>>,
     loadbalance |-> <<Repo("nginx"), Repo("tar")>>]

MasterExports == <<Tcp(6443), Tcp(10251), Tcp(10252), Tcp(53),
                   [port |-> 53, proto |-> "udp"], Tcp(9153)>>
NodeExports == <<Tcp(10250), Tcp(10256)>>
EtcdExports == <<Tcp(2379), Tcp(2380), Tcp(2381)>>

\* The default name prefix of each loop of fillHostConfig.
NamePrefix == [master |-> "k8s-master-", node |-> "k8s-node-",
               etcd |-> "etcd-", loadbalance |-> "k8s-loadbalance-"]

\* The name of the k-th host (1-based) of a list: prefix + strconv.Itoa(k - 1).
DefaultName(prefix, k) == prefix \o ToString(k - 1)

-----------------------------------------------------------------------------
(* Helpers of fillHostConfig *)

\* Mutant: the port parsed from the endpoint, without the 6443 fallback.
GetPortFromEndPointNoDefault(e) == e.port

\* getPortFromEndPoint: the port after the last ':' of the URL's host, or
\* 6443 when the endpoint does not parse as a URL or names no port.
GetPortFromEndPoint(e) ==
    IF e.scheme /\ e.port # Nil THEN e.port ELSE 6443

\* createCommonHostConfig: the user's name and port, or the defaults.
CreateCommonHostConfig(u, defaultName) ==
    [addr  |-> u.ip,
     name  |-> IF u.name # "" THEN u.name ELSE defaultName,
     port  |-> IF u.port # 0 THEN u.port ELSE 22,
     type  |-> {},
     pkgs  |-> <<>>,
     ports |-> <<>>]

PkgNames(pkgs) == {pkgs[k].name : k \in DOMAIN pkgs}

\* Mutant: user packages appended without looking for a package of that name.
AddUserPackagesAppend(pkgs, userPkgs) == pkgs \o userPkgs

\* addUserPackages: noDupPkgs maps each name already present to its last
\* index, computed once before the loop; a user package of such a name
\* overwrites that slot, any other is appended.
AddUserPackages(pkgs, userPkgs) ==
    LET noDup(n) == CHOOSE k \in DOMAIN pkgs :
                        /\ pkgs[k].name = n
                        /\ \A j \in DOMAIN pkgs : j > k => pkgs[j].name # n
        loop[k \in 0..Len(userPkgs)] ==
            IF k = 0 THEN pkgs
            ELSE LET p == userPkgs[k] IN
                 IF p.name \in PkgNames(pkgs)
                 THEN [loop[k - 1] EXCEPT ![noDup(p.name)] = p]
                 ELSE Append(loop[k - 1], p)
    IN loop[Len(userPkgs)]

\* portExist.
PortExist(openPorts, port) ==
    \E k \in DOMAIN openPorts : openPorts[k] = port

\* addPackagesAndExports: each port not yet open is appended (portExist
\* sees the ports appended so far); each default package whose name was
\* not present before the call is appended.
AddPackagesAndExports(h, pkgs, openPorts) ==
    LET portLoop[k \in 0..Len(openPorts)] ==
            IF k = 0 THEN h.ports
            ELSE IF PortExist(portLoop[k - 1], openPorts[k])
                 THEN portLoop[k - 1]
                 ELSE Append(portLoop[k - 1], openPorts[k])
    IN [h EXCEPT !.ports = portLoop[Len(openPorts)],
                 !.pkgs  = @ \o SelectSeq(pkgs, LAMBDA p : p.name \notin PkgNames(h.pkgs))]

\* The open ports each loop passes to addPackagesAndExports; the
\* loadbalance port is the apiserver endpoint's.
Exports(role, c) ==
    CASE role = "master"      -> MasterExports
      [] role = "node"        -> NodeExports
      [] role = "etcd"        -> EtcdExports
      [] role = "loadbalance" -> << Tcp(GetPortFromEndPoint(c.endpoint)) >>

\* Mutant: the etcds loop walks conf.Etcds even when it is empty.
EtcdHostsNoDefault(c) == c.etcds

\* "if no etcd configed, default to install to master".
EtcdHosts(c) == IF Len(c.etcds) = 0 THEN c.masters ELSE c.etcds

\* The host list each loop of fillHostConfig walks.
RoleList(role, c) ==
    CASE role = "master"      -> c.masters
      [] role = "node"        -> c.nodes
      [] role = "etcd"        -> EtcdHosts(c)
      [] role = "loadbalance" -> c.loadbalances

\* Mutant: the masters loop, too, reuses a host already cached for the IP.
HostForMasterCached(role, u, k) ==
    IF u.ip \in DOMAIN cache
    THEN cache[u.ip]
    ELSE CreateCommonHostConfig(u, DefaultName(NamePrefix[role], k))

\* Mutant: every loop creates a fresh host, as the masters loop does.
HostForNoCache(role, u, k) == CreateCommonHostConfig(u, DefaultName(NamePrefix[role], k))

\* The host an iteration works on: the masters loop always creates one; the
\* other loops take the host already cached for the IP, if any.
HostFor(role, u, k) ==
    IF role # "master" /\ u.ip \in DOMAIN cache
    THEN cache[u.ip]
    ELSE CreateCommonHostConfig(u, DefaultName(NamePrefix[role], k))

\* setStrArray receives the slice header by value: its appends reach only
\* its own copy, so the caller's slice is what it was.
SetStrArray(config, userConfig) == config

-----------------------------------------------------------------------------
(* createDeployConfigTemplate *)

\* The packages the template lists per role.  Of the node list only the
\* names the default tables also use are kept, with "conntrack-tools"
\* standing for the 23 others, and likewise "gd" for the loadbalance list:
\* the conversion treats every name no default table uses alike.
Pkgs(n, t) == [name |-> n, type |-> t]

TemplatePackages ==
    [master      |-> <<Pkgs("kubernetes-client", "pkg"), Pkgs("kubernetes-master", "pkg"),
                       Pkgs("kubernetes-kubeadm", "pkg"), Pkgs("coredns", "pkg"),
                       Pkgs("tar", "repo"), Pkgs("addons", "binary")>>,
     node        |-> <<Pkgs("conntrack-tools", "pkg"), Pkgs("tar", "repo"),
                       Pkgs("docker-engine", "pkg"), Pkgs("iSulad", "pkg"),
                       Pkgs("kubernetes-client", "pkg"), Pkgs("kubernetes-node", "pkg"),
                       Pkgs("kubernetes-kubelet", "pkg")>>,
     etcd        |-> <<Pkgs("etcd", "pkg"), Pkgs("tar", "repo")>>,
     loadbalance |-> <<Pkgs("nginx", "pkg"), Pkgs("gd", "pkg"), Pkgs("tar", "repo")>>]

\* getHostconfigs: one host per IP, named by the format and the index.
GetHostconfigs(prefix, ips) ==
    [k \in DOMAIN ips |-> [ip |-> ips[k], name |-> DefaultName(prefix, k), port |-> 22]]

\* An IP list of the options, or its default.
OrDefault(l, default) == IF l # Nil THEN l ELSE default

TemplateLBIPs(o) == OrDefault(o.loadbalancer, <<"192.168.0.1">>)

\* The deploy config createDeployConfigTemplate writes, once lbs[0] exists.
TemplateConf(o) ==
    LET masterIP == OrDefault(o.masters, <<"192.168.0.2">>)
        nodesIP  == OrDefault(o.nodes, <<"192.168.0.3", "192.168.0.4">>)
        etcdsIP  == OrDefault(o.etcds, masterIP)
        masters  == GetHostconfigs("k8s-master-", masterIP)
        etcds    == GetHostconfigs("etcd-", etcdsIP)
    IN [masters      |-> masters,
        nodes        |-> GetHostconfigs("k8s-node-", nodesIP),
        etcds        |-> IF Len(etcds) = 0 THEN masters ELSE etcds,
        loadbalances |-> GetHostconfigs("k8s-loadbalance-", TemplateLBIPs(o)),
        packages     |-> TemplatePackages,
        endpoint     |-> [scheme |-> TRUE, port |-> 6443],
        certSans     |-> <<>>]

\* The inputs: the addresses are finitely many and include the template's
\* defaults; a user's file and the template's flags parse into the types
\* above (loadDeployConfig, the cobra flags).
ASSUME InputsAssumption ==
    /\ IsFiniteSet(IPs)
    /\ {"192.168.0.1", "192.168.0.2", "192.168.0.3", "192.168.0.4"} \subseteq IPs
    /\ UserConfs \subseteq DeployConf
    /\ TemplateOpts \subseteq Opts

-----------------------------------------------------------------------------
(* The conversion *)

\* The default cluster config has no hosts, no etcd members and no SANs.
Init ==
    /\ \/ /\ opts = Nil
          /\ conf \in UserConfs
          /\ pc = "master"
       \/ /\ opts \in TemplateOpts
          /\ conf = Nil
          /\ pc = "template"
    /\ i = 1
    /\ cache = << >>   \* make(map[string]*api.HostConfig): no key
    /\ ccfg = [nodes |-> <<>>, etcdNodes |-> <<>>, certSans |-> <<>>]

\* createDeployConfigTemplate writes the template, read back by
\* loadDeployConfig for the conversion.
Template ==
    /\ pc = "template"
    /\ Len(TemplateLBIPs(opts)) > 0
    /\ conf' = TemplateConf(opts)
    /\ pc' = "master"
    /\ UNCHANGED <<i, opts, cache, ccfg>>

\* With an empty loadbalancer list, lbs is nil and lbs[0].Ip panics.
TemplatePanics ==
    /\ pc = "template"
    /\ Len(TemplateLBIPs(opts)) = 0
    /\ pc' = "panic"
    /\ UNCHANGED <<i, opts, conf, cache, ccfg>>

\* One iteration of the loop of fillHostConfig over the hosts of role:
\* the host gets the role bit, the user's packages of the role, then the
\* role's default packages and ports, and is cached under its address.
Iterate(role) ==
    /\ pc = role
    /\ i <= Len(RoleList(role, conf))
    /\ LET u  == RoleList(role, conf)[i]
           h0 == HostFor(role, u, i)
           h1 == [h0 EXCEPT !.type = @ \cup {role},
                            !.pkgs = AddUserPackages(@, conf.packages[role])]
           h2 == AddPackagesAndExports(h1, DefaultPackages[role], Exports(role, conf))
       IN cache' = [ip \in DOMAIN cache \cup {h2.addr} |->
                        IF ip = h2.addr THEN h2 ELSE cache[ip]]
    /\ i' = i + 1
    /\ UNCHANGED <<pc, opts, conf, ccfg>>

\* The loop over the hosts of role ends; the next one starts.
LoopDone(role) ==
    /\ pc = role
    /\ i > Len(RoleList(role, conf))
    /\ pc' = IF role = "loadbalance" THEN "collect"
             ELSE RoleOrder[RoleIndex(role) + 1]
    /\ i' = 1
    /\ UNCHANGED <<opts, conf, cache, ccfg>>

\* The loop "for _, v := range cache" of fillHostConfig: Go visits a map
\* in no fixed order, so the hosts may come out in any order.
CollectHosts ==
    /\ pc = "collect"
    /\ \E order \in SetToSeqs(DOMAIN cache) :
           ccfg' = [ccfg EXCEPT !.nodes = @ \o [k \in DOMAIN order |-> cache[order[k]]]]
    /\ pc' = "finish"
    /\ UNCHANGED <<i, opts, conf, cache>>

\* The loop "for _, node := range ccfg.Nodes" of toClusterdeploymentConfig:
\* each node whose type has the role bit is appended to the members.
MembersLoop(members, nodes, bit) ==
    LET loop[k \in 0..Len(nodes)] ==
            IF k = 0 THEN members
            ELSE IF bit \in nodes[k].type THEN Append(loop[k - 1], nodes[k])
                 ELSE loop[k - 1]
    IN loop

AppendMembers(members, nodes, bit) == MembersLoop(members, nodes, bit)[Len(nodes)]

\* Mutant: the members are picked by the master bit instead of the ETCD bit.
FinishByMasterBit ==
    /\ pc = "finish"
    /\ ccfg' = [ccfg EXCEPT
                  !.certSans  = SetStrArray(@, conf.certSans),
                  !.etcdNodes = AppendMembers(@, ccfg.nodes, "master")]
    /\ pc' = "done"
    /\ UNCHANGED <<i, opts, conf, cache>>

\* The rest of toClusterdeploymentConfig: the cert SANs go through
\* setStrArray, and every host with the ETCD bit becomes an etcd member,
\* in the order of ccfg.Nodes.  The other fields are copied or defaulted
\* one by one by setIfStrConfigNotEmpty and are left out.
Finish ==
    /\ pc = "finish"
    /\ ccfg' = [ccfg EXCEPT
                  !.certSans  = SetStrArray(@, conf.certSans),
                  !.etcdNodes = AppendMembers(@, ccfg.nodes, "etcd")]
    /\ pc' = "done"
    /\ UNCHANGED <<i, opts, conf, cache>>

Next ==
    \/ Template
    \/ TemplatePanics
    \/ \E role \in Roles : Iterate(role) \/ LoopDone(role)
    \/ CollectHosts
    \/ Finish

\* The conversion ends, in "done" or in "panic"; nothing runs after it.
Spec == Init /\ [][Next]_vars

-----------------------------------------------------------------------------
(* Properties *)

PcValues == {"template", "collect", "finish", "done", "panic"} \cup Roles

TypeOK ==
    /\ pc \in PcValues
    /\ i \in Nat \ {0}
    /\ opts \in Opts \cup {Nil}
    /\ conf \in DeployConf \cup {Nil}
    /\ DOMAIN cache \subseteq IPs
    /\ \A ip \in DOMAIN cache : cache[ip] \in Host
    /\ ccfg \in [nodes: Seq(Host), etcdNodes: Seq(Host), certSans: Seq(Sans)]

(***************************************************************************)
(* The reference the conversion is checked against, written from the      *)
(* config alone: the role lists (etcds defaulting to the masters), the    *)
(* roles of each IP, and the entry whose name and port a host keeps: the  *)
(* last master entry of its IP (the masters loop never reads the cache),  *)
(* else the first entry of the first later loop that lists it.            *)
(***************************************************************************)
RefLists(c) ==
    [master |-> c.masters, node |-> c.nodes, loadbalance |-> c.loadbalances,
     etcd   |-> IF c.etcds = <<>> THEN c.masters ELSE c.etcds]

Listed(c, r, ip) == \E k \in DOMAIN RefLists(c)[r] : RefLists(c)[r][k].ip = ip

RefRoles(c, ip) == {r \in Roles : Listed(c, r, ip)}

ListedIPs(c) == {ip \in IPs : RefRoles(c, ip) # {}}

RefOrigin(c, ip) ==
    LET r == IF Listed(c, "master", ip) THEN "master"
             ELSE CHOOSE x \in RefRoles(c, ip) :
                      \A y \in RefRoles(c, ip) : RoleIndex(x) <= RoleIndex(y)
        l == RefLists(c)[r]
        k == IF r = "master"
             THEN CHOOSE k \in DOMAIN l : l[k].ip = ip /\ \A j \in DOMAIN l : j > k => l[j].ip # ip
             ELSE CHOOSE k \in DOMAIN l : l[k].ip = ip /\ \A j \in 1..k - 1 : l[j].ip # ip
    IN <<r, k, l[k]>>

RefLogin(c, ip) ==
    LET o == RefOrigin(c, ip)
    IN [name |-> IF o[3].name # "" THEN o[3].name ELSE DefaultName(NamePrefix[o[1]], o[2]),
        port |-> IF o[3].port # 0 THEN o[3].port ELSE 22]

\* The type a host's package named n must have: the user's, from the last
\* of its roles (in loop order) whose user list names n, else the default.
RefPkgType(c, R, n) ==
    LET users == {r \in R : n \in PkgNames(c.packages[r])}
        last  == CHOOSE r \in users : \A s \in users : RoleIndex(s) <= RoleIndex(r)
        l     == c.packages[last]
    IN IF users = {} THEN "repo"
       ELSE l[CHOOSE k \in DOMAIN l : l[k].name = n].type

Distinct(s) == \A a, b \in DOMAIN s : a # b => s[a] # s[b]

Addrs(s) == [k \in DOMAIN s |-> s[k].addr]

\* fillHostConfig merges the entries of an IP, whatever loops list it, into
\* one host: the converted config has exactly one host per IP the config
\* names, with the role bits of every list naming it (the etcd bit on the
\* masters when no etcd is listed).  Wrong if a loop missed the cache or
\* a host were dropped or duplicated on the way to ccfg.Nodes.
HostsMergedByIP ==
    pc = "done" =>
        /\ Range(Addrs(ccfg.nodes)) = ListedIPs(conf)
        /\ Distinct(Addrs(ccfg.nodes))
        /\ \A k \in DOMAIN ccfg.nodes :
               ccfg.nodes[k].type = RefRoles(conf, ccfg.nodes[k].addr)

\* A host is reached with the name and SSH port of the entry that created
\* it: the last master entry of its IP, else the first entry of the first
\* later list naming it.  The name and port of every other entry of the IP
\* are ignored (createCommonHostConfig runs only on a cache miss).
HostLogin ==
    pc = "done" =>
        \A k \in DOMAIN ccfg.nodes :
            LET h == ccfg.nodes[k] IN
            /\ h.name = RefLogin(conf, h.addr).name
            /\ h.port = RefLogin(conf, h.addr).port

\* What eggo installs and opens on each host is what its roles ask for:
\* every default and user package of each of its roles by name, a package
\* the user lists keeping the user's type (defaults never replace it, a
\* later role's user list does), and each role's ports, each once.
\* (addUserPackages, addPackagesAndExports, portExist.)
InstallPlan ==
    pc = "done" =>
        \A k \in DOMAIN ccfg.nodes :
            LET h == ccfg.nodes[k]
                R == RefRoles(conf, h.addr)
            IN /\ PkgNames(h.pkgs) =
                      UNION {PkgNames(DefaultPackages[r]) \cup PkgNames(conf.packages[r]) : r \in R}
               /\ \A j \in DOMAIN h.pkgs : h.pkgs[j].type = RefPkgType(conf, R, h.pkgs[j].name)
               /\ Range(h.ports) = UNION {Range(Exports(r, conf)) : r \in R}
               /\ Distinct(h.ports)

\* The etcd cluster is made of exactly the hosts the etcd list names, or
\* the masters when it is empty, each once.  (The etcd bit set by the
\* etcds loop, read back through ccfg.Nodes by toClusterdeploymentConfig.)
EtcdMembership ==
    pc = "done" =>
        /\ Range(Addrs(ccfg.etcdNodes)) = {ip \in IPs : Listed(conf, "etcd", ip)}
        /\ Distinct(Addrs(ccfg.etcdNodes))

\* The apiserver-cert-sans the user writes reach the cluster config's
\* ControlPlane.ApiConf.CertSans (toClusterdeploymentConfig, setStrArray).
CertSansPropagated ==
    pc = "done" => Range(conf.certSans) \subseteq Range(ccfg.certSans)

=============================================================================
