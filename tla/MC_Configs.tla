------------------------------ MODULE MC_Configs ------------------------------
(***************************************************************************)
(* Model-checking instance of Configs.  Four addresses, the ones the      *)
(* template uses by default.  The user configs put one IP under several   *)
(* roles (master and node, master and etcd by default, node and           *)
(* loadbalance), list a master twice, give a host a name and a port of    *)
(* its own, override default packages for some roles, and write the       *)
(* apiserver endpoint with and without a scheme and a port.  The template *)
(* options give each IP list as nil, empty, or one or two addresses.      *)
(***************************************************************************)
EXTENDS Configs, TLC

CONSTANT NilValue

MCIPs == {"192.168.0.1", "192.168.0.2", "192.168.0.3", "192.168.0.4"}

Plain(ip) == [ip |-> ip, name |-> "", port |-> 0]

\* Host entries: two plain ones and one with its own name and SSH port.
Entries == {Plain("192.168.0.1"), Plain("192.168.0.2"),
            [ip |-> "192.168.0.1", name |-> "lb-a", port |-> 2222]}

UpTo1(S) == {<<>>} \cup {<<e>> : e \in S}
UpTo2(S) == UpTo1(S) \cup {<<e, f>> : e, f \in S}

\* User package lists: "tar" and "kubernetes-client" are also default
\* packages of other roles, "socat" of none.
UserPkgChoices ==
    [master      : {<<>>, <<Pkgs("tar", "pkg")>>},
     node        : {<<>>, <<Pkgs("kubernetes-client", "binary"), Pkgs("socat", "pkg")>>},
     etcd        : {<<>>, <<Pkgs("tar", "binary")>>},
     loadbalance : {<<>>}]

MCUserConfs ==
    [masters      : UpTo2(Entries),
     nodes        : UpTo1(Entries),
     etcds        : UpTo1({Plain("192.168.0.2")}),
     loadbalances : UpTo1({Plain("192.168.0.1"), Plain("192.168.0.3")}),
     packages     : UserPkgChoices,
     endpoint     : {[scheme |-> TRUE, port |-> 8443], [scheme |-> TRUE, port |-> Nil],
                     [scheme |-> FALSE, port |-> 8443]},
     certSans     : {<<"lb.example.com">>}]

IPLists == {NilValue, <<>>, <<"192.168.0.2">>, <<"192.168.0.1", "192.168.0.2">>}

MCTemplateOpts == [masters: IPLists, nodes: IPLists, loadbalancer: IPLists, etcds: IPLists]

=============================================================================
