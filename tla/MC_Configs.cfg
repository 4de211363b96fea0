\* The conversion of user configs and of templates: hosts merged by IP,
\* install plans and etcd membership.
CONSTANTS
    NilValue = NilValue
    Nil <- NilValue
    IPs <- MCIPs
    UserPorts = {2222}
    Sans = {"lb.example.com"}
    UserConfs <- MCUserConfs
    TemplateOpts <- MCTemplateOpts
SPECIFICATION Spec
\* The conversion is a terminating function: "done" and "panic" are final.
CHECK_DEADLOCK FALSE
INVARIANTS
    TypeOK
    HostsMergedByIP
    HostLogin
    InstallPlan
    EtcdMembership
