\* Violation run: the user's apiserver cert SANs never reach the cluster config (setStrArray, configs.go:507).
CONSTANTS
    NilValue = NilValue
    Nil <- NilValue
    IPs <- MCIPs
    UserPorts = {2222}
    Sans = {"lb.example.com"}
    UserConfs <- MCUserConfs
    TemplateOpts <- MCTemplateOpts
SPECIFICATION Spec
CHECK_DEADLOCK FALSE
INVARIANT
    CertSansPropagated
