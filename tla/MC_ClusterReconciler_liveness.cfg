\* Liveness of provisioning for one cluster behind a lagging informer cache; jobs succeed.
CONSTANTS
    m1 = m1
    m2 = m2
    m3 = m3
    c1 = c1
    c2 = c2
    Absent = Absent
    Machines <- MCMachines
    Clusters <- MCOneCluster
    MasterMatch <- MCMasterMatch
    Require <- MCRequire
    JobMayFail = FALSE
    ExternalJobDelete = FALSE
    StaleCache = TRUE
SPECIFICATION FairSpec
PROPERTIES
    ProvisioningCompletes
