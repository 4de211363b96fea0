\* Violation run: a deploy job deleted by someone else while JobRef names it stalls provisioning for good (part_001:674).
CONSTANTS
    m1 = m1
    m2 = m2
    m3 = m3
    c1 = c1
    c2 = c2
    Absent = Absent
    Machines <- MCMachines
    Clusters <- MCOneCluster
    MasterMatch <- MCMasterMatch
    Require <- MCRequire
    JobMayFail = FALSE
    ExternalJobDelete = TRUE
    StaleCache = TRUE
SPECIFICATION FairSpec
PROPERTIES
    ProvisioningCompletes
