\* Scenario C: a failed deploy job should be replaced by a new one.
CONSTANTS
    m1 = m1
    m2 = m2
    m3 = m3
    c1 = c1
    c2 = c2
    Absent = Absent
    Machines <- MCMachines
    Clusters <- MCClusters
    MasterMatch <- MCMasterMatch
    Require <- MCRequire
    JobMayFail = TRUE
    ExternalJobDelete = FALSE
    StaleCache = FALSE
SPECIFICATION FairSpec
PROPERTIES
    FailedJobRetried
