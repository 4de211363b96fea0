\* Stale reads: a recreated cluster may record a binding the cache still shows.
CONSTANTS
    m1 = m1
    m2 = m2
    m3 = m3
    c1 = c1
    c2 = c2
    Absent = Absent
    Machines <- MCMachines
    Clusters <- MCClusters
    MasterMatch <- MCMasterMatch
    Require <- MCRequire
    JobMayFail = FALSE
    ExternalJobDelete = FALSE
    StaleCache = TRUE
SPECIFICATION Spec
INVARIANTS
    BindingRefResolves
