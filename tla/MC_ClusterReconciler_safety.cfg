\* Safety of the reconciler with a fresh cache, failing jobs and
\* operators deleting deploy jobs.
CONSTANTS
    m1 = m1
    m2 = m2
    m3 = m3
    c1 = c1
    c2 = c2
    Absent = Absent
    Machines <- MCMachines
    Clusters <- MCClusters
    MasterMatch <- MCMasterMatch
    Require <- MCRequire
    JobMayFail = TRUE
    ExternalJobDelete = TRUE
    StaleCache = FALSE
SPECIFICATION Spec
SYMMETRY MachineSymmetry
INVARIANTS
    NoDoubleAllocation
    BindingMeetsRequirements
PROPERTIES
    AllocationRefinement
