\* The connection cache: New, its SSH failures, and Finish.
CONSTANTS
    a1 = a1
    a2 = a2
    None = None
    Addrs <- MCAddrs
    NodeLists <- MCNodeLists
SPECIFICATION Spec
INVARIANTS
    NoRunnerLeak
