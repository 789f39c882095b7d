CONSTANTS
    None = None
    Int64Limit = 2
    AskDHCP = AskDHCP
    lb1 = lb1
    lb2 = lb2
    pool1 = pool1
    pool2 = pool2
    LBs = {lb1}
    Pools = {pool1}
    IPs = {1, 2}
    RangeChoices <- OnePoolFix
    LBSpecs <- SpecsP
    Preference <- PreferP
    ReadyPools = {pool1}
    UserOps = {"createLB", "enqueue"}
    PoolLag = TRUE
    MaxStaleLB = 1
    MaxEdits = 2
    MaxFaults = 0
    MaxCrashes = 0
SPECIFICATION Spec
SYMMETRY Symmetry
INVARIANTS BookedIsAllocated
CHECK_DEADLOCK FALSE
