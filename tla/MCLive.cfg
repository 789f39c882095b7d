CONSTANTS
    None = None
    Int64Limit = 2
    AskDHCP = AskDHCP
    lb1 = lb1
    lb2 = lb2
    pool1 = pool1
    pool2 = pool2
    LBs = {lb1}
    Pools = {pool1}
    IPs = {1, 2}
    RangeChoices <- OnePoolFix
    LBSpecs <- SpecsP
    Preference <- PreferP
    ReadyPools = {pool1}
    UserOps = {"createLB", "deleteLB", "enqueue"}
    PoolLag = TRUE
    MaxStaleLB = 0
    MaxEdits = 4
    MaxFaults = 2
    MaxCrashes = 1
SPECIFICATION FairSpec
INVARIANTS OneAddressUnlessRaced
PROPERTIES ReleasedUnlessRaced EventuallyServed RemovalCompletes
CHECK_DEADLOCK FALSE
