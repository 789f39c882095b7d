CONSTANTS
    None = None
    Int64Limit = 2
    AskDHCP = AskDHCP
    lb1 = lb1
    lb2 = lb2
    pool1 = pool1
    pool2 = pool2
    LBs = {lb1}
    Pools = {pool1}
    IPs = {1, 2}
    RangeChoices <- OnePool
    LBSpecs <- SpecsP
    Preference <- PreferP
    ReadyPools = {pool1}
    UserOps = {"editPool", "createLB"}
    PoolLag = TRUE
    MaxStaleLB = 0
    MaxEdits = 2
    MaxFaults = 0
    MaxCrashes = 0
SPECIFICATION FairSpec
PROPERTIES StatusFollowsRanges
CHECK_DEADLOCK FALSE
