CONSTANTS
    None = None
    Int64Limit = 2
    AskDHCP = AskDHCP
    lb1 = lb1
    lb2 = lb2
    pool1 = pool1
    pool2 = pool2
    LBs = {lb1, lb2}
    Pools = {pool1}
    IPs = {1, 2}
    RangeChoices <- OnePool
    LBSpecs <- SpecsP
    Preference <- PreferP
    ReadyPools = {pool1}
    UserOps = {"createLB", "deleteLB", "editPool"}
    PoolLag = TRUE
    MaxStaleLB = 0
    MaxEdits = 4
    MaxFaults = 0
    MaxCrashes = 0
SPECIFICATION Spec
SYMMETRY Symmetry
INVARIANT HistoryIsFree
PROPERTIES NoStealing ImplementsLeases
CHECK_DEADLOCK FALSE
