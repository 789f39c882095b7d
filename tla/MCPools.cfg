CONSTANTS
    None = None
    Int64Limit = 2
    AskDHCP = AskDHCP
    lb1 = lb1
    lb2 = lb2
    pool1 = pool1
    pool2 = pool2
    LBs = {lb1}
    Pools = {pool1, pool2}
    IPs = {1, 2, 3}
    RangeChoices <- TwoPools
    LBSpecs <- SpecsAll
    Preference <- PreferQP
    ReadyPools = {pool1}
    UserOps = {"createLB", "editLB", "deleteLB", "createPool", "editPool", "annotatePool", "deletePool", "enqueue"}
    PoolLag = TRUE
    MaxStaleLB = 1
    MaxEdits = 3
    MaxFaults = 0
    MaxCrashes = 0
SPECIFICATION Spec
SYMMETRY Symmetry
INVARIANTS TypeOK Accounting AllocatedInRange BookedUnlessRaced
PROPERTIES AddressGivenUpFirst
CHECK_DEADLOCK FALSE
