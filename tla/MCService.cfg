SPECIFICATION SvcSpec
CONSTANTS
    t1 = t1
    a = a
    b = b
    Uid = Uid
    UIDs = {Uid}
    Targets = {t1}
    UIDOf <- OneUID
    Options <- OnlyFast
    NoWorker = NoWorker
    NoOption = NoOption
    Pools = {a, b}
    AskDHCP = AskDHCP
    NoAddress = NoAddress
    Specs <- AllSpecs
    MaxFlips = 1
    MaxEdits = 1
INVARIANTS ServiceTypeOK GoneHasNoWorkers
PROPERTIES OnlyReportsMarkDown ProbersConverge HealthIsNotLost EventuallyServes
CHECK_DEADLOCK FALSE
