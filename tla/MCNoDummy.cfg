SPECIFICATION SvcSpec
CONSTANTS
    t1 = t1
    a = a
    b = b
    Uid = Uid
    UIDs = {Uid}
    Targets = {t1}
    UIDOf <- OneUID
    Options <- OnlyFast
    NoWorker = NoWorker
    NoOption = NoOption
    Pools = {a, b}
    AskDHCP = AskDHCP
    NoAddress = NoAddress
    Specs <- OnlyChecked
    MaxFlips = 1
    MaxEdits = 1
INVARIANT SomeEndpointReady
CHECK_DEADLOCK FALSE
