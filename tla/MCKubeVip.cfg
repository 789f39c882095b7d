SPECIFICATION FairSpec
CONSTANTS
    None = None
    Int64Limit = 16
    AskDHCP = AskDHCP
    Undecodable = Undecodable
    user1 = user1
    user2 = user2
    startup = startup
    Users = {user1, user2}
    Startup = startup
    Clients = {user1, user2, startup}
    Pools = {"n1", "global"}
    Specs <- MCSpecs
    UserSpecs <- MCUserSpecs
    Histories <- MCHistories
    Configs <- MCConfigs
    IPs = {1, 5}
    Requirements <- MCRequirements
    Balancers <- MCBalancers
    Vids <- MCVids
    MaxHost = 4
    MaxEdits <- MCMaxEdits
    MaxFaults <- MCMaxFaults
INVARIANTS TypeOK ConflictsAreRaces StatusWritesPass ChoiceIsClear AddressesSurviveUpgrade
PROPERTIES EventuallyStarted
CHECK_DEADLOCK FALSE
