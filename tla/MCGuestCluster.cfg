SPECIFICATION FairSpec
CONSTANTS
    None = None
    AskDHCP = AskDHCP
    VMs = {"g1", "g2", "u"}
    Machine <- MCMachine
    Projects <- MCProjects
    MaxPort = 65535
    LBs = {"l1", "l2"}
    Namespace = "ns"
    Wanted <- MCWanted
    Starts <- MCStarts
    Removable = {"gc"}
    Books <- MCBooks
    Lease <- MCLease
    Networks = {"net3"}
    Clusters = {"gc"}
    Types = {"vm", "cluster"}
    Checks <- MCChecks
    IPAMs = {"dhcp", "pool"}
INVARIANTS GuestTypeOK NoOrphans StaysWritable
PROPERTIES SparesMachines NetworkSticks OldVersionKeeps CleanupCompletes
CHECK_DEADLOCK FALSE
