CONSTANTS
    p1 = p1
    p2 = p2
    n1 = n1
    n2 = n2
    None = None
    Stale = Stale
    Unknown = Unknown
    Instances <- OneProcess
    Inodes <- OneInode
    WatchMode = TRUE
    Faults <- NoFaults
SPECIFICATION FairSpec
PROPERTY RefusedServerRestarts
