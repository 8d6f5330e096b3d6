CONSTANTS
    p1 = p1
    p2 = p2
    n1 = n1
    n2 = n2
    None = None
    Stale = Stale
    Unknown = Unknown
    Instances <- TwoProcesses
    Inodes <- TwoInodes
    WatchMode = FALSE
    Faults <- NoFaults
SPECIFICATION Spec
PROPERTY NameIsLostOnlyToReclaim
