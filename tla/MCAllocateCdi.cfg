CONSTANTS
    s1 = s1
    s2 = s2
    Info <- Appearances
    NetClass = "net"
    NoValue = NoValue
    Hosts <- AllHosts
    Selectors <- MlxOrEth
    HcaMax = 2
    Streams <- TwoStreams
    Room = 1
    UseCdi = TRUE
    CdiFails = FALSE
    Orphans = FALSE
SPECIFICATION Spec
INVARIANT AllocatesLatest
