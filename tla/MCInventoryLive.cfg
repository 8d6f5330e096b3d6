CONSTANTS
    s1 = s1
    s2 = s2
    Info <- Appearances
    NetClass = "net"
    NoValue = NoValue
    Hosts <- TwoHosts
    Selectors <- MlxOrEth
    HcaMax = 2
    Streams <- TwoStreams
    Room = 2
    UseCdi = TRUE
    CdiFails = TRUE
    Orphans = FALSE
SPECIFICATION FairSpec
INVARIANT
    NoLostUpdate
PROPERTIES
    ViewIsCurrent
    DiscoveryWaitsOnlyForReaders
    OfferConverges
    ViewConverges
