CONSTANTS
    s1 = s1
    s2 = s2
    Info <- Appearances
    NetClass = "net"
    NoValue = NoValue
    Hosts <- AllHosts
    Selectors <- MlxOrEth
    HcaMax = 2
    Streams <- TwoStreams
    Room = 1
    UseCdi = FALSE
    CdiFails = FALSE
    Orphans = TRUE
SPECIFICATION Spec
SYMMETRY StreamSymmetry
INVARIANTS
    TypeOK
    DevsMatchSpec
    SelectsOnce
    AllocatesLatest
    OfferFollowsRule
PROPERTY
    ViewIsCurrent
