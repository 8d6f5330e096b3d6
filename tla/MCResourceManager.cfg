CONSTANTS
    a = a
    b = b
    bad = bad
    dflt = dflt
    other = other
    none = none
    eth0 = eth0
    eth1 = eth1
    Names <- AnyName
    Prefixes <- AnyPrefix
    Values <- AnyValue
    ValidNames = {a, b}
    NoPrefix = none
    DefaultPrefix = dflt
    ConfigLists <- Lists
    Intervals <- WrongOffOn
    UseCdi = TRUE
    Faults <- AnyFault
SPECIFICATION FairSpec
INVARIANTS
    TypeOK
    PoolsAreSeparate
    SpecsOfOwnPools
    ContainersGetTheirDevices
    NoUpdateWhileStopping
PROPERTY
    TermIsServed
