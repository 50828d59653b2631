SPECIFICATION Spec
CONSTANTS
    scan = scan
    inline = inline
    None = None
    Workers <- TwoWorkers
    Releases <- SomeReleases
    ImportIn <- BeforeRendering
    SiblingIn <- BeforeTheSwap
    MaxFaults = 3
INVARIANTS
    TypeOK
    NothingLost
    EncodedOnce
PROPERTIES
    BegunIsNormalized
CHECK_DEADLOCK FALSE
