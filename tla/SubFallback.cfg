SPECIFICATION FairSpec
VIEW View
CONSTANTS
    None = None
    Releases <- TwoReleases
    Ids <- NineIds
    Kinds <- FirstAndSecond
    ImportInRun <- RunAnywhere
    ImportInPass <- PassAtRest
    MaxFaults = 1
INVARIANTS
    TypeOK
    NotedStaysListed
    MemoHidesNone
PROPERTIES
    TextBelongs
    GraceRespected
    FixedIsFinished
    EndsConsolidated
