SPECIFICATION FairSpec
CONSTANTS
    Kinds = {"tv", "movie"}
    Names <- MCNames
    Quality <- MCQuality
    Target <- MCTarget
    Doubtful = {"double.mkv"}
    Releases <- MCReleases
    ImportAt <- MCImportAt
    Rows <- MCRows
    MaxImports = 3
    MaxFaults = 1
    None = None
INVARIANTS
    TypeOK
PROPERTIES
    TrackedStays
    CopyRemains
    NothingDestroyed
    EndsResolvedOrTold
