SPECIFICATION LockSpec
CONSTANTS
    watcher = watcher
    scan = scan
    dedupe = dedupe
    Pipelines <- MCPipelines
    Dedupers <- MCDedupers
    NoInode = NoInode
    MaxInode = 3
    ReappearEarly = FALSE
    MayOrphan = FALSE
SYMMETRY Symmetry
CHECK_DEADLOCK FALSE
INVARIANTS
    WorkExclusion
    ChildUnderLock
