SPECIFICATION Spec
VIEW View
CONSTANTS
    None = None
    Slots <- RealOnly
    Texts <- RealTexts
    Releases <- LyingReleases
    VideoIds <- Many
    SidecarIds <- Few
    ImportAt = {"idle", "looking", "judging", "sweeping", "upgrading", "swapping", "full"}
    MayRace = FALSE
    MayFail = TRUE
INVARIANTS
    TypeOK
    SkipIsEarned
PROPERTIES
    RightSidecarSurvives
