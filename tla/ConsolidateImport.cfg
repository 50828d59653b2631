SPECIFICATION Spec
VIEW View
CONSTANTS
    None = None
    Slots <- RealOnly
    Texts <- RealTexts
    Releases <- PlainReleases
    VideoIds <- Many
    SidecarIds <- Few
    ImportAt = {"committing"}
    MayRace = FALSE
    MayFail = FALSE
INVARIANTS
    FixedMeansConsolidated
