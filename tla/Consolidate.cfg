SPECIFICATION FairSpec
VIEW View
CONSTANTS
    None = None
    Slots <- AllSlots
    Texts <- SomeTexts
    Releases <- PlainReleases
    VideoIds <- Many
    SidecarIds <- Few
    ImportAt = {"idle", "looking", "sweeping", "upgrading", "swapping"}
    MayRace = FALSE
    MayFail = FALSE
PROPERTIES
    SidecarsAccountedFor
    RedundantIsCovered
    RightIsTakenUp
    NoDowngrade
