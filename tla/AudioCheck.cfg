SPECIFICATION Spec
CONSTANTS
    film = film
    episode = episode
    None = None
    Files <- TwoFiles
    MaxAttempts = 2
    MaxItems = 2
    MaxVersions = 3
    MaxFaults = 2
INVARIANTS
    TypeOK
    GivesUpFairly
PROPERTIES
    MessageIsTrue
    SentOnce
    AllIsHeard
