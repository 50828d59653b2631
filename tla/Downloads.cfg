SPECIFICATION FairSpec
CONSTANTS
    Downloads <- MCDownloads
    Takers <- MCTakers
    Covers <- MCCovers
    PageSize = 2
    MaxGrabs <- MCMaxGrabs
    MaxFaults = 1
    None = None
INVARIANTS
    TypeOK
PROPERTIES
    DirectIsUnclaimed
    ReapedIsUnaired
    StalledGoes
