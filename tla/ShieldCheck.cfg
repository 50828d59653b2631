SPECIFICATION Spec
CONSTANTS
    living = living
    bedroom = bedroom
    drift = drift
    None = None
    Devices <- TwoDevices
    Findings <- OneFinding
    AlertAt = 3
    MaxChanges = 4
    MaxFaults = 2
INVARIANTS
    TypeOK
    ToldIsStored
PROPERTIES
    NoticesAlternate
    AllIsKnown
