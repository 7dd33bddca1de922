SPECIFICATION FairTrackingSpec
CONSTANTS
    People = {p1}
    Times = {1, 2}
    MaxName = 2
    MaxBreaks = 2
    MaxCools = 1
    NoRow = NoRow
    Scenes <- PassScenes
CHECK_DEADLOCK FALSE
INVARIANTS
    NoDuplicates
    PurgedWithDevice
    EscalatesOnce
PROPERTIES
    Repaired
