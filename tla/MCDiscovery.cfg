SPECIFICATION Spec
CONSTANTS
    t1 = t1
    t2 = t2
    yard = yard
    System = System
    Fields <- MCFields
    Default <- MCDefault
    Allowed <- MCAllowed
    Overrides <- MCOverrides
    Written <- MCWritten
    MaxEdits = 3
    Ids <- MCIds
    Threads <- MCThreads
    MaxLiveEdits = 1
    MaxRevs = 2
SYMMETRY Symmetry
CHECK_DEADLOCK FALSE
INVARIANTS
    TypeOK
    SettingsHold
    EnvStaysOut
    EntitiesMatch
    EntitiesReturn
