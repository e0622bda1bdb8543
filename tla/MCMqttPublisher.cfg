SPECIFICATION FairSpec
CONSTANTS
    here = here
    there = there
    h1 = h1
    h2 = h2
    Places <- MCPlaces
    Handlers <- MCHandlers
    Initial <- MCInitial
    MaxUpdates = 2
INVARIANTS
    TypeOK
    FlagIsLink
    SettingsApply
PROPERTIES
    AnnouncedInTheEnd
    OnlyCallbackBlocks
CHECK_DEADLOCK FALSE
