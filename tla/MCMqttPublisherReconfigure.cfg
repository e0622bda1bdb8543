SPECIFICATION FairSpec
CONSTANTS
    here = here
    there = there
    h1 = h1
    h2 = h2
    Places <- MCPlaces
    Handlers <- MCHandlers
    Initial <- MCInitial
    MaxUpdates = 1
PROPERTY ReconfigureReturns
CHECK_DEADLOCK FALSE
