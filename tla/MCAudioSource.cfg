SPECIFICATION FairSpec
CONSTANTS
    p1 = p1
    p2 = p2
    p3 = p3
    None = None
    Pids <- MCPids
INVARIANTS
    TypeOK
    OneTrackedFfmpeg
    StartsFromNothing
    DoneLeavesNoFfmpeg
PROPERTIES
    ExitIsRetried
    StopReturns
    StopEnds
