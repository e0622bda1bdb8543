SPECIFICATION MCSpec
CONSTANTS
    yard = yard
    p1 = p1
    t1 = t1
    t2 = t2
    t3 = t3
    Mqtt = Mqtt
    None = None
    Names <- MCNames
    Pages <- MCPages
    Threads <- MCThreads
PROPERTY StatusFollowsAudio
INVARIANTS
    TypeOK
    PageShowsStatus
    RetainedIsStatus
