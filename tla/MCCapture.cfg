SPECIFICATION Spec
CONSTANTS
    bark = bark
    howl = howl
    car = car
    None = None
    Labels <- MCLabels
    Listen <- MCListen
    DetectionThresholds <- MCDetectionThresholds
    NotifyThresholds <- MCNotifyThresholds
    DefaultThreshold = 3
    MaxScore = 3
    Margin = 1
    TopK = 2
    MayCrash = TRUE
    PreMax = 2
    PostNeeded = 2
    MaxChunks = 5
INVARIANTS
    TypeOK
    SnippetsAreContiguous
    PeakDecidesNotify
    TriggerThenEvent
    SavedBeforeTold
PROPERTIES
    CaptureKeepsIdentity
    KeepsPromise
CHECK_DEADLOCK FALSE
