SPECIFICATION Spec
CONSTANTS
    bark = bark
    howl = howl
    car = car
    None = None
    Labels <- MCLabels
    Listen <- MCListen
    DetectionThresholds <- MCDetectionThresholds
    NotifyThresholds <- MCNotifyThresholds
    DefaultThreshold = 3
    MaxScore = 3
    Margin = 1
    TopK = 2
    MayCrash = FALSE
    PreMax = 2
    PostNeeded = 2
    MaxChunks = 4
INVARIANT TwoMessages
CHECK_DEADLOCK FALSE
