SPECIFICATION FairSpec
CONSTANTS
    yard = yard
    shed = shed
    None = None
    Sources <- MCSources
    Sizes <- MCSizes
    MaxAge = 1
    MaxSpace = 1
    MaxTime = 2
    MaxCaptures = 3
INVARIANTS
    TypeOK
    RowsHaveFiles
    FilesHaveRows
    TableUnderCap
    SparesTheNew
PROPERTY ExpiredGo
