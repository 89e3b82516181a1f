SPECIFICATION FairSpec
CONSTANTS
    TailSize = 2
    InitLogs = {0, 3}
    MaxGrowth = 1
    MaxOffset = 3
    MaxFilters = 1
INVARIANTS TruePicture
PROPERTIES FollowsTheEnd ReachesTheStart
CHECK_DEADLOCK FALSE
