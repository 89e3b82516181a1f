\* A trial that is paused, activated and cancelled at any time.
SPECIFICATION FairSpec
CONSTANTS
    Configs <- MCConfigs
    OpBatches <- TrainOnlyBatches
    MaxOps = 1
    MaxRollbacks = 1
    Ranks = {0}
    ExitReasons = {"NONE", "USER_CANCELED"}
    MaxCrashes = 0
    MaxPreempts = 0
    MaxPauses = 1
    MaxKills = 0
    CanCancel = TRUE
    LateDial = FALSE
    DBMayFail = FALSE
INVARIANTS StopsClean
PROPERTIES StatesHonoured WorkGetsDone
\* A trial that closed, or has nothing to do, stops.
CHECK_DEADLOCK FALSE
