\* A websocket request that is handled after its container exited.
SPECIFICATION Spec
CONSTANTS
    Configs <- MCConfigs
    OpBatches <- MCOpBatches
    MaxOps = 2
    MaxRollbacks = 1
    Ranks = {0, 1}
    ExitReasons = {"NONE"}
    MaxCrashes = 1
    MaxPreempts = 0
    MaxPauses = 0
    MaxKills = 0
    CanCancel = FALSE
    LateDial = TRUE
    DBMayFail = FALSE
INVARIANTS
    AllReadyMeansConnected
\* A trial that closed, or has nothing to do, stops.
CHECK_DEADLOCK FALSE
