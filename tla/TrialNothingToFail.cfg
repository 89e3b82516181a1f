\* A crash after the last operation completed, with no restarts left.
SPECIFICATION Spec
CONSTANTS
    Configs <- MCConfigs
    OpBatches <- MCOpBatches
    MaxOps = 2
    MaxRollbacks = 0
    Ranks = {0}
    ExitReasons = {"NONE"}
    MaxCrashes = 1
    MaxPreempts = 0
    MaxPauses = 0
    MaxKills = 0
    CanCancel = FALSE
    LateDial = FALSE
    DBMayFail = FALSE
INVARIANTS
    AlwaysSomethingToFail
\* A trial that closed, or has nothing to do, stops.
CHECK_DEADLOCK FALSE
