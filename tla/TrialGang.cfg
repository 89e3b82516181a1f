\* Two containers, one of which crashes.
SPECIFICATION Spec
CONSTANTS
    Configs <- MCConfigs
    OpBatches <- MCOpBatches
    MaxOps = 2
    MaxRollbacks = 1
    Ranks = {0, 1}
    ExitReasons = {"NONE"}
    MaxCrashes = 1
    MaxPreempts = 0
    MaxPauses = 0
    MaxKills = 0
    CanCancel = FALSE
    LateDial = FALSE
    DBMayFail = TRUE
INVARIANTS OneRunAtATime
\* A trial that closed, or has nothing to do, stops.
CHECK_DEADLOCK FALSE
