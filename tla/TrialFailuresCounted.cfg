\* A crash after a run that was preempted before its container connected.
SPECIFICATION Spec
CONSTANTS
    Configs <- MCConfigs
    OpBatches <- MCOpBatches
    MaxOps = 2
    MaxRollbacks = 1
    Ranks = {0}
    ExitReasons = {"NONE"}
    MaxCrashes = 1
    MaxPreempts = 1
    MaxPauses = 0
    MaxKills = 0
    CanCancel = FALSE
    LateDial = FALSE
    DBMayFail = FALSE
PROPERTIES
    FailuresCounted
\* A trial that closed, or has nothing to do, stops.
CHECK_DEADLOCK FALSE
