\* One container, a crash and a preemption at any time.
SPECIFICATION Spec
CONSTANTS
    Configs <- MCConfigs
    OpBatches <- MCOpBatches
    MaxOps = 2
    MaxRollbacks = 1
    Ranks = {0}
    ExitReasons = {"NONE"}
    MaxCrashes = 1
    MaxPreempts = 1
    MaxPauses = 0
    MaxKills = 1
    CanCancel = FALSE
    LateDial = FALSE
    DBMayFail = FALSE
INVARIANTS TypeOK CompletionsInOrder ModelInStepUnlessCancelled RestartsAreFailures
\* A trial that closed, or has nothing to do, stops.
CHECK_DEADLOCK FALSE
