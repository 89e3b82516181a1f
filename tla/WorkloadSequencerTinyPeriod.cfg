\* A min_validation_period of less than one batch.
SPECIFICATION FairSpec
CONSTANTS
    Configs <- TinyPeriodConfigs
    OpBatches <- MCOpBatches
    MaxOps = 2
    MaxRollbacks = 0
PROPERTIES
    OperationsComplete
CHECK_DEADLOCK FALSE
