\* The sequencer over every configuration of MCConfigs, when runs are placed and
\* workloads complete.
SPECIFICATION FairSpec
CONSTANTS
    Configs <- MCConfigs
    OpBatches <- MCOpBatches
    MaxOps = 5
    MaxRollbacks = 2
INVARIANTS TypeOK SnapshotIsCheckpoint StartsFromCheckpoint WorkAccounted WorkloadsJustified
    OnlyTrainingTakenBack
PROPERTIES ImplementsProgress OperationsComplete
\* A trial that has nothing more to do stops.
CHECK_DEADLOCK FALSE
