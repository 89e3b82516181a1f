------------------------------ MODULE MCTrial ------------------------------
(* Small instances of Trial for TLC. *)
EXTENDS Trial

Batches(n) == [unit |-> "batches", units |-> n]

MCConfig ==
    [ctx |-> [globalBatchSize |-> 1, recordsPerEpoch |-> 1],
     minValidationPeriod |-> Batches(0), minCheckpointPeriod |-> Batches(0),
     checkpointPolicy |-> "none", schedulingUnit |-> 1,
     performInitialValidation |-> FALSE]

MCConfigs == {MCConfig}

MCOpBatches ==
    {<<[type |-> "Train", length |-> Batches(1)],
       [type |-> "Validate", length |-> Batches(0)]>>}

TrainOnlyBatches == {<<[type |-> "Train", length |-> Batches(1)]>>}
=============================================================================
