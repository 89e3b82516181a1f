------------------------ MODULE MCWorkloadSequencer ------------------------
(* Small instances of WorkloadSequencer for TLC. *)
EXTENDS WorkloadSequencer

Batches(n) == [unit |-> "batches", units |-> n]
Records(n) == [unit |-> "records", units |-> n]
Epochs(n)  == [unit |-> "epochs", units |-> n]

Config(val, ckpt, policy, unit, initial) ==
    [ctx |-> [globalBatchSize |-> 2, recordsPerEpoch |-> 5],
     minValidationPeriod |-> val, minCheckpointPeriod |-> ckpt,
     checkpointPolicy |-> policy, schedulingUnit |-> unit,
     performInitialValidation |-> initial]

\* No period, periods that end inside and together with an operation, periods
\* in records and epochs that are not whole batches, every policy.
MCConfigs ==
    {Config(Batches(0), Batches(0), "all", 2, FALSE),
     Config(Batches(0), Records(5), "best", 2, TRUE),
     Config(Batches(2), Batches(3), "all", 3, FALSE),
     Config(Batches(3), Batches(0), "none", 2, TRUE),
     Config(Epochs(1), Batches(1), "best", 4, FALSE),
     Config(Records(3), Epochs(2), "all", 2, TRUE)}

\* What search methods request at once: train and validate, and (PBT) a
\* checkpoint before training on.
MCOpBatches ==
    {<<Train(Batches(3)), Validate>>,
     <<Train(Records(5)), Validate>>,
     <<Checkpoint, Train(Batches(1)), Validate>>}

\* A period below one batch.
TinyPeriodConfigs == {Config(Records(1), Batches(0), "none", 2, FALSE)}
=============================================================================
