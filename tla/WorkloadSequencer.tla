------------------------- MODULE WorkloadSequencer -------------------------
(***************************************************************************)
(* The trial workload sequencer (master/internal/trial_workload_sequencer. *)
(* go): it turns the operations a search method requests of one trial into *)
(* workloads for the trial's containers, keeps a snapshot of itself at the *)
(* latest checkpoint, and is rolled back to that snapshot when a run fails.*)
(*                                                                         *)
(* The environment is the trial actor (master/internal/trial.go) reduced   *)
(* to the calls it makes: containers are allocated and given Workload(),   *)
(* a completed workload is passed to WorkloadCompleted and then            *)
(* CompleteCachedCheckpoints, a suspended or idle run is checkpointed and  *)
(* terminated, a failed run rolls the sequencer back.                      *)
(*                                                                         *)
(* A Go slice index is a count of elements here: curOpIdx operations are   *)
(* complete and ops[curOpIdx + 1] is the current one.                      *)
(***************************************************************************)
EXTENDS Length, Sequences, FiniteSets

CONSTANTS
    Configs,        \* experiment configurations the sequencer may be created with
    OpBatches,      \* operation sequences one message of the searcher may request
    MaxOps,         \* bound: operations requested of the trial
    MaxRollbacks    \* max_restarts: failed runs after which the trial is retried

NoWorkload == [Kind |-> "NONE", StepID |-> 0, NumBatches |-> 0, TotalBatchesProcessed |-> 0]

Kinds == {"RUN_STEP", "COMPUTE_VALIDATION_METRICS", "CHECKPOINT_MODEL"}

Workloads ==
    [Kind : Kinds, StepID : Nat, NumBatches : Nat, TotalBatchesProcessed : Nat]

CheckpointWorkloads == {w \in Workloads : w.Kind = "CHECKPOINT_MODEL"}

Train(l) == [type |-> "Train", length |-> l]
Validate == [type |-> "Validate", length |-> [unit |-> "batches", units |-> 0]]
Checkpoint == [type |-> "Checkpoint", length |-> [unit |-> "batches", units |-> 0]]

\* Search methods request training of at least one unit.
Ops == [type : {"Train", "Validate", "Checkpoint"}, length : Lengths]

ConfigType ==
    [ctx : UnitContexts,
     minValidationPeriod : Lengths,
     minCheckpointPeriod : Lengths,
     checkpointPolicy : {"all", "best", "none"},
     schedulingUnit : Nat \ {0},
     performInitialValidation : BOOLEAN]

ASSUME ConfigAssumption ==
    /\ Configs \subseteq ConfigType
    /\ \A b \in OpBatches :
          /\ b \in Seq(Ops)
          /\ \A i \in 1 .. Len(b) : b[i].type = "Train" => b[i].length.units > 0
    /\ MaxOps \in Nat
    /\ MaxRollbacks \in Nat

\* A checkpoint is known by the workload that made it; NoWorkload stands for
\* none, or for the warm-start checkpoint a trial is created from.
SequencerStates ==
    [batchesTowardsCurrentOp : Nat,
     batchesSinceLastVal     : Nat,
     batchesSinceLastCkpt    : Nat,
     totalBatchesProcessed   : Nat,
     needInitialValidation   : BOOLEAN,
     needPostValidationCkpt  : BOOLEAN,
     exitingEarly            : BOOLEAN,
     gracefulStop            : BOOLEAN,
     curOpIdx                : Nat,
     curStepID               : Nat,
     latestCheckpoint        : CheckpointWorkloads \cup {NoWorkload},
     cachedCheckpoints       : SUBSET CheckpointWorkloads]

VARIABLES
    cfg,            \* the experiment's configuration
    ops,            \* operations requested so far, in order
    state,          \* trialWorkloadSequencerState
    snapshot,       \* latestCheckpointSequencerSnapshot
    trialIDValid,   \* SetTrialID was called
    earlyExit,      \* trial.earlyExit: a workload completed with an exit reason
    up,             \* the trial's containers are running
    running,        \* the workload they were sent, or NoWorkload
    rollbacks       \* failed runs so far

vars == <<cfg, ops, state, snapshot, trialIDValid, earlyExit, up, running, rollbacks>>

-----------------------------------------------------------------------------
(* Queries of a sequencer state s. *)

CurrentOp(s) == ops[s.curOpIdx + 1]

postGracefulStopCheckpointNeeded(s) == s.gracefulStop /\ s.batchesSinceLastCkpt # 0

\* Mutated form: the test for untaken checkpoints flipped.
PostValidationTestFlipped(s) == s.needPostValidationCkpt /\ s.batchesSinceLastCkpt = 0
postValidationCheckpointNeeded(s) == s.needPostValidationCkpt /\ s.batchesSinceLastCkpt # 0

minValidationNeeded(s) ==
    /\ cfg.minValidationPeriod.units # 0
    /\ EqualWithinBatch(cfg.minValidationPeriod, s.batchesSinceLastVal, cfg.ctx)

\* Mutated form: a period of zero units is not excepted.
MinCheckpointNeededAlways(s) ==
    EqualWithinBatch(cfg.minCheckpointPeriod, s.batchesSinceLastCkpt, cfg.ctx)

minCheckpointNeeded(s) ==
    /\ cfg.minCheckpointPeriod.units # 0
    /\ EqualWithinBatch(cfg.minCheckpointPeriod, s.batchesSinceLastCkpt, cfg.ctx)

\* Mutated form: early exits forgotten.
UpToDateIgnoringExit(s) == Len(ops) = s.curOpIdx

UpToDate(s) ==
    \/ Len(ops) = s.curOpIdx
    \/ s.exitingEarly /\ ~postGracefulStopCheckpointNeeded(s)

train(s, n) ==
    [Kind |-> "RUN_STEP", StepID |-> s.curStepID + 1, NumBatches |-> n,
     TotalBatchesProcessed |-> s.totalBatchesProcessed]

validate(s) ==
    [Kind |-> "COMPUTE_VALIDATION_METRICS", StepID |-> s.curStepID, NumBatches |-> 0,
     TotalBatchesProcessed |-> s.totalBatchesProcessed]

checkpoint(s) ==
    [Kind |-> "CHECKPOINT_MODEL", StepID |-> s.curStepID, NumBatches |-> 0,
     TotalBatchesProcessed |-> s.totalBatchesProcessed]

\* batchesUntilValNeeded, batchesUntilCkptNeeded: a period of zero units never ends.
MaxInt32 == 2147483647

batchesUntilValNeeded(s) ==
    IF cfg.minValidationPeriod.units = 0 THEN MaxInt32
    ELSE ToNearestBatch(cfg.minValidationPeriod, cfg.ctx) - s.batchesSinceLastVal

batchesUntilCkptNeeded(s) ==
    IF cfg.minCheckpointPeriod.units = 0 THEN MaxInt32
    ELSE ToNearestBatch(cfg.minCheckpointPeriod, cfg.ctx) - s.batchesSinceLastCkpt

min(a, b) == IF b < a THEN b ELSE a
max(a, b) == IF b > a THEN b ELSE a

\* Mutated form: the periods are not looked at.
BatchesThisStepNoPeriods(s) ==
    LET left == ToNearestBatch(CurrentOp(s).length, cfg.ctx) - s.batchesTowardsCurrentOp
    IN  max(min(left, cfg.schedulingUnit), 1)

\* The next step of the current training operation ends with the operation, a
\* period or the scheduling unit, and is at least one batch.
batchesThisStep(s) ==
    LET left == ToNearestBatch(CurrentOp(s).length, cfg.ctx) - s.batchesTowardsCurrentOp
        untilPeriod == min(batchesUntilValNeeded(s), batchesUntilCkptNeeded(s))
    IN  max(min(min(left, untilPeriod), cfg.schedulingUnit), 1)

\* Mutated form: a validation is not preceded by a checkpoint.
OpWorkloadNoCheckpoint(s) ==
    IF CurrentOp(s).type = "Train" THEN train(s, batchesThisStep(s))
    ELSE IF CurrentOp(s).type = "Validate" THEN validate(s)
    ELSE checkpoint(s)

\* What the current operation asks for, checkpointing before a validation.
OpWorkload(s) ==
    IF CurrentOp(s).type = "Train" THEN train(s, batchesThisStep(s))
    ELSE IF CurrentOp(s).type = "Validate" /\ s.batchesSinceLastCkpt = 0 THEN validate(s)
    ELSE checkpoint(s)

\* Workload(): the next workload of a sequencer that is not up to date.
Workload(s) ==
    LET checkpointFirst ==
            \/ postGracefulStopCheckpointNeeded(s)
            \/ postValidationCheckpointNeeded(s)
    IN  IF s.needInitialValidation \/ (~checkpointFirst /\ minValidationNeeded(s))
        THEN validate(s)
        ELSE IF checkpointFirst \/ minCheckpointNeeded(s)
        THEN checkpoint(s)
        ELSE OpWorkload(s)

\* Mutated form: a run is only checkpointed when it has more to do.
PrecloseOnlyUnfinished(s) == s.batchesSinceLastCkpt # 0 /\ trialIDValid /\ ~UpToDate(s)

\* PrecloseCheckpointWorkload() is not nil; it is then checkpoint(s).
PrecloseCheckpointNeeded(s) == s.batchesSinceLastCkpt # 0 /\ trialIDValid

-----------------------------------------------------------------------------
(* Updates of a sequencer state. *)

\* Mutated form: one batch early.
TrainOpDoneEarly(s, towards) ==
    /\ CurrentOp(s).type = "Train"
    /\ EqualWithinBatch(CurrentOp(s).length, towards + 1, cfg.ctx)

\* The current operation is training and the batches make up its length.
TrainOpDone(s, towards) ==
    /\ CurrentOp(s).type = "Train"
    /\ EqualWithinBatch(CurrentOp(s).length, towards, cfg.ctx)

runStepCompleted(s, w) ==
    LET towards == s.batchesTowardsCurrentOp + w.NumBatches
        opDone  == TrainOpDone(s, towards)
    IN  [s EXCEPT !.curStepID = @ + 1,
                  !.totalBatchesProcessed = @ + w.NumBatches,
                  !.batchesSinceLastVal = @ + w.NumBatches,
                  !.batchesSinceLastCkpt = @ + w.NumBatches,
                  !.batchesTowardsCurrentOp = IF opDone THEN 0 ELSE towards,
                  !.curOpIdx = IF opDone THEN @ + 1 ELSE @]

computeValidationMetricsCompleted(s, isBest) ==
    [s EXCEPT !.batchesSinceLastVal = 0,
              !.needInitialValidation = FALSE,
              !.needPostValidationCkpt =
                  \/ @
                  \/ /\ s.batchesSinceLastCkpt # 0
                     /\ \/ cfg.checkpointPolicy = "all"
                        \/ cfg.checkpointPolicy = "best" /\ isBest,
              !.curOpIdx = IF CurrentOp(s).type = "Validate" THEN @ + 1 ELSE @]

\* A checkpoint that no operation asked for yet is kept for the one that will.
checkpointModelCompleted(s, w) ==
    LET c == [s EXCEPT !.batchesSinceLastCkpt = 0,
                       !.needPostValidationCkpt = FALSE,
                       !.latestCheckpoint = w]
    IN  IF ~UpToDate(c) /\ CurrentOp(c).type = "Checkpoint"
        THEN [c EXCEPT !.curOpIdx = @ + 1]
        ELSE [c EXCEPT !.cachedCheckpoints = @ \cup {w}]

ExitedReasons == {"NONE", "ERRORED", "USER_CANCELED", "INVALID_HP"}

\* The workload's own effect on the state, once its exit reason is recorded.
KindCompleted(s, w, isBest) ==
    CASE w.Kind = "RUN_STEP"                   -> runStepCompleted(s, w)
      [] w.Kind = "COMPUTE_VALIDATION_METRICS" -> computeValidationMetricsCompleted(s, isBest)
      [] w.Kind = "CHECKPOINT_MODEL"           -> checkpointModelCompleted(s, w)

\* Mutated form: every validation retakes the snapshot.
RetakeAfterValidation(s, w) == w.Kind \in {"CHECKPOINT_MODEL", "COMPUTE_VALIDATION_METRICS"}

\* When snapshotState is called: after a checkpoint, and after a validation of a
\* model that is already checkpointed.
RetakesSnapshot(s, w) ==
    \/ w.Kind = "CHECKPOINT_MODEL"
    \/ w.Kind = "COMPUTE_VALIDATION_METRICS" /\ s.batchesSinceLastCkpt = 0

\* WorkloadCompleted, r holding the state and its snapshot.
WorkloadCompleted(r, w, reason, isBest) ==
    LET s == [r.state EXCEPT
                 !.exitingEarly = @ \/ reason # "NONE",
                 !.gracefulStop = @ \/ reason \in {"USER_CANCELED", "INVALID_HP"}]
        t == KindCompleted(s, w, isBest)
    IN  IF reason = "ERRORED"
        THEN [state |-> s, snapshot |-> r.snapshot]
        ELSE [state |-> t, snapshot |-> IF RetakesSnapshot(s, w) THEN t ELSE r.snapshot]

CompleteCachedCheckpoints(r) ==
    LET w == Workload(r.state)
        uncached == [r.state EXCEPT !.cachedCheckpoints = @ \ {w}]
    IN  IF ~UpToDate(r.state) /\ w \in r.state.cachedCheckpoints
        THEN WorkloadCompleted([state |-> uncached, snapshot |-> r.snapshot], w, "NONE", FALSE)
        ELSE r

-----------------------------------------------------------------------------
(* The trial's calls. *)

\* newTrialWorkloadSequencer
NewState(c) ==
    [batchesTowardsCurrentOp |-> 0, batchesSinceLastVal |-> 0,
     batchesSinceLastCkpt |-> 0, totalBatchesProcessed |-> 0,
     needInitialValidation |-> c.performInitialValidation,
     needPostValidationCkpt |-> FALSE, exitingEarly |-> FALSE, gracefulStop |-> FALSE,
     curOpIdx |-> 0, curStepID |-> 0, latestCheckpoint |-> NoWorkload,
     cachedCheckpoints |-> {}]

Init ==
    /\ cfg \in Configs
    /\ ops = <<>>
    /\ state = NewState(cfg)
    /\ snapshot = NewState(cfg)
    /\ trialIDValid = FALSE
    /\ earlyExit = FALSE
    /\ up = FALSE
    /\ running = NoWorkload
    /\ rollbacks = 0

Current == [state |-> state, snapshot |-> snapshot]

Become(r) == state' = r.state /\ snapshot' = r.snapshot

\* The searcher's operations for the trial arrive in one message.
OperationRequested(batch) ==
    /\ Len(ops) + Len(batch) <= MaxOps
    /\ ops' = ops \o batch
    /\ UNCHANGED <<cfg, state, snapshot, trialIDValid, earlyExit, up, running, rollbacks>>

\* processAllocated: the trial gets its ID, a cached checkpoint may satisfy the
\* current operation, and the containers start from LatestCheckpoint().
Allocated ==
    /\ ~up /\ ~earlyExit /\ ~UpToDate(state)
    /\ trialIDValid' = TRUE
    /\ Become(CompleteCachedCheckpoints(Current))
    /\ ~UpToDate(state')
    /\ up' = TRUE
    /\ running' = Workload(state')
    /\ UNCHANGED <<cfg, ops, earlyExit, rollbacks>>

\* processCompletedWorkload.  The harness reports USER_CANCELED from training
\* and validation only, and only a reported validation can be the best one.
Completed(reason, isBest) ==
    /\ up /\ running # NoWorkload
    /\ reason # "NONE" => running.Kind # "CHECKPOINT_MODEL" /\ ~isBest
    /\ isBest => running.Kind = "COMPUTE_VALIDATION_METRICS"
    /\ Become(CompleteCachedCheckpoints(WorkloadCompleted(Current, running, reason, isBest)))
    /\ earlyExit' = (earlyExit \/ reason # "NONE")
    /\ running' = NoWorkload
    /\ UNCHANGED <<cfg, ops, trialIDValid, up, rollbacks>>

\* sendNextWorkload, a workload to run.
Continue ==
    /\ up /\ running = NoWorkload
    /\ ~UpToDate(state)
    /\ running' = Workload(state)
    /\ UNCHANGED <<cfg, ops, state, snapshot, trialIDValid, earlyExit, up, rollbacks>>

\* sendNextWorkload, checkpointing a run that is being suspended or has nothing to do.
Preclose ==
    /\ up /\ running = NoWorkload
    /\ PrecloseCheckpointNeeded(state)
    /\ running' = checkpoint(state)
    /\ UNCHANGED <<cfg, ops, state, snapshot, trialIDValid, earlyExit, up, rollbacks>>

\* sendNextWorkload, terminating it: the containers exit as they were told.
Terminate ==
    /\ up /\ running = NoWorkload
    /\ ~PrecloseCheckpointNeeded(state)
    /\ up' = FALSE
    /\ UNCHANGED <<cfg, ops, state, snapshot, trialIDValid, earlyExit, running, rollbacks>>

\* Mutated form: a failed run starts over, and keeps its old snapshot.
RollBackToStart ==
    /\ up /\ rollbacks < MaxRollbacks
    /\ rollbacks' = rollbacks + 1
    /\ state' = NewState(cfg)
    /\ up' = FALSE
    /\ running' = NoWorkload
    /\ UNCHANGED <<cfg, ops, snapshot, trialIDValid, earlyExit>>

\* Mutated form: one retry too many.
RollBackOnceMore ==
    /\ up /\ rollbacks <= MaxRollbacks
    /\ rollbacks' = rollbacks + 1
    /\ state' = snapshot
    /\ up' = FALSE
    /\ running' = NoWorkload
    /\ UNCHANGED <<cfg, ops, snapshot, trialIDValid, earlyExit>>

\* terminated after a failure that is retried: RollBackSequencer.
RollBackSequencer ==
    /\ up /\ rollbacks < MaxRollbacks
    /\ rollbacks' = rollbacks + 1
    /\ state' = snapshot
    /\ up' = FALSE
    /\ running' = NoWorkload
    /\ UNCHANGED <<cfg, ops, snapshot, trialIDValid, earlyExit>>

\* terminated after the last failure: the workload that was due is passed to the
\* sequencer as errored, and the trial closes.
FailedForGood ==
    /\ up /\ rollbacks = MaxRollbacks
    /\ ~UpToDate(state) \/ PrecloseCheckpointNeeded(state)
    /\ LET w == IF ~UpToDate(state) THEN Workload(state) ELSE checkpoint(state)
       IN  Become(CompleteCachedCheckpoints(WorkloadCompleted(Current, w, "ERRORED", FALSE)))
    /\ earlyExit' = TRUE
    /\ up' = FALSE
    /\ running' = NoWorkload
    /\ UNCHANGED <<cfg, ops, trialIDValid, rollbacks>>

Next ==
    \/ \E batch \in OpBatches : OperationRequested(batch)
    \/ Allocated
    \/ \E reason \in ExitedReasons \ {"ERRORED"}, isBest \in BOOLEAN : Completed(reason, isBest)
    \/ Continue
    \/ Preclose
    \/ Terminate
    \/ RollBackSequencer
    \/ FailedForGood

Spec == Init /\ [][Next]_vars

\* The agents eventually run what they are sent, and the resource pool
\* eventually places a trial with work to do; failures are bounded by max_restarts.
FairSpec ==
    /\ Spec
    /\ WF_vars(Allocated)
    /\ WF_vars(Continue)
    /\ WF_vars(\E isBest \in BOOLEAN : Completed("NONE", isBest))

\* The abstract view: batches trained, and batches a checkpoint holds.
Progress == INSTANCE CheckpointedProgress
              WITH done <- state.totalBatchesProcessed,
                   durable <- snapshot.totalBatchesProcessed

-----------------------------------------------------------------------------
(* Properties. *)

TypeOK ==
    /\ cfg \in Configs
    /\ ops \in Seq(Ops)
    /\ state \in SequencerStates /\ snapshot \in SequencerStates
    /\ trialIDValid \in BOOLEAN /\ earlyExit \in BOOLEAN /\ up \in BOOLEAN
    /\ running \in Workloads \cup {NoWorkload}
    /\ rollbacks \in 0 .. MaxRollbacks

\* Rolling back loses exactly the batches trained since the latest checkpoint:
\* the snapshot is of a checkpointed model, the checkpoint that containers load
\* (LatestCheckpoint) is the one the snapshot was taken at, and the batches
\* counted since then are batchesSinceLastCkpt.
SnapshotIsCheckpoint ==
    /\ snapshot.batchesSinceLastCkpt = 0
    /\ snapshot.latestCheckpoint.TotalBatchesProcessed = snapshot.totalBatchesProcessed
    /\ state.latestCheckpoint = snapshot.latestCheckpoint
    /\ state.totalBatchesProcessed = snapshot.totalBatchesProcessed + state.batchesSinceLastCkpt

\* Containers are only started when nothing was trained since the checkpoint
\* they load, so no counted batch is missing from the model they train.
StartsFromCheckpoint == ~up /\ ~earlyExit => state.batchesSinceLastCkpt = 0

\* min_validation_period and min_checkpoint_period are the longest a trial is
\* trained without a validation or a checkpoint, to the nearest batch.
PeriodsRespected ==
    /\ cfg.minValidationPeriod.units # 0 =>
          state.batchesSinceLastVal <= ToNearestBatch(cfg.minValidationPeriod, cfg.ctx)
    /\ cfg.minCheckpointPeriod.units # 0 =>
          state.batchesSinceLastCkpt <= ToNearestBatch(cfg.minCheckpointPeriod, cfg.ctx)

\* The batches an operation is trained for when it completes.
OpBatchCount(op) ==
    IF op.type = "Train" THEN max(ToNearestBatch(op.length, cfg.ctx), 1) ELSE 0

\* The batches that the first n operations ask for.
BatchesAsked[n \in 0 .. Len(ops)] ==
    IF n = 0 THEN 0 ELSE BatchesAsked[n-1] + OpBatchCount(ops[n])

\* Every batch is trained for an operation: the total is what the completed
\* operations asked for plus the batches of the current one, whatever
\* suspensions and rollbacks happened.
WorkAccounted ==
    /\ state.curOpIdx <= Len(ops)
    /\ state.totalBatchesProcessed =
          BatchesAsked[state.curOpIdx] + state.batchesTowardsCurrentOp

\* A rollback takes back (and the searcher is told again of) training
\* operations only, and validations only when min_validation_period can
\* complete one before it is checkpointed; never a checkpoint operation.
TakenBack == {ops[i].type : i \in snapshot.curOpIdx + 1 .. state.curOpIdx}

OnlyTrainingTakenBack ==
    /\ snapshot.curOpIdx <= state.curOpIdx
    /\ "Checkpoint" \notin TakenBack
    /\ cfg.minValidationPeriod.units = 0 => "Validate" \notin TakenBack

\* A trial that was stopped gracefully is at most checkpointed before it ends.
NoTrainingAfterGracefulStop ==
    state.gracefulStop /\ running # NoWorkload => running.Kind = "CHECKPOINT_MODEL"

\* checkpoint_policy "all": training never continues from a validated model
\* that has not been checkpointed.
ValidatedModelIsCheckpointed ==
    (running.Kind = "RUN_STEP" /\ state.batchesSinceLastVal = 0
        /\ cfg.checkpointPolicy = "all" /\ state.totalBatchesProcessed > 0)
    => state.batchesSinceLastCkpt = 0

\* The sequencer implements CheckpointedProgress: training adds batches, a
\* checkpoint makes exactly what was trained durable, and the only step that
\* takes batches back returns to the durable count.
ImplementsProgress == Progress!Spec

\* Every requested operation completes unless the trial exits early.
OperationsComplete == <>[](UpToDate(state) \/ earlyExit)

\* Whatever workload is handed out was due and allowed: training stops where a
\* period ends, after a graceful stop, and at a validated model still to be saved.
WorkloadsJustified ==
    PeriodsRespected /\ NoTrainingAfterGracefulStop /\ ValidatedModelIsCheckpointed
=============================================================================
