---------------------- MODULE WorkloadSequencerProofs ----------------------
(***************************************************************************)
(* Proofs about WorkloadSequencer, for every set of configurations, every  *)
(* set of operation batches and every bound.                               *)
(***************************************************************************)
EXTENDS WorkloadSequencer, WellFoundedInduction, TLAPS

(***************************************************************************)
(* The inductive invariant.  Sound(s, p) relates a sequencer state s and   *)
(* its snapshot p: the snapshot is of a checkpointed model, s is ahead of  *)
(* it by the batches since that checkpoint, no cached checkpoint is newer  *)
(* than the snapshot, and the operations between the two are ones a        *)
(* rollback may take back.                                                 *)
(***************************************************************************)
Untouched(s) == s.needInitialValidation => s.totalBatchesProcessed = 0

Sound(s, p) ==
    /\ s \in SequencerStates
    /\ p \in SequencerStates
    /\ s.curOpIdx <= Len(ops)
    /\ p.curOpIdx <= s.curOpIdx
    /\ p.batchesSinceLastCkpt = 0
    /\ p.latestCheckpoint.TotalBatchesProcessed = p.totalBatchesProcessed
    /\ s.latestCheckpoint = p.latestCheckpoint
    /\ s.totalBatchesProcessed = p.totalBatchesProcessed + s.batchesSinceLastCkpt
    /\ Untouched(s) /\ Untouched(p)
    /\ \A c \in s.cachedCheckpoints \cup p.cachedCheckpoints :
          c.TotalBatchesProcessed <= p.totalBatchesProcessed
    /\ \A i \in p.curOpIdx + 1 .. s.curOpIdx :
          /\ ops[i].type # "Checkpoint"
          /\ cfg.minValidationPeriod.units = 0 => ops[i].type # "Validate"

\* A workload w that is run in sequencer state s is one the sequencer chose in s.
Chosen(w, s) ==
    /\ w \in Workloads
    /\ w.TotalBatchesProcessed = s.totalBatchesProcessed
    /\ w.Kind = "RUN_STEP" =>
          s.curOpIdx < Len(ops) /\ w.NumBatches > 0 /\ ~s.needInitialValidation
    /\ w.Kind = "COMPUTE_VALIDATION_METRICS" =>
          /\ s.curOpIdx < Len(ops)
          /\ cfg.minValidationPeriod.units = 0 => s.batchesSinceLastCkpt = 0

Typed ==
    /\ cfg \in Configs
    /\ ops \in Seq(Ops)
    /\ trialIDValid \in BOOLEAN /\ earlyExit \in BOOLEAN /\ up \in BOOLEAN
    /\ rollbacks \in 0 .. MaxRollbacks

IInv ==
    /\ Typed
    /\ Sound(state, snapshot)
    /\ running # NoWorkload => Chosen(running, state)
    /\ up => trialIDValid
    /\ ~up /\ ~earlyExit => state.batchesSinceLastCkpt = 0

-----------------------------------------------------------------------------
(* Lengths. *)

\* ToNearestBatch of a configured length is a natural number, whatever its unit.
LEMMA ToNearestBatchType ==
    ASSUME NEW l \in Lengths, NEW ctx \in UnitContexts
    PROVE  ToNearestBatch(l, ctx) \in Nat
<1>1. RecordsOf(l, ctx) \in Nat
  BY DEF RecordsOf, Lengths, UnitContexts, Units
<1>2. \A a \in Nat, b \in Nat \ {0} : a \div b \in Nat
  OBVIOUS
<1> QED
  BY <1>1, <1>2 DEF ToNearestBatch, Lengths, UnitContexts

-----------------------------------------------------------------------------
(* Workload(). *)

\* A state that has operations left has a current operation.
LEMMA CurrentOpType ==
    ASSUME NEW s \in SequencerStates, s.curOpIdx < Len(ops), ops \in Seq(Ops)
    PROVE  CurrentOp(s) \in Ops
<1>1. s.curOpIdx \in Nat
  BY DEF SequencerStates
<1>2. s.curOpIdx + 1 \in 1 .. Len(ops)
  BY <1>1
<1> QED
  BY <1>2 DEF CurrentOp

\* The number of batches of the next training step is positive.
LEMMA BatchesThisStepType ==
    ASSUME NEW s \in SequencerStates, s.curOpIdx < Len(ops),
           cfg \in ConfigType, ops \in Seq(Ops)
    PROVE  batchesThisStep(s) \in Nat \ {0}
<1>1. CurrentOp(s).length \in Lengths
  BY CurrentOpType DEF Ops
<1>2. /\ ToNearestBatch(CurrentOp(s).length, cfg.ctx) \in Nat
      /\ ToNearestBatch(cfg.minValidationPeriod, cfg.ctx) \in Nat
      /\ ToNearestBatch(cfg.minCheckpointPeriod, cfg.ctx) \in Nat
  BY <1>1, ToNearestBatchType DEF ConfigType
<1>3. batchesUntilValNeeded(s) \in Int /\ batchesUntilCkptNeeded(s) \in Int
  BY <1>2 DEF batchesUntilValNeeded, batchesUntilCkptNeeded, MaxInt32, SequencerStates
<1> QED
  BY <1>2, <1>3 DEF batchesThisStep, min, max, SequencerStates, ConfigType

\* Workload() returns a workload for the batches trained so far; a training step
\* is not empty and follows the initial validation, and without a
\* min_validation_period a validation is of a checkpointed or untrained model.
LEMMA WorkloadChosen ==
    ASSUME NEW s \in SequencerStates, NEW p, Sound(s, p), s.curOpIdx < Len(ops),
           cfg \in ConfigType, ops \in Seq(Ops)
    PROVE  Chosen(Workload(s), s)
<1>1. batchesThisStep(s) \in Nat \ {0}
  BY BatchesThisStepType
<1>2. s.needInitialValidation => s.batchesSinceLastCkpt = 0
  BY DEF Sound, Untouched, SequencerStates
<1>3. /\ train(s, batchesThisStep(s)) \in Workloads
      /\ validate(s) \in Workloads
      /\ checkpoint(s) \in Workloads
  BY <1>1 DEF train, validate, checkpoint, Workloads, Kinds, SequencerStates
<1> QED
  BY <1>1, <1>2, <1>3
  DEF Chosen, Workload, OpWorkload, train, validate, checkpoint, minValidationNeeded

\* UpToDate() holds once every requested operation is complete.
LEMMA NotUpToDate ==
    ASSUME NEW s \in SequencerStates, ops \in Seq(Ops), s.curOpIdx <= Len(ops), ~UpToDate(s)
    PROVE  s.curOpIdx < Len(ops)
  BY DEF UpToDate, SequencerStates

-----------------------------------------------------------------------------
(* Updates. *)

\* A completed training step keeps the state sound and its snapshot as it was.
LEMMA RunStepSound ==
    ASSUME NEW s, NEW p, Sound(s, p), NEW w, Chosen(w, s), w.Kind = "RUN_STEP",
           cfg \in ConfigType, ops \in Seq(Ops)
    PROVE  /\ Sound(runStepCompleted(s, w), p)
           /\ runStepCompleted(s, w).totalBatchesProcessed = s.totalBatchesProcessed + w.NumBatches
<1> DEFINE t == runStepCompleted(s, w)
<1>1. s \in SequencerStates /\ w \in Workloads /\ s.curOpIdx < Len(ops) /\ w.NumBatches \in Nat
  BY DEF Sound, Chosen, Workloads
<1>2. t \in SequencerStates
  <2> DEFINE n == w.NumBatches
             towards == s.batchesTowardsCurrentOp + n
             toward2 == IF TrainOpDone(s, towards) THEN 0 ELSE towards
             idx2 == IF TrainOpDone(s, towards) THEN s.curOpIdx + 1 ELSE s.curOpIdx
  <2>0. toward2 \in Nat /\ idx2 \in Nat
    BY <1>1 DEF SequencerStates
  <2>1. /\ s.curStepID + 1 \in Nat
        /\ s.totalBatchesProcessed + n \in Nat
        /\ s.batchesSinceLastVal + n \in Nat
        /\ s.batchesSinceLastCkpt + n \in Nat
    BY <1>1, SMTT(20) DEF SequencerStates
  <2>2. t = [s EXCEPT !.curStepID = s.curStepID + 1,
                      !.totalBatchesProcessed = s.totalBatchesProcessed + n,
                      !.batchesSinceLastVal = s.batchesSinceLastVal + n,
                      !.batchesSinceLastCkpt = s.batchesSinceLastCkpt + n,
                      !.batchesTowardsCurrentOp = toward2,
                      !.curOpIdx = idx2]
    BY <1>1 DEF runStepCompleted, SequencerStates
  <2> HIDE DEF toward2, idx2, t, n, towards
  <2> QED
    BY <1>1, <2>0, <2>1, <2>2 DEF SequencerStates
<1>3. /\ t.totalBatchesProcessed = s.totalBatchesProcessed + w.NumBatches
      /\ t.batchesSinceLastCkpt = s.batchesSinceLastCkpt + w.NumBatches
      /\ t.latestCheckpoint = s.latestCheckpoint
      /\ t.cachedCheckpoints = s.cachedCheckpoints
      /\ t.needInitialValidation = s.needInitialValidation
      /\ t.curOpIdx \in {s.curOpIdx, s.curOpIdx + 1}
      /\ t.curOpIdx # s.curOpIdx => CurrentOp(s).type = "Train"
  BY <1>1 DEF runStepCompleted, TrainOpDone, SequencerStates
<1>4. \A i \in p.curOpIdx + 1 .. t.curOpIdx :
          /\ ops[i].type # "Checkpoint"
          /\ cfg.minValidationPeriod.units = 0 => ops[i].type # "Validate"
  <2> SUFFICES ASSUME NEW i \in p.curOpIdx + 1 .. t.curOpIdx
               PROVE  /\ ops[i].type # "Checkpoint"
                      /\ cfg.minValidationPeriod.units = 0 => ops[i].type # "Validate"
    OBVIOUS
  <2> HIDE DEF t
  <2>1. /\ s.curOpIdx \in Nat /\ p.curOpIdx \in Nat /\ t.curOpIdx \in Nat
        /\ p.curOpIdx <= s.curOpIdx
    BY <1>1, <1>2 DEF Sound, SequencerStates
  <2>2. i \in p.curOpIdx + 1 .. s.curOpIdx \/ (i = s.curOpIdx + 1 /\ t.curOpIdx # s.curOpIdx)
    BY <1>3, <2>1
  <2> QED
    BY <1>3, <2>2 DEF Sound, CurrentOp
<1> HIDE DEF t
<1>5. t.curOpIdx <= Len(ops) /\ p.curOpIdx <= t.curOpIdx
  <2>1. /\ s.curOpIdx \in Nat /\ p.curOpIdx \in Nat /\ Len(ops) \in Nat
        /\ p.curOpIdx <= s.curOpIdx
    BY <1>1 DEF Sound, SequencerStates
  <2> QED
    BY <1>1, <1>3, <2>1
<1>6. t.totalBatchesProcessed = p.totalBatchesProcessed + t.batchesSinceLastCkpt
  BY <1>1, <1>3 DEF Sound, SequencerStates
<1>7. Untouched(t)
  BY <1>3 DEF Untouched, Chosen
<1>8. Sound(t, p)
  BY <1>2, <1>3, <1>4, <1>5, <1>6, <1>7 DEF Sound
<1> QED
  BY <1>3, <1>8 DEF t

\* Recording an exit reason touches nothing that soundness is about.
LEMMA ExitSound ==
    ASSUME NEW s, NEW p, Sound(s, p), NEW b \in BOOLEAN, NEW c \in BOOLEAN
    PROVE  LET t == [s EXCEPT !.exitingEarly = b, !.gracefulStop = c]
           IN  Sound(t, p)
  BY DEF Sound, Untouched, SequencerStates

\* A completed validation keeps the state sound, against the old snapshot or, if
\* the model is checkpointed, against a snapshot of the new state.
LEMMA ValidationSound ==
    ASSUME NEW s, NEW p, Sound(s, p), NEW w, Chosen(w, s),
           w.Kind = "COMPUTE_VALIDATION_METRICS",
           NEW isBest \in BOOLEAN, cfg \in ConfigType, ops \in Seq(Ops)
    PROVE  LET t == computeValidationMetricsCompleted(s, isBest)
           IN  /\ s.batchesSinceLastCkpt # 0 => Sound(t, p)
               /\ s.batchesSinceLastCkpt = 0 => Sound(t, t)
               /\ t.totalBatchesProcessed = s.totalBatchesProcessed
<1> DEFINE t == computeValidationMetricsCompleted(s, isBest)
<1>1. s \in SequencerStates /\ p \in SequencerStates /\ s.curOpIdx < Len(ops)
  BY DEF Sound, Chosen
<1>2. t \in SequencerStates
  <2> DEFINE post == \/ s.needPostValidationCkpt
                     \/ /\ s.batchesSinceLastCkpt # 0
                        /\ \/ cfg.checkpointPolicy = "all"
                           \/ cfg.checkpointPolicy = "best" /\ isBest
             idx2 == IF CurrentOp(s).type = "Validate" THEN s.curOpIdx + 1 ELSE s.curOpIdx
  <2>1. post \in BOOLEAN
    OBVIOUS
  <2>2. idx2 \in Nat
    BY <1>1 DEF SequencerStates
  <2>3. t = [s EXCEPT !.batchesSinceLastVal = 0, !.needInitialValidation = FALSE,
                      !.needPostValidationCkpt = post, !.curOpIdx = idx2]
    BY <1>1 DEF computeValidationMetricsCompleted, SequencerStates
  <2> HIDE DEF post, idx2, t
  <2> QED
    BY <1>1, <2>1, <2>2, <2>3 DEF SequencerStates
<1>3. /\ t.totalBatchesProcessed = s.totalBatchesProcessed
      /\ t.batchesSinceLastCkpt = s.batchesSinceLastCkpt
      /\ t.latestCheckpoint = s.latestCheckpoint
      /\ t.cachedCheckpoints = s.cachedCheckpoints
      /\ t.needInitialValidation = FALSE
      /\ t.curOpIdx \in {s.curOpIdx, s.curOpIdx + 1}
      /\ t.curOpIdx # s.curOpIdx => CurrentOp(s).type = "Validate"
  BY <1>1 DEF computeValidationMetricsCompleted, SequencerStates
<1> HIDE DEF t
<1>4. ASSUME s.batchesSinceLastCkpt # 0 PROVE Sound(t, p)
  <2>1. cfg.minValidationPeriod.units # 0
    BY <1>4 DEF Chosen
  <2>2. \A i \in p.curOpIdx + 1 .. t.curOpIdx : ops[i].type # "Checkpoint"
    BY <1>1, <1>3, SMTT(20) DEF Sound, CurrentOp, SequencerStates
  <2>3. t.curOpIdx <= Len(ops) /\ p.curOpIdx <= t.curOpIdx
    BY <1>1, <1>3 DEF Sound, SequencerStates
  <2> QED
    BY <1>2, <1>3, <2>1, <2>2, <2>3 DEF Sound, Untouched
<1>5. ASSUME s.batchesSinceLastCkpt = 0 PROVE Sound(t, t)
  <2>1. t.curOpIdx <= Len(ops) /\ t.curOpIdx \in Nat
    BY <1>1, <1>3, SMTT(20) DEF Sound, SequencerStates
  <2>2. s.totalBatchesProcessed = p.totalBatchesProcessed
    BY <1>1, <1>5 DEF Sound, SequencerStates
  <2>3. \A i \in t.curOpIdx + 1 .. t.curOpIdx : FALSE
    BY <2>1
  <2>4. t.totalBatchesProcessed = t.totalBatchesProcessed + t.batchesSinceLastCkpt
    BY <1>2, <1>3, <1>5 DEF SequencerStates
  <2> QED
    BY <1>2, <1>3, <1>5, <2>1, <2>2, <2>3, <2>4 DEF Sound, Untouched
<1> QED
  BY <1>3, <1>4, <1>5 DEF t

\* A completed checkpoint makes the new state its own sound snapshot.
LEMMA CheckpointSound ==
    ASSUME NEW s, NEW p, Sound(s, p), NEW w, Chosen(w, s), w.Kind = "CHECKPOINT_MODEL",
           cfg \in ConfigType, ops \in Seq(Ops)
    PROVE  LET t == checkpointModelCompleted(s, w)
           IN  /\ Sound(t, t)
               /\ t.totalBatchesProcessed = s.totalBatchesProcessed
<1> DEFINE t == checkpointModelCompleted(s, w)
           c == [s EXCEPT !.batchesSinceLastCkpt = 0, !.needPostValidationCkpt = FALSE,
                          !.latestCheckpoint = w]
<1>1. /\ s \in SequencerStates /\ p \in SequencerStates
      /\ w \in CheckpointWorkloads
      /\ w.TotalBatchesProcessed = s.totalBatchesProcessed
  BY DEF Sound, Chosen, CheckpointWorkloads
<1>2. c \in SequencerStates /\ c.curOpIdx = s.curOpIdx
  BY <1>1 DEF SequencerStates
<1>3. ~UpToDate(c) => s.curOpIdx < Len(ops)
  BY <1>2, NotUpToDate DEF Sound
<1>4. t = IF ~UpToDate(c) /\ CurrentOp(c).type = "Checkpoint"
          THEN [c EXCEPT !.curOpIdx = @ + 1]
          ELSE [c EXCEPT !.cachedCheckpoints = @ \cup {w}]
  BY DEF checkpointModelCompleted
<1>5. t \in SequencerStates
  <2> HIDE DEF c, t
  <2>1. c.curOpIdx + 1 \in Nat /\ c.cachedCheckpoints \cup {w} \in SUBSET CheckpointWorkloads
    <3>1. c.curOpIdx \in Nat /\ c.cachedCheckpoints \in SUBSET CheckpointWorkloads
      BY <1>2 DEF SequencerStates
    <3> QED
      BY <1>1, <3>1
  <2>2. [c EXCEPT !.curOpIdx = @ + 1] \in SequencerStates
    BY <1>2, <2>1 DEF SequencerStates
  <2>3. [c EXCEPT !.cachedCheckpoints = @ \cup {w}] \in SequencerStates
    BY <1>2, <2>1 DEF SequencerStates
  <2> QED
    BY <1>4, <2>2, <2>3
<1>6. /\ t.totalBatchesProcessed = s.totalBatchesProcessed
      /\ t.batchesSinceLastCkpt = 0
      /\ t.latestCheckpoint = w
      /\ t.cachedCheckpoints \subseteq s.cachedCheckpoints \cup {w}
      /\ t.needInitialValidation = s.needInitialValidation
      /\ t.curOpIdx <= Len(ops)
  BY <1>1, <1>2, <1>3, <1>4, SMTT(20) DEF SequencerStates, Sound
<1> HIDE DEF t
<1>7. /\ t.totalBatchesProcessed \in Nat
      /\ p.totalBatchesProcessed <= t.totalBatchesProcessed
  BY <1>1, <1>5, <1>6 DEF Sound, SequencerStates
<1>8. \A i \in t.curOpIdx + 1 .. t.curOpIdx : FALSE
  BY <1>5 DEF SequencerStates
<1>9. \A d \in t.cachedCheckpoints : d.TotalBatchesProcessed <= t.totalBatchesProcessed
  <2> SUFFICES ASSUME NEW d \in s.cachedCheckpoints
               PROVE  d.TotalBatchesProcessed <= t.totalBatchesProcessed
    BY <1>1, <1>6, <1>7
  <2>1. d \in CheckpointWorkloads /\ p.totalBatchesProcessed \in Nat
    BY <1>1 DEF SequencerStates
  <2>2. d.TotalBatchesProcessed \in Nat
    BY <2>1 DEF CheckpointWorkloads, Workloads
  <2>3. d.TotalBatchesProcessed <= p.totalBatchesProcessed
    BY DEF Sound
  <2> QED
    BY <1>7, <2>1, <2>2, <2>3
<1>10. t.curOpIdx \in Nat
  BY <1>5 DEF SequencerStates
<1>11. Sound(t, t)
  BY <1>1, <1>5, <1>6, <1>7, <1>8, <1>9, <1>10 DEF Sound, Untouched
<1> QED
  BY <1>6, <1>11 DEF t

\* WorkloadCompleted keeps the state and the snapshot sound.  It changes the
\* totals only as a step of CheckpointedProgress would.
Grows(r, q) ==
    \/ /\ q.state.totalBatchesProcessed > r.state.totalBatchesProcessed
       /\ q.snapshot = r.snapshot
    \/ /\ q.state.totalBatchesProcessed = r.state.totalBatchesProcessed
       /\ \/ q.snapshot.totalBatchesProcessed = r.snapshot.totalBatchesProcessed
          \/ q.snapshot.totalBatchesProcessed = r.state.totalBatchesProcessed

\* WorkloadCompleted passes a chosen workload through its kind's lemma.
LEMMA WorkloadCompletedSound ==
    ASSUME NEW s, NEW p, Sound(s, p), NEW w, Chosen(w, s),
           NEW reason \in ExitedReasons, NEW isBest \in BOOLEAN,
           cfg \in ConfigType, ops \in Seq(Ops)
    PROVE  LET r == [state |-> s, snapshot |-> p]
               q == WorkloadCompleted(r, w, reason, isBest)
           IN  /\ Sound(q.state, q.snapshot)
               /\ q = [state |-> q.state, snapshot |-> q.snapshot]
               /\ Grows(r, q)
               /\ w.Kind # "RUN_STEP" =>
                     q.state.totalBatchesProcessed = s.totalBatchesProcessed
<1> DEFINE r == [state |-> s, snapshot |-> p]
           b == s.exitingEarly \/ reason # "NONE"
           c == s.gracefulStop \/ reason \in {"USER_CANCELED", "INVALID_HP"}
           e == [s EXCEPT !.exitingEarly = b, !.gracefulStop = c]
           t == KindCompleted(e, w, isBest)
           q == WorkloadCompleted(r, w, reason, isBest)
<1>1. s \in SequencerStates /\ b \in BOOLEAN /\ c \in BOOLEAN
  BY DEF Sound
<1>2. Sound(e, p)
  BY <1>1, ExitSound
<1>3. /\ e.totalBatchesProcessed = s.totalBatchesProcessed
      /\ e.batchesSinceLastCkpt = s.batchesSinceLastCkpt
      /\ e.curOpIdx = s.curOpIdx
      /\ e.needInitialValidation = s.needInitialValidation
  BY <1>1 DEF SequencerStates
<1>4. q = IF reason = "ERRORED" THEN [state |-> e, snapshot |-> p]
          ELSE [state |-> t, snapshot |-> IF RetakesSnapshot(e, w) THEN t ELSE p]
  BY DEF WorkloadCompleted
<1> HIDE DEF e
<1>5. Chosen(w, e)
  BY <1>3 DEF Chosen
<1> HIDE DEF t, q
<1>6. w \in Workloads /\ w.Kind \in Kinds /\ w.NumBatches \in Nat
  BY DEF Chosen, Workloads
<1>7. CASE reason = "ERRORED"
  BY <1>2, <1>3, <1>4, <1>7 DEF Grows, q
<1>8. CASE reason # "ERRORED" /\ w.Kind = "RUN_STEP"
  <2>1. t = runStepCompleted(e, w) /\ ~RetakesSnapshot(e, w)
    BY <1>8 DEF t, KindCompleted, RetakesSnapshot
  <2>2. Sound(t, p) /\ t.totalBatchesProcessed = e.totalBatchesProcessed + w.NumBatches
    BY <1>2, <1>5, <1>8, <2>1, RunStepSound
  <2>3. q = [state |-> t, snapshot |-> p]
    BY <1>4, <1>8, <2>1
  <2>4. t.totalBatchesProcessed > s.totalBatchesProcessed
    <3>1. w.NumBatches > 0 /\ s.totalBatchesProcessed \in Nat
      BY <1>1, <1>8 DEF Chosen, SequencerStates
    <3> QED
      BY <1>3, <1>6, <2>2, <3>1
  <2> QED
    BY <1>8, <2>2, <2>3, <2>4 DEF Grows, q
<1>9. CASE reason # "ERRORED" /\ w.Kind = "COMPUTE_VALIDATION_METRICS"
  <2>1. /\ t = computeValidationMetricsCompleted(e, isBest)
        /\ RetakesSnapshot(e, w) <=> e.batchesSinceLastCkpt = 0
    BY <1>9 DEF t, KindCompleted, RetakesSnapshot
  <2>2. /\ e.batchesSinceLastCkpt # 0 => Sound(t, p)
        /\ e.batchesSinceLastCkpt = 0 => Sound(t, t)
        /\ t.totalBatchesProcessed = e.totalBatchesProcessed
    BY <1>2, <1>5, <1>9, <2>1, ValidationSound
  <2>3. q = [state |-> t, snapshot |-> IF e.batchesSinceLastCkpt = 0 THEN t ELSE p]
    BY <1>4, <1>9, <2>1
  <2> QED
    BY <1>3, <2>2, <2>3 DEF Grows, q
<1>10. CASE reason # "ERRORED" /\ w.Kind = "CHECKPOINT_MODEL"
  <2>1. t = checkpointModelCompleted(e, w) /\ RetakesSnapshot(e, w)
    BY <1>10 DEF t, KindCompleted, RetakesSnapshot
  <2>2. Sound(t, t) /\ t.totalBatchesProcessed = e.totalBatchesProcessed
    BY <1>2, <1>5, <1>10, <2>1, CheckpointSound
  <2>3. q = [state |-> t, snapshot |-> t]
    BY <1>4, <1>10, <2>1
  <2> QED
    BY <1>3, <2>2, <2>3 DEF Grows, q
<1> QED
  BY <1>6, <1>7, <1>8, <1>9, <1>10 DEF Kinds

\* Completing a cached checkpoint keeps the state and the snapshot sound and
\* changes neither total: a cached checkpoint is never of a model that has been
\* trained on since the snapshot.
LEMMA CachedSound ==
    ASSUME NEW s, NEW p, Sound(s, p), cfg \in ConfigType, ops \in Seq(Ops)
    PROVE  LET q == CompleteCachedCheckpoints([state |-> s, snapshot |-> p])
           IN  /\ Sound(q.state, q.snapshot)
               /\ q.state.totalBatchesProcessed = s.totalBatchesProcessed
               /\ q.snapshot.totalBatchesProcessed = p.totalBatchesProcessed
<1> DEFINE r == [state |-> s, snapshot |-> p]
           q == CompleteCachedCheckpoints(r)
           w == Workload(s)
           d == [s EXCEPT !.cachedCheckpoints = @ \ {w}]
<1>1. s \in SequencerStates /\ p \in SequencerStates
  BY DEF Sound
<1>2. CASE UpToDate(s) \/ w \notin s.cachedCheckpoints
  BY <1>2 DEF CompleteCachedCheckpoints
<1>3. CASE ~UpToDate(s) /\ w \in s.cachedCheckpoints
  <2>1. Chosen(w, s)
    BY <1>1, <1>3, NotUpToDate, WorkloadChosen DEF Sound
  <2>2. d \in SequencerStates /\ Sound(d, p) /\ Chosen(w, d)
    <3> HIDE DEF w
    <3>1. d \in SequencerStates
      BY <1>1 DEF SequencerStates
    <3>2. /\ d.totalBatchesProcessed = s.totalBatchesProcessed
          /\ d.batchesSinceLastCkpt = s.batchesSinceLastCkpt
          /\ d.curOpIdx = s.curOpIdx
          /\ d.needInitialValidation = s.needInitialValidation
          /\ d.latestCheckpoint = s.latestCheckpoint
          /\ d.cachedCheckpoints \subseteq s.cachedCheckpoints
      BY <1>1 DEF SequencerStates
    <3> HIDE DEF d
    <3> QED
      BY <2>1, <3>1, <3>2 DEF Sound, Chosen, Untouched
  <2>3. q = WorkloadCompleted([state |-> d, snapshot |-> p], w, "NONE", FALSE)
    BY <1>3 DEF CompleteCachedCheckpoints
  <2>4. w.Kind = "CHECKPOINT_MODEL" /\ w.TotalBatchesProcessed <= p.totalBatchesProcessed
    BY <1>1, <1>3 DEF Sound, SequencerStates, CheckpointWorkloads
  <2>5. /\ d.totalBatchesProcessed = s.totalBatchesProcessed
        /\ d.totalBatchesProcessed \in Nat
        /\ p.totalBatchesProcessed \in Nat
        /\ d.batchesSinceLastCkpt \in Nat
        /\ d.totalBatchesProcessed = p.totalBatchesProcessed + d.batchesSinceLastCkpt
    BY <1>1, <2>2 DEF Sound, SequencerStates
  <2>6. s.totalBatchesProcessed = p.totalBatchesProcessed
    BY <2>1, <2>4, <2>5 DEF Chosen
  <2> HIDE DEF d, w, q
  <2>7. Sound(q.state, q.snapshot)
    BY <2>2, <2>3, WorkloadCompletedSound DEF ExitedReasons
  <2>8. Grows([state |-> d, snapshot |-> p], q)
    BY <2>2, <2>3, WorkloadCompletedSound DEF ExitedReasons
  <2>9. q.state.totalBatchesProcessed = s.totalBatchesProcessed
        /\ q.snapshot.totalBatchesProcessed = p.totalBatchesProcessed
    <3>0. w.Kind # "RUN_STEP" /\ "NONE" \in ExitedReasons /\ FALSE \in BOOLEAN
      BY <2>4 DEF ExitedReasons
    <3>1. q.state.totalBatchesProcessed = d.totalBatchesProcessed
      BY <2>2, <2>3, <3>0, WorkloadCompletedSound
    <3> QED
      BY <2>5, <2>6, <2>8, <3>1 DEF Grows
  <2> QED
    BY <2>7, <2>9 DEF q
<1> QED
  BY <1>2, <1>3

-----------------------------------------------------------------------------
(* The inductive invariant and what follows from it. *)

\* The configuration and the operations have the types the lemmas above assume.
LEMMA ConfigsTyped == ASSUME IInv PROVE cfg \in ConfigType /\ ops \in Seq(Ops)
  BY ConfigAssumption DEF IInv, Typed

\* A new sequencer is its own snapshot.
LEMMA InitIInv == Init => IInv
<1> SUFFICES ASSUME Init PROVE IInv
  OBVIOUS
<1>1. cfg \in ConfigType /\ ops = <<>> /\ Len(ops) = 0 /\ ops \in Seq(Ops)
  BY ConfigAssumption DEF Init
<1>2. NewState(cfg) \in SequencerStates
  BY <1>1 DEF NewState, SequencerStates, ConfigType, NoWorkload
<1>3. Sound(NewState(cfg), NewState(cfg))
  BY <1>1, <1>2 DEF Sound, Untouched, NewState, NoWorkload
<1>4. Typed
  <2>1. 0 \in 0 .. MaxRollbacks
    BY ConfigAssumption
  <2> QED
    BY <1>1, <2>1 DEF Init, Typed
<1> QED
  BY <1>3, <1>4 DEF Init, IInv, NewState

\* A step that leaves the configuration and the operations alone and ends in a
\* sound state keeps soundness; a batch of operations only extends them.
LEMMA SoundPrime ==
    ASSUME IInv, UNCHANGED <<cfg, ops>>, NEW q, Sound(q.state, q.snapshot), Become(q)
    PROVE  Sound(state, snapshot)'
  BY DEF Sound, Untouched, Become

\* The totals before and after a step are those of a step of CheckpointedProgress.
ProgressStep == [Progress!Next]_<<state.totalBatchesProcessed, snapshot.totalBatchesProcessed>>

\* Every step preserves the invariant and is a step of CheckpointedProgress.
LEMMA NextIInv == IInv /\ [Next]_vars => IInv' /\ ProgressStep
<1> SUFFICES ASSUME IInv, [Next]_vars PROVE IInv' /\ ProgressStep
  OBVIOUS
<1> USE DEF ProgressStep, Progress!Next, Progress!Advance, Progress!Save, Progress!Lose
<1>0. /\ cfg \in ConfigType /\ ops \in Seq(Ops) /\ Sound(state, snapshot)
      /\ state \in SequencerStates /\ snapshot \in SequencerStates
  BY ConfigsTyped DEF IInv, Sound
<1>1. ASSUME NEW batch \in OpBatches, OperationRequested(batch)
      PROVE  IInv' /\ ProgressStep
  <2>1. batch \in Seq(Ops)
    BY ConfigAssumption
  <2>2. /\ ops' \in Seq(Ops)
        /\ Len(ops) <= Len(ops')
        /\ \A i \in 1 .. Len(ops) : ops'[i] = ops[i]
    BY <1>0, <1>1, <2>1 DEF OperationRequested
  <2>3. Sound(state, snapshot)'
    <3>1. state.curOpIdx \in Nat /\ snapshot.curOpIdx \in Nat /\ state.curOpIdx <= Len(ops)
      BY <1>0 DEF Sound, SequencerStates
    <3>2. \A i \in snapshot.curOpIdx + 1 .. state.curOpIdx : ops'[i] = ops[i]
      BY <1>0, <2>2, <3>1
    <3>3. state.curOpIdx <= Len(ops')
      BY <1>0, <2>2, <3>1
    <3> QED
      BY <1>0, <1>1, <3>2, <3>3 DEF Sound, Untouched, OperationRequested
  <2>4. (running # NoWorkload => Chosen(running, state))'
    <3>1. state.curOpIdx \in Nat
      BY <1>0 DEF SequencerStates
    <3> QED
      BY <1>0, <1>1, <2>2, <3>1 DEF IInv, Chosen, OperationRequested
  <2> QED
    BY <1>1, <2>2, <2>3, <2>4 DEF IInv, Typed, OperationRequested
<1>2. ASSUME Allocated PROVE IInv' /\ ProgressStep
  <2> DEFINE q == CompleteCachedCheckpoints(Current)
  <2>1. /\ Sound(q.state, q.snapshot)
        /\ q.state.totalBatchesProcessed = state.totalBatchesProcessed
        /\ q.snapshot.totalBatchesProcessed = snapshot.totalBatchesProcessed
    BY <1>0, CachedSound DEF Current
  <2>2. /\ UNCHANGED <<cfg, ops, earlyExit, rollbacks>> /\ Become(q)
        /\ trialIDValid' = TRUE /\ up' = TRUE /\ running' = Workload(state')
        /\ ~UpToDate(state')
    BY <1>2 DEF Allocated
  <2> HIDE DEF q
  <2>3. Sound(state, snapshot)'
    BY <2>1, <2>2, SoundPrime
  <2>4. Chosen(Workload(q.state), q.state)
    <3>1. q.state \in SequencerStates /\ ~UpToDate(q.state) /\ q.state.curOpIdx <= Len(ops)
      BY <2>1, <2>2 DEF Become, Sound
    <3> QED
      BY <1>0, <2>1, <3>1, NotUpToDate, WorkloadChosen
  <2>5. Chosen(running, state)'
    BY <2>2, <2>4 DEF Become, Chosen
  <2> QED
    BY <2>1, <2>2, <2>3, <2>5 DEF IInv, Typed, Become
<1>3. ASSUME NEW reason \in ExitedReasons, NEW isBest \in BOOLEAN, Completed(reason, isBest)
      PROVE  IInv' /\ ProgressStep
  <2> DEFINE m == WorkloadCompleted(Current, running, reason, isBest)
             q == CompleteCachedCheckpoints(m)
  <2>1. Chosen(running, state)
    BY <1>3 DEF Completed, IInv
  <2>2. /\ Sound(m.state, m.snapshot)
        /\ m = [state |-> m.state, snapshot |-> m.snapshot]
        /\ Grows(Current, m)
    BY <1>0, <2>1, WorkloadCompletedSound DEF Current
  <2>3. /\ Become(q) /\ UNCHANGED <<cfg, ops, trialIDValid, up, rollbacks>>
        /\ running' = NoWorkload /\ earlyExit' \in BOOLEAN /\ up
    BY <1>3 DEF Completed
  <2> HIDE DEF m
  <2>4. /\ Sound(q.state, q.snapshot)
        /\ q.state.totalBatchesProcessed = m.state.totalBatchesProcessed
        /\ q.snapshot.totalBatchesProcessed = m.snapshot.totalBatchesProcessed
    BY <1>0, <2>2, CachedSound
  <2> HIDE DEF q
  <2>5. Sound(state, snapshot)'
    BY <2>3, <2>4, SoundPrime
  <2>6. q.state.totalBatchesProcessed \in Nat
    BY <2>4 DEF Sound, SequencerStates
  <2>7. ProgressStep
    BY <2>2, <2>3, <2>4, <2>6 DEF Grows, Become, Current
  <2> QED
    BY <2>3, <2>5, <2>7 DEF IInv, Typed
<1>4. ASSUME Continue PROVE IInv' /\ ProgressStep
  <2>1. Chosen(Workload(state), state)
    BY <1>0, <1>4, NotUpToDate, WorkloadChosen DEF Continue, Sound
  <2> QED
    BY <1>4, <2>1 DEF Continue, IInv, Typed, Sound, Untouched, Chosen
<1>5. ASSUME Preclose PROVE IInv' /\ ProgressStep
  <2>1. Chosen(checkpoint(state), state)
    BY <1>0 DEF Chosen, checkpoint, Workloads, Kinds, SequencerStates
  <2> QED
    BY <1>5, <2>1 DEF Preclose, IInv, Typed, Sound, Untouched, Chosen
<1>6. ASSUME Terminate PROVE IInv' /\ ProgressStep
  BY <1>6 DEF Terminate, IInv, Typed, Sound, Untouched, Chosen, PrecloseCheckpointNeeded
<1>7. ASSUME RollBackSequencer PROVE IInv' /\ ProgressStep
  <2>1. Sound(snapshot, snapshot)
    <3>1. snapshot.curOpIdx \in Nat /\ snapshot.totalBatchesProcessed \in Nat
      BY <1>0 DEF SequencerStates
    <3>2. snapshot.curOpIdx <= Len(ops)
      BY <1>0, <3>1 DEF Sound, SequencerStates
    <3>3. \A i \in snapshot.curOpIdx + 1 .. snapshot.curOpIdx : FALSE
      BY <3>1
    <3> QED
      BY <1>0, <3>1, <3>2, <3>3 DEF Sound
  <2>2. rollbacks' \in 0 .. MaxRollbacks
    BY <1>7, ConfigAssumption DEF RollBackSequencer, IInv, Typed
  <2>3. Sound(state, snapshot)'
    BY <1>7, <2>1 DEF RollBackSequencer, Sound, Untouched
  <2> QED
    BY <1>7, <2>1, <2>2, <2>3 DEF RollBackSequencer, IInv, Typed, Sound
<1>8. ASSUME FailedForGood PROVE IInv' /\ ProgressStep
  <2> DEFINE w == IF ~UpToDate(state) THEN Workload(state) ELSE checkpoint(state)
             m == WorkloadCompleted(Current, w, "ERRORED", FALSE)
             q == CompleteCachedCheckpoints(m)
  <2>1. Chosen(w, state)
    <3>1. Chosen(checkpoint(state), state)
      BY <1>0 DEF Chosen, checkpoint, Workloads, Kinds, SequencerStates
    <3>2. ~UpToDate(state) => Chosen(Workload(state), state)
      BY <1>0, NotUpToDate, WorkloadChosen DEF Sound
    <3> QED
      BY <3>1, <3>2
  <2>2. /\ Become(q) /\ UNCHANGED <<cfg, ops, trialIDValid, rollbacks>>
        /\ running' = NoWorkload /\ earlyExit' = TRUE /\ up' = FALSE
    BY <1>8 DEF FailedForGood
  <2> HIDE DEF w
  <2>3. /\ Sound(m.state, m.snapshot)
        /\ m = [state |-> m.state, snapshot |-> m.snapshot]
        /\ Grows(Current, m)
    <3>1. ASSUME NEW reason \in ExitedReasons, NEW isBest \in BOOLEAN
          PROVE  LET n == WorkloadCompleted(Current, w, reason, isBest)
                 IN  /\ Sound(n.state, n.snapshot)
                     /\ n = [state |-> n.state, snapshot |-> n.snapshot]
                     /\ Grows(Current, n)
      BY <1>0, <2>1, WorkloadCompletedSound DEF Current
    <3>2. "ERRORED" \in ExitedReasons /\ FALSE \in BOOLEAN
      BY DEF ExitedReasons
    <3> QED
      BY <3>1, <3>2
  <2> HIDE DEF m
  <2>4. /\ Sound(q.state, q.snapshot)
        /\ q.state.totalBatchesProcessed = m.state.totalBatchesProcessed
        /\ q.snapshot.totalBatchesProcessed = m.snapshot.totalBatchesProcessed
    BY <1>0, <2>3, CachedSound
  <2> HIDE DEF q
  <2>5. Sound(state, snapshot)'
    BY <2>2, <2>4, SoundPrime
  <2>6. q.state.totalBatchesProcessed \in Nat
    BY <2>4 DEF Sound, SequencerStates
  <2>7. ProgressStep
    BY <2>2, <2>3, <2>4, <2>6 DEF Grows, Become, Current
  <2> QED
    BY <2>2, <2>5, <2>7 DEF IInv, Typed
<1>9. CASE UNCHANGED vars
  BY <1>9 DEF vars, IInv, Typed, Sound, Untouched, Chosen
<1> QED
  BY <1>1, <1>2, <1>3, <1>4, <1>5, <1>6, <1>7, <1>8, <1>9 DEF Next

\* The invariant holds throughout.
THEOREM Invariance == Spec => []IInv
  BY InitIInv, NextIInv, PTL DEF Spec

\* Type correctness of the sequencer, its snapshot and its workloads.
THEOREM TypeCorrect == Spec => []TypeOK
<1>1. IInv => TypeOK
  BY DEF IInv, Typed, Sound, Chosen, TypeOK
<1> QED
  BY <1>1, Invariance, PTL

\* RollBackSequencer returns to a checkpointed state and loses exactly the
\* batches trained since the checkpoint that containers load.
THEOREM RollbackSound == Spec => []SnapshotIsCheckpoint
<1>1. IInv => SnapshotIsCheckpoint
  BY DEF IInv, Sound, SnapshotIsCheckpoint
<1> QED
  BY <1>1, Invariance, PTL

\* processAllocated starts containers only when no counted batch is missing from
\* the checkpoint they load.
THEOREM ContainersStartSound == Spec => []StartsFromCheckpoint
<1>1. IInv => StartsFromCheckpoint
  BY DEF IInv, StartsFromCheckpoint
<1> QED
  BY <1>1, Invariance, PTL

\* A rollback never takes a completed checkpoint operation back from the
\* searcher, nor, without a min_validation_period, a completed validation.
THEOREM RollbackTakesBackTraining == Spec => []OnlyTrainingTakenBack
<1>1. IInv => OnlyTrainingTakenBack
  BY DEF IInv, Sound, OnlyTrainingTakenBack, TakenBack
<1> QED
  BY <1>1, Invariance, PTL

\* The sequencer implements CheckpointedProgress.
THEOREM Refinement == Spec => ImplementsProgress
<1>1. Init => Progress!Init
  BY DEF Init, NewState, Progress!Init
<1>2. IInv /\ [Next]_vars => ProgressStep
  BY NextIInv
<1> QED
  BY <1>1, <1>2, Invariance, PTL DEF Spec, ImplementsProgress, Progress!Spec, ProgressStep

-----------------------------------------------------------------------------
(***************************************************************************)
(* Two more invariants, on top of IInv: the workloads the sequencer hands  *)
(* out are justified, and every batch trained is one an operation asked    *)
(* for.                                                                    *)
(***************************************************************************)
(***************************************************************************)
(* What WorkloadsJustified needs of a sequencer state, the current one or  *)
(* the snapshot that a rollback returns to: the counters have not run past *)
(* their periods, a graceful stop is also an early exit, and a validated   *)
(* model that policy "all" must save is waiting to be saved.               *)
(***************************************************************************)
WithinPeriod(period, since) ==
    period.units # 0 => since <= ToNearestBatch(period, cfg.ctx)

InStep(s) ==
    /\ WithinPeriod(cfg.minValidationPeriod, s.batchesSinceLastVal)
    /\ WithinPeriod(cfg.minCheckpointPeriod, s.batchesSinceLastCkpt)
    /\ s.gracefulStop => s.exitingEarly
    /\ cfg.checkpointPolicy = "all" /\ s.batchesSinceLastVal = 0 /\ s.batchesSinceLastCkpt # 0
          => s.needPostValidationCkpt

\* A workload w under way in state s keeps the counters within their periods
\* when it completes, and a training step starts from a saved model if it must.
Justified(w, s) ==
    /\ s.gracefulStop => w.Kind = "CHECKPOINT_MODEL"
    /\ w.Kind = "RUN_STEP" =>
          /\ WithinPeriod(cfg.minValidationPeriod, s.batchesSinceLastVal + w.NumBatches)
          /\ WithinPeriod(cfg.minCheckpointPeriod, s.batchesSinceLastCkpt + w.NumBatches)
          /\ cfg.checkpointPolicy = "all" /\ s.batchesSinceLastVal = 0
                => s.batchesSinceLastCkpt = 0

JInv ==
    /\ InStep(state) /\ InStep(snapshot)
    /\ running # NoWorkload => Justified(running, state)

-----------------------------------------------------------------------------
(* Periods. *)

\* EqualWithinBatch holds of the whole batches of a length: the records that
\* ToNearestBatch drops are less than a batch.
LEMMA EqualAtNearestBatch ==
    ASSUME NEW l \in Lengths, NEW ctx \in UnitContexts
    PROVE  EqualWithinBatch(l, ToNearestBatch(l, ctx), ctx)
<1>1. RecordsOf(l, ctx) \in Nat /\ ctx.globalBatchSize \in Nat \ {0}
  BY DEF RecordsOf, Lengths, UnitContexts, Units
<1>2. \A a \in Nat, b \in Nat \ {0} : AbsDiff(a, (a \div b) * b) < b
  <2> SUFFICES ASSUME NEW a \in Nat, NEW b \in Nat \ {0}
               PROVE  AbsDiff(a, (a \div b) * b) < b
    OBVIOUS
  <2>1. a = b * (a \div b) + (a % b) /\ a % b \in 0 .. b - 1 /\ a \div b \in Nat
    OBVIOUS
  <2>2. (a \div b) * b = b * (a \div b) /\ b * (a \div b) \in Nat
    BY <2>1
  <2> QED
    BY <2>1, <2>2 DEF AbsDiff
<1> QED
  BY <1>1, <1>2 DEF EqualWithinBatch, ToNearestBatch

\* A step of batchesThisStep() batches ends at or before the end of both
\* periods, if neither has ended yet (minValidationNeeded, minCheckpointNeeded).
LEMMA StepWithinPeriods ==
    ASSUME NEW s \in SequencerStates, s.curOpIdx < Len(ops),
           cfg \in ConfigType, ops \in Seq(Ops),
           InStep(s), ~minValidationNeeded(s), ~minCheckpointNeeded(s)
    PROVE  /\ WithinPeriod(cfg.minValidationPeriod, s.batchesSinceLastVal + batchesThisStep(s))
           /\ WithinPeriod(cfg.minCheckpointPeriod, s.batchesSinceLastCkpt + batchesThisStep(s))
<1> DEFINE left == ToNearestBatch(CurrentOp(s).length, cfg.ctx) - s.batchesTowardsCurrentOp
           V == ToNearestBatch(cfg.minValidationPeriod, cfg.ctx)
           C == ToNearestBatch(cfg.minCheckpointPeriod, cfg.ctx)
<1>1. /\ cfg.ctx \in UnitContexts /\ cfg.schedulingUnit \in Nat \ {0}
      /\ cfg.minValidationPeriod \in Lengths /\ cfg.minCheckpointPeriod \in Lengths
      /\ CurrentOp(s).length \in Lengths
  BY CurrentOpType DEF ConfigType, Ops
<1>2. V \in Nat /\ C \in Nat /\ left \in Int
  BY <1>1, ToNearestBatchType, SMTT(20) DEF SequencerStates
<1>3. s.batchesSinceLastVal \in Nat /\ s.batchesSinceLastCkpt \in Nat
  BY DEF SequencerStates
<1>4. cfg.minValidationPeriod.units # 0 => s.batchesSinceLastVal < V
  <2>1. EqualWithinBatch(cfg.minValidationPeriod, V, cfg.ctx)
    BY <1>1, EqualAtNearestBatch
  <2>2. cfg.minValidationPeriod.units # 0 =>
           s.batchesSinceLastVal <= V /\ s.batchesSinceLastVal # V
    BY <2>1 DEF InStep, WithinPeriod, minValidationNeeded
  <2> QED
    BY <1>2, <1>3, <2>2
<1>5. cfg.minCheckpointPeriod.units # 0 => s.batchesSinceLastCkpt < C
  <2>1. EqualWithinBatch(cfg.minCheckpointPeriod, C, cfg.ctx)
    BY <1>1, EqualAtNearestBatch
  <2>2. cfg.minCheckpointPeriod.units # 0 =>
           s.batchesSinceLastCkpt <= C /\ s.batchesSinceLastCkpt # C
    BY <2>1 DEF InStep, WithinPeriod, minCheckpointNeeded
  <2> QED
    BY <1>2, <1>3, <2>2
<1> DEFINE val == batchesUntilValNeeded(s)
           ckpt == batchesUntilCkptNeeded(s)
<1>6. /\ val \in Int /\ val >= 1
      /\ cfg.minValidationPeriod.units # 0 => val = V - s.batchesSinceLastVal
  BY <1>2, <1>3, <1>4 DEF batchesUntilValNeeded, MaxInt32
<1>7. /\ ckpt \in Int /\ ckpt >= 1
      /\ cfg.minCheckpointPeriod.units # 0 => ckpt = C - s.batchesSinceLastCkpt
  BY <1>2, <1>3, <1>5 DEF batchesUntilCkptNeeded, MaxInt32
<1>8. batchesThisStep(s) = max(min(min(left, min(val, ckpt)), cfg.schedulingUnit), 1)
  BY DEF batchesThisStep
<1> HIDE DEF left, V, C, val, ckpt
<1>9. /\ batchesThisStep(s) \in Nat
      /\ batchesThisStep(s) <= val /\ batchesThisStep(s) <= ckpt
  BY <1>1, <1>2, <1>6, <1>7, <1>8 DEF min, max
<1>10. cfg.minValidationPeriod.units # 0 => s.batchesSinceLastVal + batchesThisStep(s) <= V
  BY <1>2, <1>3, <1>6, <1>9
<1>11. cfg.minCheckpointPeriod.units # 0 => s.batchesSinceLastCkpt + batchesThisStep(s) <= C
  BY <1>2, <1>3, <1>7, <1>9
<1> QED
  BY <1>10, <1>11 DEF WithinPeriod, V, C

\* Workload() returns a justified workload: it is called of a sequencer that is
\* not up to date, which after a graceful stop means there is a model to save.
LEMMA WorkloadJustified ==
    ASSUME NEW s, NEW p, Sound(s, p), InStep(s), ~UpToDate(s),
           cfg \in ConfigType, ops \in Seq(Ops)
    PROVE  Justified(Workload(s), s)
<1>1. s \in SequencerStates /\ s.curOpIdx < Len(ops)
  BY NotUpToDate DEF Sound
<1>2. s.gracefulStop => Workload(s).Kind = "CHECKPOINT_MODEL"
  <2>1. s.gracefulStop => s.gracefulStop /\ s.batchesSinceLastCkpt # 0
    BY DEF InStep, UpToDate, postGracefulStopCheckpointNeeded
  <2>2. s.needInitialValidation => s.batchesSinceLastCkpt = 0
    BY DEF Sound, Untouched, SequencerStates
  <2> QED
    BY <2>1, <2>2 DEF Workload, postGracefulStopCheckpointNeeded, checkpoint
<1>3. ASSUME Workload(s).Kind = "RUN_STEP"
      PROVE  /\ ~minValidationNeeded(s) /\ ~minCheckpointNeeded(s)
             /\ ~postValidationCheckpointNeeded(s)
             /\ Workload(s).NumBatches = batchesThisStep(s)
  BY <1>3 DEF Workload, OpWorkload, train, validate, checkpoint
<1>4. ASSUME Workload(s).Kind = "RUN_STEP", cfg.checkpointPolicy = "all",
             s.batchesSinceLastVal = 0
      PROVE  s.batchesSinceLastCkpt = 0
  BY <1>3, <1>4 DEF InStep, postValidationCheckpointNeeded
<1> QED
  BY <1>1, <1>2, <1>3, <1>4, StepWithinPeriods DEF Justified

-----------------------------------------------------------------------------
(* Updates. *)

\* WorkloadCompleted keeps the state and the snapshot in step with the periods.
LEMMA WorkloadCompletedInStep ==
    ASSUME NEW s, NEW p, Sound(s, p), InStep(s), InStep(p),
           NEW w, Chosen(w, s), Justified(w, s),
           NEW reason \in ExitedReasons, NEW isBest \in BOOLEAN,
           cfg \in ConfigType, ops \in Seq(Ops)
    PROVE  LET q == WorkloadCompleted([state |-> s, snapshot |-> p], w, reason, isBest)
           IN  InStep(q.state) /\ InStep(q.snapshot)
<1> DEFINE b == s.exitingEarly \/ reason # "NONE"
           c == s.gracefulStop \/ reason \in {"USER_CANCELED", "INVALID_HP"}
           e == [s EXCEPT !.exitingEarly = b, !.gracefulStop = c]
           t == KindCompleted(e, w, isBest)
           q == WorkloadCompleted([state |-> s, snapshot |-> p], w, reason, isBest)
<1>1. s \in SequencerStates /\ w \in Workloads
  BY DEF Sound, Chosen
<1>2. /\ e.batchesSinceLastVal = s.batchesSinceLastVal
      /\ e.batchesSinceLastCkpt = s.batchesSinceLastCkpt
      /\ e.needPostValidationCkpt = s.needPostValidationCkpt
      /\ e.exitingEarly = b /\ e.gracefulStop = c /\ e \in SequencerStates
  BY <1>1 DEF SequencerStates
<1>3. c => b
  BY DEF InStep
<1>4. q = IF reason = "ERRORED" THEN [state |-> e, snapshot |-> p]
          ELSE [state |-> t, snapshot |-> IF RetakesSnapshot(e, w) THEN t ELSE p]
  BY DEF WorkloadCompleted
<1> HIDE DEF e, b, c, q
<1>5. InStep(e)
  BY <1>2, <1>3 DEF InStep
<1>6. InStep(t)
  <2>1. CASE w.Kind = "RUN_STEP"
    <3>1. /\ t.batchesSinceLastVal = e.batchesSinceLastVal + w.NumBatches
          /\ t.batchesSinceLastCkpt = e.batchesSinceLastCkpt + w.NumBatches
          /\ t.exitingEarly = e.exitingEarly /\ t.gracefulStop = e.gracefulStop
      BY <1>2, <2>1 DEF KindCompleted, runStepCompleted, SequencerStates
    <3>2. t.batchesSinceLastVal # 0
      BY <1>1, <1>2, <2>1, <3>1 DEF Chosen, SequencerStates, Workloads
    <3> QED
      BY <1>2, <1>5, <2>1, <3>1, <3>2 DEF InStep, Justified
  <2>2. CASE w.Kind = "COMPUTE_VALIDATION_METRICS"
    <3>1. /\ t.batchesSinceLastVal = 0
          /\ t.batchesSinceLastCkpt = e.batchesSinceLastCkpt
          /\ t.exitingEarly = e.exitingEarly /\ t.gracefulStop = e.gracefulStop
          /\ cfg.checkpointPolicy = "all" /\ e.batchesSinceLastCkpt # 0
                => t.needPostValidationCkpt
      BY <1>2, <2>2 DEF KindCompleted, computeValidationMetricsCompleted, SequencerStates
    <3>2. WithinPeriod(cfg.minValidationPeriod, 0)
      BY ToNearestBatchType DEF WithinPeriod, ConfigType
    <3> QED
      BY <1>5, <3>1, <3>2 DEF InStep
  <2>3. CASE w.Kind = "CHECKPOINT_MODEL"
    <3>1. /\ t.batchesSinceLastVal = e.batchesSinceLastVal
          /\ t.batchesSinceLastCkpt = 0
          /\ t.exitingEarly = e.exitingEarly /\ t.gracefulStop = e.gracefulStop
      BY <1>2, <2>3 DEF KindCompleted, checkpointModelCompleted, SequencerStates
    <3>2. WithinPeriod(cfg.minCheckpointPeriod, 0)
      BY ToNearestBatchType DEF WithinPeriod, ConfigType
    <3> QED
      BY <1>5, <3>1, <3>2 DEF InStep
  <2> QED
    BY <1>1, <2>1, <2>2, <2>3 DEF Workloads, Kinds
<1> HIDE DEF t
<1> QED
  BY <1>4, <1>5, <1>6 DEF q

\* Completing a cached checkpoint keeps them in step.
LEMMA CachedInStep ==
    ASSUME NEW s, NEW p, Sound(s, p), InStep(s), InStep(p),
           cfg \in ConfigType, ops \in Seq(Ops)
    PROVE  LET q == CompleteCachedCheckpoints([state |-> s, snapshot |-> p])
           IN  InStep(q.state) /\ InStep(q.snapshot)
<1> DEFINE q == CompleteCachedCheckpoints([state |-> s, snapshot |-> p])
           w == Workload(s)
           d == [s EXCEPT !.cachedCheckpoints = @ \ {w}]
<1>1. s \in SequencerStates
  BY DEF Sound
<1>2. CASE UpToDate(s) \/ w \notin s.cachedCheckpoints
  BY <1>2 DEF CompleteCachedCheckpoints
<1>3. CASE ~UpToDate(s) /\ w \in s.cachedCheckpoints
  <2>1. Chosen(w, s) /\ Justified(w, s)
    BY <1>1, <1>3, NotUpToDate, WorkloadChosen, WorkloadJustified DEF Sound
  <2>2. q = WorkloadCompleted([state |-> d, snapshot |-> p], w, "NONE", FALSE)
    BY <1>3 DEF CompleteCachedCheckpoints
  <2> HIDE DEF w, q
  <2>3. /\ d \in SequencerStates
        /\ d.totalBatchesProcessed = s.totalBatchesProcessed
        /\ d.batchesSinceLastVal = s.batchesSinceLastVal
        /\ d.batchesSinceLastCkpt = s.batchesSinceLastCkpt
        /\ d.needPostValidationCkpt = s.needPostValidationCkpt
        /\ d.exitingEarly = s.exitingEarly /\ d.gracefulStop = s.gracefulStop
        /\ d.curOpIdx = s.curOpIdx
        /\ d.needInitialValidation = s.needInitialValidation
        /\ d.latestCheckpoint = s.latestCheckpoint
        /\ d.cachedCheckpoints \subseteq s.cachedCheckpoints
    BY <1>1 DEF SequencerStates
  <2> HIDE DEF d
  <2>4. Sound(d, p)
    BY <2>3 DEF Sound, Untouched
  <2>5. InStep(d) /\ Chosen(w, d) /\ Justified(w, d)
    BY <2>1, <2>3 DEF InStep, Chosen, Justified
  <2>6. "NONE" \in ExitedReasons /\ FALSE \in BOOLEAN
    BY DEF ExitedReasons
  <2> QED
    BY <2>2, <2>4, <2>5, <2>6, WorkloadCompletedInStep DEF q
<1> QED
  BY <1>2, <1>3

-----------------------------------------------------------------------------
(* The invariant and the theorem. *)

\* A new sequencer has trained nothing and is told to do nothing.
LEMMA InitJInv == Init => JInv
<1> SUFFICES ASSUME Init PROVE JInv
  OBVIOUS
<1>1. cfg \in ConfigType
  BY ConfigAssumption DEF Init
<1>2. WithinPeriod(cfg.minValidationPeriod, 0) /\ WithinPeriod(cfg.minCheckpointPeriod, 0)
  BY <1>1, ToNearestBatchType DEF WithinPeriod, ConfigType
<1> QED
  BY <1>2 DEF Init, JInv, InStep, NewState

\* A step that leaves the configuration alone may be judged by the old one.
LEMMA InStepPrime ==
    ASSUME UNCHANGED cfg, NEW q, InStep(q.state), InStep(q.snapshot), Become(q)
    PROVE  (InStep(state) /\ InStep(snapshot))'
  BY DEF InStep, WithinPeriod, Become

\* Every step preserves the invariant.
LEMMA NextJInv == IInv /\ JInv /\ [Next]_vars => JInv'
<1> SUFFICES ASSUME IInv, JInv, [Next]_vars PROVE JInv'
  OBVIOUS
<1>0. /\ cfg \in ConfigType /\ ops \in Seq(Ops) /\ Sound(state, snapshot)
      /\ InStep(state) /\ InStep(snapshot)
  BY ConfigsTyped DEF IInv, JInv
<1>1. ASSUME NEW batch \in OpBatches, OperationRequested(batch) PROVE JInv'
  BY <1>1 DEF OperationRequested, JInv, InStep, WithinPeriod, Justified
<1>2. ASSUME Allocated PROVE JInv'
  <2> DEFINE q == CompleteCachedCheckpoints(Current)
  <2>1. /\ Become(q) /\ UNCHANGED <<cfg, ops>> /\ running' = Workload(state')
        /\ ~UpToDate(state')
    BY <1>2 DEF Allocated
  <2>2. Sound(q.state, q.snapshot)
    BY <1>0, CachedSound DEF Current
  <2>3. InStep(q.state) /\ InStep(q.snapshot)
    BY <1>0, CachedInStep DEF Current
  <2> HIDE DEF q
  <2>4. ~UpToDate(q.state)
    BY <2>1 DEF Become, UpToDate
  <2>5. Justified(Workload(q.state), q.state)
    BY <1>0, <2>2, <2>3, <2>4, WorkloadJustified
  <2>6. Justified(running, state)'
    BY <2>1, <2>5 DEF Become, Justified, WithinPeriod
  <2> QED
    BY <2>1, <2>3, <2>6, InStepPrime DEF JInv
<1>3. ASSUME NEW reason \in ExitedReasons, NEW isBest \in BOOLEAN, Completed(reason, isBest)
      PROVE  JInv'
  <2> DEFINE m == WorkloadCompleted(Current, running, reason, isBest)
             q == CompleteCachedCheckpoints(m)
  <2>1. /\ Chosen(running, state) /\ Justified(running, state)
        /\ Become(q) /\ UNCHANGED <<cfg, ops>> /\ running' = NoWorkload
    BY <1>3 DEF Completed, IInv, JInv
  <2>2. /\ Sound(m.state, m.snapshot)
        /\ m = [state |-> m.state, snapshot |-> m.snapshot]
    BY <1>0, <2>1, WorkloadCompletedSound DEF Current
  <2>3. InStep(m.state) /\ InStep(m.snapshot)
    BY <1>0, <2>1, WorkloadCompletedInStep DEF Current
  <2> HIDE DEF m
  <2>4. InStep(q.state) /\ InStep(q.snapshot)
    BY <1>0, <2>2, <2>3, CachedInStep
  <2> HIDE DEF q
  <2> QED
    BY <2>1, <2>4, InStepPrime DEF JInv
<1>4. ASSUME Continue PROVE JInv'
  <2>1. Justified(Workload(state), state)
    BY <1>0, <1>4, WorkloadJustified DEF Continue
  <2> QED
    BY <1>4, <2>1 DEF Continue, JInv, InStep, Justified, WithinPeriod
<1>5. ASSUME Preclose PROVE JInv'
  <2>1. Justified(checkpoint(state), state)
    BY DEF Justified, checkpoint
  <2> QED
    BY <1>5, <2>1 DEF Preclose, JInv, InStep, Justified, WithinPeriod
<1>6. ASSUME Terminate PROVE JInv'
  BY <1>6 DEF Terminate, JInv, InStep, Justified, WithinPeriod
<1>7. ASSUME RollBackSequencer PROVE JInv'
  BY <1>7 DEF RollBackSequencer, JInv, InStep, WithinPeriod
<1>8. ASSUME FailedForGood PROVE JInv'
  <2> DEFINE w == IF ~UpToDate(state) THEN Workload(state) ELSE checkpoint(state)
             m == WorkloadCompleted(Current, w, "ERRORED", FALSE)
             q == CompleteCachedCheckpoints(m)
  <2>1. Chosen(w, state) /\ Justified(w, state)
    <3>1. Chosen(checkpoint(state), state) /\ Justified(checkpoint(state), state)
      BY <1>0 DEF Chosen, Justified, checkpoint, Workloads, Kinds, Sound, SequencerStates
    <3>2. ~UpToDate(state) => Chosen(Workload(state), state) /\ Justified(Workload(state), state)
      BY <1>0, NotUpToDate, WorkloadChosen, WorkloadJustified DEF Sound
    <3> QED
      BY <3>1, <3>2
  <2>2. Become(q) /\ UNCHANGED <<cfg, ops>> /\ running' = NoWorkload
    BY <1>8 DEF FailedForGood
  <2>3. "ERRORED" \in ExitedReasons /\ FALSE \in BOOLEAN
    BY DEF ExitedReasons
  <2> HIDE DEF w
  <2>4. /\ Sound(m.state, m.snapshot)
        /\ m = [state |-> m.state, snapshot |-> m.snapshot]
        /\ InStep(m.state) /\ InStep(m.snapshot)
    <3>1. ASSUME NEW reason \in ExitedReasons, NEW isBest \in BOOLEAN
          PROVE  LET n == WorkloadCompleted(Current, w, reason, isBest)
                 IN  /\ Sound(n.state, n.snapshot)
                     /\ n = [state |-> n.state, snapshot |-> n.snapshot]
      BY <1>0, <2>1, WorkloadCompletedSound DEF Current
    <3>2. ASSUME NEW reason \in ExitedReasons, NEW isBest \in BOOLEAN
          PROVE  LET n == WorkloadCompleted(Current, w, reason, isBest)
                 IN  InStep(n.state) /\ InStep(n.snapshot)
      BY <1>0, <2>1, WorkloadCompletedInStep DEF Current
    <3> QED
      BY <2>3, <3>1, <3>2
  <2> HIDE DEF m
  <2>5. InStep(q.state) /\ InStep(q.snapshot)
    BY <1>0, <2>4, CachedInStep
  <2> HIDE DEF q
  <2> QED
    BY <2>2, <2>5, InStepPrime DEF JInv
<1>9. CASE UNCHANGED vars
  BY <1>9 DEF vars, JInv, InStep, WithinPeriod, Justified
<1> QED
  BY <1>1, <1>2, <1>3, <1>4, <1>5, <1>6, <1>7, <1>8, <1>9 DEF Next

\* Whatever Workload() hands out was due and allowed: no trial is trained past
\* min_validation_period or min_checkpoint_period, after a graceful stop, or on
\* from a validated model that checkpoint_policy "all" has still to save.
THEOREM WorkloadsAreJustified == Spec => []WorkloadsJustified
<1>1. IInv /\ JInv => WorkloadsJustified
  BY DEF JInv, InStep, WithinPeriod, Justified, WorkloadsJustified, PeriodsRespected,
         NoTrainingAfterGracefulStop, ValidatedModelIsCheckpointed, NoWorkload
<1> QED
  BY <1>1, InitJInv, NextJInv, Invariance, PTL DEF Spec

-----------------------------------------------------------------------------
(* Sums over the operations.  BatchesAsked is a recursive function: that it*)
(* has the values its definition says, and that they are natural numbers,  *)
(* is shown by induction on the number of operations.                      *)

\* Induction, for a set of natural numbers.
LEMMA SetInduction ==
    ASSUME NEW S \in SUBSET Nat, 0 \in S, \A n \in S : n + 1 \in S
    PROVE  S = Nat
<1> SUFFICES ASSUME Nat \ S # {} PROVE FALSE
  OBVIOUS
<1> DEFINE R == OpToRel(<, Nat)
           T == Nat \ S
<1>1. IsWellFoundedOn(R, Nat)
  BY NatLessThanWellFounded
<1>2. \A x, y \in Nat : <<y, x>> \in R <=> y < x
  BY DEF OpToRel
<1>3. T \subseteq Nat /\ T # {}
  OBVIOUS
<1> HIDE DEF R
<1>4. PICK x \in T : \A y \in T : ~ (<<y, x>> \in R)
  <2> HIDE DEF T
  <2> QED
    BY <1>1, <1>3, WFMin
<1>5. \A y \in T : ~ (y < x)
  BY <1>2, <1>4
<1>6. x - 1 \in S
  BY <1>5
<1> QED
  BY <1>4, <1>6

\* f gives the batches asked for by the first operations, up to m of them.
Sums(f, m) ==
    f = [n \in 0 .. m |-> IF n = 0 THEN 0 ELSE f[n-1] + OpBatchCount(ops[n])]

\* Such a function exists.
LEMMA SumsExist == \A m \in Nat : \E f : Sums(f, m)
<1> DEFINE S == {k \in Nat : \E f : Sums(f, k)}
<1>1. 0 \in S
  <2>1. Sums([n \in 0 .. 0 |-> 0], 0)
    BY DEF Sums
  <2> QED
    BY <2>1
<1>2. ASSUME NEW k \in S PROVE k + 1 \in S
  <2>1. k \in Nat
    OBVIOUS
  <2>2. PICK f : Sums(f, k)
    OBVIOUS
  <2> DEFINE g == [n \in 0 .. k + 1 |->
                      IF n = k + 1 THEN f[k] + OpBatchCount(ops[k + 1]) ELSE f[n]]
  <2>3. \A n \in 0 .. k : f[n] = IF n = 0 THEN 0 ELSE f[n-1] + OpBatchCount(ops[n])
    BY <2>1, <2>2 DEF Sums
  <2>4. \A n \in 0 .. k + 1 : g[n] = IF n = 0 THEN 0 ELSE g[n-1] + OpBatchCount(ops[n])
    BY <2>1, <2>3
  <2>5. Sums(g, k + 1)
    BY <2>4 DEF Sums
  <2> QED
    BY <2>1, <2>5
<1>3. S \in SUBSET Nat
  OBVIOUS
<1> HIDE DEF S
<1>4. S = Nat
  BY <1>1, <1>2, <1>3, SetInduction
<1> QED
  BY <1>4 DEF S

\* What an operation asks for is a number of batches.
LEMMA OpBatchCountType ==
    ASSUME cfg \in ConfigType, NEW op \in Ops
    PROVE  OpBatchCount(op) \in Nat
<1>1. ToNearestBatch(op.length, cfg.ctx) \in Nat
  BY ToNearestBatchType DEF ConfigType, Ops
<1> QED
  BY <1>1 DEF OpBatchCount, max

\* BatchesAsked adds up what the operations ask for.
LEMMA BatchesAskedDef ==
    ASSUME cfg \in ConfigType, ops \in Seq(Ops)
    PROVE  /\ BatchesAsked[0] = 0
           /\ \A n \in 1 .. Len(ops) :
                 BatchesAsked[n] = BatchesAsked[n-1] + OpBatchCount(ops[n])
           /\ \A n \in 0 .. Len(ops) : BatchesAsked[n] \in Nat
<1>1. Len(ops) \in Nat
  OBVIOUS
<1>2. Sums(BatchesAsked, Len(ops))
  <2>1. BatchesAsked = CHOOSE f : Sums(f, Len(ops))
    BY DEF BatchesAsked, Sums
  <2>2. \E f : Sums(f, Len(ops))
    BY <1>1, SumsExist
  <2> QED
    BY <2>1, <2>2
<1>3. \A n \in 0 .. Len(ops) : BatchesAsked[n] =
         IF n = 0 THEN 0 ELSE BatchesAsked[n-1] + OpBatchCount(ops[n])
  BY <1>1, <1>2 DEF Sums
<1>4. \A n \in 1 .. Len(ops) : OpBatchCount(ops[n]) \in Nat
  BY OpBatchCountType
<1> DEFINE S == {k \in Nat : k <= Len(ops) => BatchesAsked[k] \in Nat}
<1>5. 0 \in S
  BY <1>1, <1>3
<1>6. ASSUME NEW k \in S PROVE k + 1 \in S
  <2>1. CASE k + 1 <= Len(ops)
    <3>1. k \in Nat /\ BatchesAsked[k] \in Nat /\ OpBatchCount(ops[k + 1]) \in Nat
      BY <1>1, <1>4, <2>1
    <3>2. BatchesAsked[k + 1] = BatchesAsked[k] + OpBatchCount(ops[k + 1])
      BY <1>1, <1>3, <2>1, <3>1
    <3> QED
      BY <3>1, <3>2
  <2>2. CASE ~(k + 1 <= Len(ops))
    BY <2>2
  <2> QED
    BY <2>1, <2>2
<1>7. S \in SUBSET Nat
  OBVIOUS
<1> HIDE DEF S
<1>8. S = Nat
  BY <1>5, <1>6, <1>7, SetInduction
<1> QED
  BY <1>1, <1>3, <1>8 DEF S

\* Operations that arrive later leave the sums of the earlier ones as they were.
LEMMA BatchesAskedKept ==
    ASSUME cfg \in ConfigType, ops \in Seq(Ops), ops' \in Seq(Ops), UNCHANGED cfg,
           Len(ops) <= Len(ops'), \A i \in 1 .. Len(ops) : ops'[i] = ops[i]
    PROVE  \A n \in 0 .. Len(ops) : BatchesAsked'[n] = BatchesAsked[n]
<1>1. Len(ops) \in Nat /\ Len(ops') \in Nat
  OBVIOUS
<1>2. /\ BatchesAsked[0] = 0
      /\ \A n \in 1 .. Len(ops) : BatchesAsked[n] = BatchesAsked[n-1] + OpBatchCount(ops[n])
  BY BatchesAskedDef
<1>3. Sums(BatchesAsked, Len(ops))'
  <2>1. (BatchesAsked = CHOOSE f : Sums(f, Len(ops)))'
    BY DEF BatchesAsked, Sums
  <2>2. (\A m \in Nat : \E f : Sums(f, m))'
    BY SumsExist, PTL
  <2> QED
    BY <1>1, <2>1, <2>2
<1>4. \A n \in 0 .. Len(ops') : BatchesAsked'[n] =
         IF n = 0 THEN 0 ELSE BatchesAsked'[n-1] + OpBatchCount(ops[n])'
  BY <1>1, <1>3 DEF Sums
<1>5. \A n \in 1 .. Len(ops) : OpBatchCount(ops[n])' = OpBatchCount(ops[n])
  BY DEF OpBatchCount
<1> DEFINE S == {k \in Nat : k <= Len(ops) => BatchesAsked'[k] = BatchesAsked[k]}
<1>6. 0 \in S
  BY <1>1, <1>2, <1>4
<1>7. ASSUME NEW k \in S PROVE k + 1 \in S
  <2>1. CASE k + 1 <= Len(ops)
    <3>1. k \in Nat /\ BatchesAsked'[k] = BatchesAsked[k]
      BY <1>1, <2>1
    <3>2. /\ BatchesAsked[k + 1] = BatchesAsked[k] + OpBatchCount(ops[k + 1])
          /\ BatchesAsked'[k + 1] = BatchesAsked'[k] + OpBatchCount(ops[k + 1])'
          /\ OpBatchCount(ops[k + 1])' = OpBatchCount(ops[k + 1])
      BY <1>1, <1>2, <1>4, <1>5, <2>1, <3>1
    <3> QED
      BY <3>1, <3>2
  <2>2. CASE ~(k + 1 <= Len(ops))
    BY <2>2
  <2> QED
    BY <2>1, <2>2
<1>8. S \in SUBSET Nat
  OBVIOUS
<1> HIDE DEF S
<1>9. S = Nat
  BY <1>6, <1>7, <1>8, SetInduction
<1> QED
  BY <1>1, <1>9 DEF S

-----------------------------------------------------------------------------
(* The account of a sequencer state: its total is what the completed       *)
(* operations asked for and what was trained towards the current one, which*)
(* is then a training operation that still asks for more.                  *)
Accounted(s) ==
    /\ s.totalBatchesProcessed = BatchesAsked[s.curOpIdx] + s.batchesTowardsCurrentOp
    /\ s.batchesTowardsCurrentOp # 0 =>
          /\ s.curOpIdx < Len(ops)
          /\ CurrentOp(s).type = "Train"
          /\ s.batchesTowardsCurrentOp < OpBatchCount(CurrentOp(s))

\* A training step under way is for the current operation and does not pass its end.
InOp(w, s) ==
    w.Kind = "RUN_STEP" =>
        /\ CurrentOp(s).type = "Train"
        /\ s.batchesTowardsCurrentOp + w.NumBatches <= OpBatchCount(CurrentOp(s))

TrainsSomething ==
    \A i \in 1 .. Len(ops) : ops[i].type = "Train" => ops[i].length.units > 0

AInv ==
    /\ TrainsSomething
    /\ Accounted(state) /\ Accounted(snapshot)
    /\ running # NoWorkload => InOp(running, state)

\* The sums as the lemmas below use them.
AskedOK ==
    /\ cfg \in ConfigType /\ ops \in Seq(Ops) /\ TrainsSomething
    /\ \A n \in 1 .. Len(ops) : BatchesAsked[n] = BatchesAsked[n-1] + OpBatchCount(ops[n])
    /\ \A n \in 0 .. Len(ops) : BatchesAsked[n] \in Nat

\* EqualWithinBatch tells the end of a training operation exactly: of the batch
\* counts up to it, the end is the only one within a batch of the length.
LEMMA EndIsExact ==
    ASSUME NEW l \in Lengths, NEW ctx \in UnitContexts, l.units > 0,
           NEW n \in Nat \ {0}, n <= max(ToNearestBatch(l, ctx), 1)
    PROVE  EqualWithinBatch(l, n, ctx) <=> n = max(ToNearestBatch(l, ctx), 1)
<1> DEFINE R == RecordsOf(l, ctx)
           b == ctx.globalBatchSize
           L == ToNearestBatch(l, ctx)
<1>1. R \in Nat /\ R > 0 /\ b \in Nat \ {0} /\ L \in Nat /\ l.units \in Nat
  <2>1. /\ l.units \in Nat \ {0} /\ ctx.recordsPerEpoch \in Nat \ {0}
        /\ ctx.globalBatchSize \in Nat \ {0}
    BY DEF Lengths, UnitContexts
  <2>2. l.units * ctx.recordsPerEpoch \in Nat \ {0}
    BY <2>1
  <2> QED
    BY <2>1, <2>2, ToNearestBatchType DEF RecordsOf
<1>2. CASE l.unit = "batches"
  BY <1>1, <1>2 DEF EqualWithinBatch, ToNearestBatch, max
<1>3. CASE l.unit # "batches"
  <2>1. /\ L = R \div b
        /\ EqualWithinBatch(l, n, ctx) <=> AbsDiff(R, n * b) < b
    BY <1>3 DEF ToNearestBatch, EqualWithinBatch
  <2> HIDE DEF R, b, L
  <2>2. PICK r \in 0 .. b - 1 : R = b * L + r
    <3>1. \A x \in Nat, y \in Nat \ {0} : x = y * (x \div y) + (x % y) /\ x % y \in 0 .. y - 1
      OBVIOUS
    <3> QED
      BY <1>1, <2>1, <3>1, ZenonT(60)
  <2>3. CASE L = 0
    <3>1. n = 1 /\ max(L, 1) = 1
      BY <2>3 DEF max, L
    <3>2. R = r /\ n * b = b
      BY <1>1, <2>2, <2>3, <3>1
    <3>3. AbsDiff(R, n * b) < b
      BY <1>1, <3>2 DEF AbsDiff
    <3> QED
      BY <2>1, <3>1, <3>3 DEF L
  <2>4. CASE L # 0
    <3>1. max(L, 1) = L /\ n <= L
      BY <1>1, <2>4 DEF max, L
    <3>2. CASE n = L
      <4>1. n * b = b * L /\ b * L \in Nat
        BY <1>1, <3>2
      <4> QED
        BY <1>1, <2>1, <2>2, <3>1, <3>2, <4>1 DEF AbsDiff, L
    <3>3. CASE n # L
      <4>1. PICK d \in Nat : L = n + 1 + d
        <5>1. L - n - 1 \in Nat /\ L = n + 1 + (L - n - 1)
          BY <1>1, <3>1, <3>3
        <5> QED
          BY <5>1
      <4>2. b * L = n * b + b + d * b /\ n * b \in Nat /\ d * b \in Nat
        BY <1>1, <4>1
      <4>3. ~(AbsDiff(R, n * b) < b)
        BY <1>1, <2>2, <4>2 DEF AbsDiff
      <4> QED
        BY <2>1, <3>1, <3>3, <4>3 DEF L
    <3> QED
      BY <3>2, <3>3
  <2> QED
    BY <2>3, <2>4
<1> QED
  BY <1>2, <1>3

\* A step of batchesThisStep() batches does not pass the end of its operation.
LEMMA WorkloadInOp ==
    ASSUME NEW s \in SequencerStates, s.curOpIdx < Len(ops), AskedOK, Accounted(s)
    PROVE  InOp(Workload(s), s)
<1> SUFFICES ASSUME Workload(s).Kind = "RUN_STEP"
             PROVE  /\ CurrentOp(s).type = "Train"
                    /\ s.batchesTowardsCurrentOp + Workload(s).NumBatches
                          <= OpBatchCount(CurrentOp(s))
  BY DEF InOp
<1>1. CurrentOp(s).type = "Train" /\ Workload(s).NumBatches = batchesThisStep(s)
  BY DEF Workload, OpWorkload, train, validate, checkpoint
<1> DEFINE L == ToNearestBatch(CurrentOp(s).length, cfg.ctx)
           left == L - s.batchesTowardsCurrentOp
           until == min(batchesUntilValNeeded(s), batchesUntilCkptNeeded(s))
<1>2. CurrentOp(s).length \in Lengths /\ cfg.ctx \in UnitContexts
  BY CurrentOpType DEF AskedOK, Ops, ConfigType
<1>3. /\ L \in Nat /\ s.batchesTowardsCurrentOp \in Nat /\ cfg.schedulingUnit \in Nat
      /\ until \in Int
  <2>1. /\ ToNearestBatch(cfg.minValidationPeriod, cfg.ctx) \in Nat
        /\ ToNearestBatch(cfg.minCheckpointPeriod, cfg.ctx) \in Nat
    BY ToNearestBatchType DEF AskedOK, ConfigType
  <2>2. batchesUntilValNeeded(s) \in Int /\ batchesUntilCkptNeeded(s) \in Int
    BY <2>1 DEF batchesUntilValNeeded, batchesUntilCkptNeeded, MaxInt32, SequencerStates
  <2> QED
    BY <1>2, <2>2, ToNearestBatchType DEF min, AskedOK, ConfigType, SequencerStates
<1>4. batchesThisStep(s) = max(min(min(left, until), cfg.schedulingUnit), 1)
  BY DEF batchesThisStep
<1>5. OpBatchCount(CurrentOp(s)) = max(L, 1)
  BY <1>1 DEF OpBatchCount
<1> HIDE DEF L, until
<1>6. s.batchesTowardsCurrentOp < max(L, 1)
  BY <1>3, <1>5 DEF Accounted, max
<1>7. s.batchesTowardsCurrentOp + batchesThisStep(s) <= max(L, 1)
  BY <1>3, <1>4, <1>6 DEF min, max
<1> QED
  BY <1>1, <1>5, <1>7

\* A training step that reaches the end of its operation completes it, and the
\* next one starts from nothing.
LEMMA RunStepAccounted ==
    ASSUME NEW s \in SequencerStates, NEW w \in Workloads, w.Kind = "RUN_STEP",
           w.NumBatches > 0, s.curOpIdx < Len(ops), AskedOK, Accounted(s), InOp(w, s)
    PROVE  Accounted(runStepCompleted(s, w))
<1> DEFINE towards == s.batchesTowardsCurrentOp + w.NumBatches
           op == CurrentOp(s)
           t == runStepCompleted(s, w)
<1>1. /\ s.batchesTowardsCurrentOp \in Nat /\ w.NumBatches \in Nat /\ s.curOpIdx \in Nat
      /\ s.totalBatchesProcessed \in Nat
  BY DEF SequencerStates, Workloads
<1>2. op \in Ops /\ op = ops[s.curOpIdx + 1] /\ s.curOpIdx + 1 \in 1 .. Len(ops)
  BY <1>1, CurrentOpType DEF AskedOK, CurrentOp
<1>3. op.type = "Train" /\ towards <= OpBatchCount(op) /\ towards \in Nat \ {0}
  BY <1>1 DEF InOp
<1>4. TrainOpDone(s, towards) <=> towards = OpBatchCount(op)
  <2>1. op.length \in Lengths /\ op.length.units > 0 /\ cfg.ctx \in UnitContexts
    BY <1>2, <1>3 DEF AskedOK, TrainsSomething, Ops, ConfigType
  <2>2. OpBatchCount(op) = max(ToNearestBatch(op.length, cfg.ctx), 1)
    BY <1>3 DEF OpBatchCount
  <2> HIDE DEF towards
  <2>3. EqualWithinBatch(op.length, towards, cfg.ctx) <=> towards = OpBatchCount(op)
    BY <1>3, <2>1, <2>2, EndIsExact
  <2> QED
    BY <1>3, <2>3 DEF TrainOpDone
<1>5. /\ BatchesAsked[s.curOpIdx] \in Nat
      /\ BatchesAsked[s.curOpIdx + 1] = BatchesAsked[s.curOpIdx] + OpBatchCount(op)
  BY <1>1, <1>2 DEF AskedOK
<1>6. /\ t.totalBatchesProcessed = s.totalBatchesProcessed + w.NumBatches
      /\ t.batchesTowardsCurrentOp = IF TrainOpDone(s, towards) THEN 0 ELSE towards
      /\ t.curOpIdx = IF TrainOpDone(s, towards) THEN s.curOpIdx + 1 ELSE s.curOpIdx
  BY DEF runStepCompleted, SequencerStates
<1> HIDE DEF t
<1>7. ASSUME TrainOpDone(s, towards) PROVE Accounted(t)
  <2>1. /\ t.totalBatchesProcessed = s.totalBatchesProcessed + w.NumBatches
        /\ t.batchesTowardsCurrentOp = 0 /\ t.curOpIdx = s.curOpIdx + 1
        /\ s.batchesTowardsCurrentOp + w.NumBatches = OpBatchCount(op)
    BY <1>4, <1>6, <1>7
  <2>2. s.totalBatchesProcessed = BatchesAsked[s.curOpIdx] + s.batchesTowardsCurrentOp
    BY DEF Accounted
  <2> HIDE DEF op
  <2>3. t.totalBatchesProcessed = BatchesAsked[t.curOpIdx] + t.batchesTowardsCurrentOp
    BY <1>1, <1>5, <2>1, <2>2, SMTT(20)
  <2> QED
    BY <2>1, <2>3 DEF Accounted
<1>8. ASSUME ~TrainOpDone(s, towards) PROVE Accounted(t)
  <2>1. t.curOpIdx = s.curOpIdx /\ CurrentOp(t) = op /\ t.batchesTowardsCurrentOp = towards
    BY <1>6, <1>8 DEF CurrentOp
  <2>2. OpBatchCount(op) \in Nat
    BY <1>2, OpBatchCountType DEF AskedOK
  <2>3. towards < OpBatchCount(op)
    BY <1>3, <1>4, <1>8, <2>2
  <2>4. t.totalBatchesProcessed = BatchesAsked[t.curOpIdx] + towards
    BY <1>1, <1>5, <1>6, <2>1 DEF Accounted
  <2> HIDE DEF op, towards
  <2> QED
    BY <1>3, <2>1, <2>3, <2>4 DEF Accounted
<1> QED
  BY <1>7, <1>8 DEF t

\* Passing over an operation that is not training keeps the account.
LEMMA PassedOverAccounted ==
    ASSUME NEW s \in SequencerStates, AskedOK, Accounted(s), s.curOpIdx < Len(ops),
           CurrentOp(s).type # "Train", NEW t,
           t.totalBatchesProcessed = s.totalBatchesProcessed,
           t.batchesTowardsCurrentOp = s.batchesTowardsCurrentOp,
           t.curOpIdx = s.curOpIdx + 1
    PROVE  Accounted(t)
<1>1. s.curOpIdx \in Nat /\ s.curOpIdx + 1 \in 1 .. Len(ops)
  BY DEF SequencerStates, AskedOK
<1>2. s.batchesTowardsCurrentOp = 0 /\ OpBatchCount(ops[s.curOpIdx + 1]) = 0
  BY DEF Accounted, CurrentOp, OpBatchCount
<1>3. BatchesAsked[s.curOpIdx + 1] = BatchesAsked[s.curOpIdx] /\ BatchesAsked[s.curOpIdx] \in Nat
  BY <1>1, <1>2 DEF AskedOK
<1> QED
  BY <1>2, <1>3 DEF Accounted

\* WorkloadCompleted keeps the accounts of the state and of the snapshot.
LEMMA WorkloadCompletedAccounted ==
    ASSUME NEW s, NEW p, Sound(s, p), AskedOK, Accounted(s), Accounted(p),
           NEW w, Chosen(w, s), InOp(w, s),
           NEW reason \in ExitedReasons, NEW isBest \in BOOLEAN
    PROVE  LET q == WorkloadCompleted([state |-> s, snapshot |-> p], w, reason, isBest)
           IN  Accounted(q.state) /\ Accounted(q.snapshot)
<1> DEFINE b == s.exitingEarly \/ reason # "NONE"
           c == s.gracefulStop \/ reason \in {"USER_CANCELED", "INVALID_HP"}
           e == [s EXCEPT !.exitingEarly = b, !.gracefulStop = c]
           t == KindCompleted(e, w, isBest)
           q == WorkloadCompleted([state |-> s, snapshot |-> p], w, reason, isBest)
<1>1. s \in SequencerStates /\ w \in Workloads /\ s.curOpIdx <= Len(ops)
  BY DEF Sound, Chosen
<1>2. /\ e.batchesTowardsCurrentOp = s.batchesTowardsCurrentOp
      /\ e.totalBatchesProcessed = s.totalBatchesProcessed
      /\ e.curOpIdx = s.curOpIdx /\ e \in SequencerStates
  BY <1>1 DEF SequencerStates
<1>3. q = IF reason = "ERRORED" THEN [state |-> e, snapshot |-> p]
          ELSE [state |-> t, snapshot |-> IF RetakesSnapshot(e, w) THEN t ELSE p]
  BY DEF WorkloadCompleted
<1> HIDE DEF e, b, c, q
<1>4. Accounted(e) /\ CurrentOp(e) = CurrentOp(s)
  BY <1>2 DEF Accounted, CurrentOp
<1>5. Accounted(t)
  <2>1. CASE w.Kind = "RUN_STEP"
    <3>1. t = runStepCompleted(e, w)
      BY <2>1 DEF KindCompleted
    <3>2. InOp(w, e) /\ w.NumBatches > 0 /\ e.curOpIdx < Len(ops)
      BY <1>2, <1>4, <2>1 DEF InOp, Chosen
    <3> HIDE DEF t
    <3> QED
      BY <1>1, <1>2, <1>4, <2>1, <3>1, <3>2, RunStepAccounted
  <2>2. CASE w.Kind = "COMPUTE_VALIDATION_METRICS"
    <3>1. /\ t.totalBatchesProcessed = e.totalBatchesProcessed
          /\ t.batchesTowardsCurrentOp = e.batchesTowardsCurrentOp
          /\ t.curOpIdx = IF CurrentOp(e).type = "Validate" THEN e.curOpIdx + 1 ELSE e.curOpIdx
      BY <1>2, <2>2 DEF KindCompleted, computeValidationMetricsCompleted, SequencerStates
    <3>2. e.curOpIdx < Len(ops)
      BY <1>2, <2>2 DEF Chosen
    <3> HIDE DEF t
    <3>3. CASE CurrentOp(e).type = "Validate"
      BY <1>2, <1>4, <3>1, <3>2, <3>3, PassedOverAccounted
    <3>4. CASE CurrentOp(e).type # "Validate"
      BY <1>4, <3>1, <3>4 DEF Accounted, CurrentOp
    <3> QED
      BY <3>3, <3>4
  <2>3. CASE w.Kind = "CHECKPOINT_MODEL"
    <3> DEFINE f == [e EXCEPT !.batchesSinceLastCkpt = 0, !.needPostValidationCkpt = FALSE,
                              !.latestCheckpoint = w]
    <3>1. /\ f.totalBatchesProcessed = e.totalBatchesProcessed
          /\ f.batchesTowardsCurrentOp = e.batchesTowardsCurrentOp
          /\ f.curOpIdx = e.curOpIdx /\ CurrentOp(f) = CurrentOp(e)
          /\ f \in SequencerStates
      BY <1>1, <1>2, <2>3 DEF SequencerStates, CurrentOp, CheckpointWorkloads
    <3>2. t = IF ~UpToDate(f) /\ CurrentOp(f).type = "Checkpoint"
              THEN [f EXCEPT !.curOpIdx = @ + 1]
              ELSE [f EXCEPT !.cachedCheckpoints = @ \cup {w}]
      BY <2>3 DEF KindCompleted, checkpointModelCompleted
    <3> HIDE DEF f, t
    <3>3. CASE ~UpToDate(f) /\ CurrentOp(f).type = "Checkpoint"
      <4>1. /\ t.totalBatchesProcessed = e.totalBatchesProcessed
            /\ t.batchesTowardsCurrentOp = e.batchesTowardsCurrentOp
            /\ t.curOpIdx = e.curOpIdx + 1
        BY <3>1, <3>2, <3>3 DEF SequencerStates
      <4>2. e.curOpIdx < Len(ops)
        BY <1>1, <1>2, <3>1, <3>3, NotUpToDate DEF AskedOK
      <4> QED
        BY <1>2, <1>4, <3>1, <3>3, <4>1, <4>2, PassedOverAccounted
    <3>4. CASE ~(~UpToDate(f) /\ CurrentOp(f).type = "Checkpoint")
      <4>1. /\ t.totalBatchesProcessed = e.totalBatchesProcessed
            /\ t.batchesTowardsCurrentOp = e.batchesTowardsCurrentOp
            /\ t.curOpIdx = e.curOpIdx
        BY <3>1, <3>2, <3>4 DEF SequencerStates
      <4> QED
        BY <1>4, <4>1 DEF Accounted, CurrentOp
    <3> QED
      BY <3>3, <3>4
  <2> QED
    BY <1>1, <2>1, <2>2, <2>3 DEF Workloads, Kinds
<1> HIDE DEF t
<1> QED
  BY <1>3, <1>4, <1>5 DEF q

\* Completing a cached checkpoint keeps the accounts.
LEMMA CachedAccounted ==
    ASSUME NEW s, NEW p, Sound(s, p), AskedOK, Accounted(s), Accounted(p)
    PROVE  LET q == CompleteCachedCheckpoints([state |-> s, snapshot |-> p])
           IN  Accounted(q.state) /\ Accounted(q.snapshot)
<1> DEFINE q == CompleteCachedCheckpoints([state |-> s, snapshot |-> p])
           w == Workload(s)
           d == [s EXCEPT !.cachedCheckpoints = @ \ {w}]
<1>1. s \in SequencerStates
  BY DEF Sound
<1>2. CASE UpToDate(s) \/ w \notin s.cachedCheckpoints
  BY <1>2 DEF CompleteCachedCheckpoints
<1>3. CASE ~UpToDate(s) /\ w \in s.cachedCheckpoints
  <2>1. s.curOpIdx < Len(ops)
    BY <1>1, <1>3, NotUpToDate DEF Sound, AskedOK
  <2>2. Chosen(w, s) /\ InOp(w, s)
    BY <1>1, <2>1, WorkloadChosen, WorkloadInOp DEF AskedOK
  <2>3. q = WorkloadCompleted([state |-> d, snapshot |-> p], w, "NONE", FALSE)
    BY <1>3 DEF CompleteCachedCheckpoints
  <2> HIDE DEF w, q
  <2>4. /\ d \in SequencerStates
        /\ d.totalBatchesProcessed = s.totalBatchesProcessed
        /\ d.batchesTowardsCurrentOp = s.batchesTowardsCurrentOp
        /\ d.batchesSinceLastCkpt = s.batchesSinceLastCkpt
        /\ d.curOpIdx = s.curOpIdx /\ CurrentOp(d) = CurrentOp(s)
        /\ d.needInitialValidation = s.needInitialValidation
        /\ d.latestCheckpoint = s.latestCheckpoint
        /\ d.cachedCheckpoints \subseteq s.cachedCheckpoints
    BY <1>1 DEF SequencerStates, CurrentOp
  <2> HIDE DEF d
  <2>5. Sound(d, p)
    BY <2>4 DEF Sound, Untouched
  <2>6. Accounted(d) /\ Chosen(w, d) /\ InOp(w, d)
    BY <2>2, <2>4 DEF Accounted, Chosen, InOp
  <2>7. "NONE" \in ExitedReasons /\ FALSE \in BOOLEAN
    BY DEF ExitedReasons
  <2> QED
    BY <2>3, <2>5, <2>6, <2>7, WorkloadCompletedAccounted DEF q
<1> QED
  BY <1>2, <1>3

\* A new sequencer has trained nothing for no operations.
LEMMA InitAInv == Init => AInv
<1> SUFFICES ASSUME Init PROVE AInv
  OBVIOUS
<1>1. cfg \in ConfigType /\ ops = <<>> /\ Len(ops) = 0 /\ ops \in Seq(Ops)
  BY ConfigAssumption DEF Init
<1>2. BatchesAsked[0] = 0
  BY <1>1, BatchesAskedDef
<1>3. Accounted(NewState(cfg))
  BY <1>2 DEF Accounted, NewState
<1> QED
  BY <1>1, <1>3 DEF Init, AInv, TrainsSomething

\* A step that leaves the configuration and the operations alone keeps the sums.
LEMMA AccountedPrime ==
    ASSUME UNCHANGED <<cfg, ops>>, NEW q, Accounted(q.state), Accounted(q.snapshot),
           Become(q), TrainsSomething
    PROVE  (TrainsSomething /\ Accounted(state) /\ Accounted(snapshot))'
<1>1. BatchesAsked' = BatchesAsked
  BY DEF BatchesAsked, OpBatchCount
<1>2. \A op : OpBatchCount(op)' = OpBatchCount(op)
  BY DEF OpBatchCount
<1>3. CurrentOp(state)' = CurrentOp(q.state) /\ CurrentOp(snapshot)' = CurrentOp(q.snapshot)
  BY DEF CurrentOp, Become
<1> QED
  BY <1>1, <1>2, <1>3 DEF Accounted, Become, TrainsSomething

\* Every step preserves the account.
LEMMA NextAInv == IInv /\ AInv /\ [Next]_vars => AInv'
<1> SUFFICES ASSUME IInv, AInv, [Next]_vars PROVE AInv'
  OBVIOUS
<1>0. /\ AskedOK /\ Sound(state, snapshot) /\ Accounted(state) /\ Accounted(snapshot)
      /\ cfg \in ConfigType /\ ops \in Seq(Ops)
      /\ state \in SequencerStates /\ snapshot \in SequencerStates
  BY ConfigsTyped, BatchesAskedDef DEF IInv, AInv, AskedOK, Sound
<1>1. ASSUME NEW batch \in OpBatches, OperationRequested(batch) PROVE AInv'
  <2>1. /\ batch \in Seq(Ops)
        /\ \A i \in 1 .. Len(batch) : batch[i].type = "Train" => batch[i].length.units > 0
    BY ConfigAssumption
  <2>2. /\ ops' = ops \o batch
        /\ UNCHANGED <<cfg, state, snapshot, running>>
    BY <1>1 DEF OperationRequested
  <2>3. /\ ops' \in Seq(Ops) /\ Len(ops') = Len(ops) + Len(batch)
        /\ \A i \in 1 .. Len(ops) : ops'[i] = ops[i]
        /\ \A i \in Len(ops) + 1 .. Len(ops') : ops'[i] = batch[i - Len(ops)]
    BY <1>0, <2>1, <2>2
  <2>4. TrainsSomething'
    <3> SUFFICES ASSUME NEW i \in 1 .. Len(ops'), ops'[i].type = "Train"
                 PROVE  ops'[i].length.units > 0
      BY DEF TrainsSomething
    <3>1. CASE i \in 1 .. Len(ops)
      BY <2>3, <3>1 DEF AInv, TrainsSomething
    <3>2. CASE i \in Len(ops) + 1 .. Len(ops')
      <4>1. i - Len(ops) \in 1 .. Len(batch)
        BY <1>0, <2>1, <2>3, <3>2
      <4> QED
        BY <2>1, <2>3, <3>2, <4>1
    <3> QED
      BY <1>0, <3>1, <3>2
  <2>5. \A n \in 0 .. Len(ops) : BatchesAsked'[n] = BatchesAsked[n]
    BY <1>0, <2>1, <2>2, <2>3, BatchesAskedKept
  <2>6. \A op : OpBatchCount(op)' = OpBatchCount(op)
    BY <2>2 DEF OpBatchCount
  <2>7. ASSUME NEW s \in SequencerStates, s.curOpIdx < Len(ops)
        PROVE  ops'[s.curOpIdx + 1] = ops[s.curOpIdx + 1]
    <3>1. s.curOpIdx \in Nat
      BY DEF SequencerStates
    <3>2. Len(ops) \in Nat
      BY <1>0
    <3>3. s.curOpIdx + 1 \in 1 .. Len(ops)
      BY <2>7, <3>1, <3>2
    <3> QED
      BY <2>3, <3>3
  <2>8. /\ state.curOpIdx \in 0 .. Len(ops) /\ snapshot.curOpIdx \in 0 .. Len(ops)
        /\ Len(ops) \in Nat /\ Len(ops') \in Nat
    BY <1>0, <2>3 DEF Sound, SequencerStates
  <2>9. Accounted(state)' /\ Accounted(snapshot)'
    BY <1>0, <2>1, <2>2, <2>3, <2>5, <2>6, <2>7, <2>8, SMTT(20) DEF Accounted, CurrentOp
  <2>10. (running # NoWorkload => InOp(running, state))'
    <3>1. running # NoWorkload /\ running.Kind = "RUN_STEP" =>
             CurrentOp(state)' = CurrentOp(state)
      BY <1>0, <2>2, <2>7 DEF IInv, Chosen, CurrentOp
    <3> QED
      BY <2>2, <2>6, <3>1 DEF AInv, InOp
  <2> QED
    BY <2>4, <2>9, <2>10 DEF AInv
<1>2. ASSUME Allocated PROVE AInv'
  <2> DEFINE q == CompleteCachedCheckpoints(Current)
  <2>1. /\ Become(q) /\ UNCHANGED <<cfg, ops>> /\ running' = Workload(state')
        /\ ~UpToDate(state')
    BY <1>2 DEF Allocated
  <2>2. Sound(q.state, q.snapshot)
    BY <1>0, CachedSound DEF Current
  <2>3. Accounted(q.state) /\ Accounted(q.snapshot)
    BY <1>0, CachedAccounted DEF Current
  <2> HIDE DEF q
  <2>4. ~UpToDate(q.state) /\ q.state \in SequencerStates /\ q.state.curOpIdx <= Len(ops)
    BY <2>1, <2>2 DEF Become, UpToDate, Sound
  <2>5. InOp(Workload(q.state), q.state)
    BY <1>0, <2>3, <2>4, NotUpToDate, WorkloadInOp
  <2>6. InOp(running, state)'
    BY <2>1, <2>5 DEF Become, InOp, CurrentOp, OpBatchCount
  <2> QED
    BY <1>0, <2>1, <2>3, <2>6, AccountedPrime DEF AInv
<1>3. ASSUME NEW reason \in ExitedReasons, NEW isBest \in BOOLEAN, Completed(reason, isBest)
      PROVE  AInv'
  <2> DEFINE m == WorkloadCompleted(Current, running, reason, isBest)
             q == CompleteCachedCheckpoints(m)
  <2>1. /\ Chosen(running, state) /\ InOp(running, state)
        /\ Become(q) /\ UNCHANGED <<cfg, ops>> /\ running' = NoWorkload
    BY <1>3 DEF Completed, IInv, AInv
  <2>2. /\ Sound(m.state, m.snapshot)
        /\ m = [state |-> m.state, snapshot |-> m.snapshot]
    BY <1>0, <2>1, WorkloadCompletedSound DEF Current
  <2>3. Accounted(m.state) /\ Accounted(m.snapshot)
    BY <1>0, <2>1, WorkloadCompletedAccounted DEF Current
  <2> HIDE DEF m
  <2>4. Accounted(q.state) /\ Accounted(q.snapshot)
    BY <1>0, <2>2, <2>3, CachedAccounted
  <2> HIDE DEF q
  <2> QED
    BY <1>0, <2>1, <2>4, AccountedPrime DEF AInv
<1>4. ASSUME NEW w, running' = w, UNCHANGED <<cfg, ops, state, snapshot>>,
             w # NoWorkload => InOp(w, state)
      PROVE  AInv'
  <2>1. Become(Current) /\ Accounted(Current.state) /\ Accounted(Current.snapshot)
    BY <1>0, <1>4 DEF Become, Current
  <2>2. (running # NoWorkload => InOp(running, state))'
    BY <1>4 DEF InOp, CurrentOp, OpBatchCount
  <2> QED
    BY <1>4, <2>1, <2>2, AccountedPrime DEF AInv
<1>5. ASSUME Continue PROVE AInv'
  <2>1. InOp(Workload(state), state)
    BY <1>0, <1>5, NotUpToDate, WorkloadInOp DEF Continue, Sound
  <2> QED
    BY <1>4, <1>5, <2>1 DEF Continue
<1>6. ASSUME Preclose PROVE AInv'
  <2>1. InOp(checkpoint(state), state)
    BY DEF InOp, checkpoint
  <2> QED
    BY <1>4, <1>6, <2>1 DEF Preclose
<1>7. ASSUME Terminate PROVE AInv'
  BY <1>4, <1>7 DEF Terminate, AInv
<1>8. ASSUME RollBackSequencer PROVE AInv'
  <2> DEFINE q == [state |-> snapshot, snapshot |-> snapshot]
  <2>1. Become(q) /\ Accounted(q.state) /\ Accounted(q.snapshot)
    BY <1>0, <1>8 DEF Become, RollBackSequencer
  <2> QED
    BY <1>8, <2>1, AccountedPrime DEF RollBackSequencer, AInv
<1>9. ASSUME FailedForGood PROVE AInv'
  <2> DEFINE w == IF ~UpToDate(state) THEN Workload(state) ELSE checkpoint(state)
             m == WorkloadCompleted(Current, w, "ERRORED", FALSE)
             q == CompleteCachedCheckpoints(m)
  <2>1. Chosen(w, state) /\ InOp(w, state)
    <3>1. Chosen(checkpoint(state), state) /\ InOp(checkpoint(state), state)
      BY <1>0 DEF Chosen, InOp, checkpoint, Workloads, Kinds, Sound, SequencerStates
    <3>2. ~UpToDate(state) => Chosen(Workload(state), state) /\ InOp(Workload(state), state)
      BY <1>0, NotUpToDate, WorkloadChosen, WorkloadInOp DEF Sound
    <3> QED
      BY <3>1, <3>2
  <2>2. Become(q) /\ UNCHANGED <<cfg, ops>> /\ running' = NoWorkload
    BY <1>9 DEF FailedForGood
  <2>3. "ERRORED" \in ExitedReasons /\ FALSE \in BOOLEAN
    BY DEF ExitedReasons
  <2> HIDE DEF w
  <2>4. /\ Sound(m.state, m.snapshot)
        /\ m = [state |-> m.state, snapshot |-> m.snapshot]
        /\ Accounted(m.state) /\ Accounted(m.snapshot)
    <3>1. ASSUME NEW reason \in ExitedReasons, NEW isBest \in BOOLEAN
          PROVE  LET n == WorkloadCompleted(Current, w, reason, isBest)
                 IN  /\ Sound(n.state, n.snapshot)
                     /\ n = [state |-> n.state, snapshot |-> n.snapshot]
      BY <1>0, <2>1, WorkloadCompletedSound DEF Current
    <3>2. ASSUME NEW reason \in ExitedReasons, NEW isBest \in BOOLEAN
          PROVE  LET n == WorkloadCompleted(Current, w, reason, isBest)
                 IN  Accounted(n.state) /\ Accounted(n.snapshot)
      BY <1>0, <2>1, WorkloadCompletedAccounted DEF Current
    <3> QED
      BY <2>3, <3>1, <3>2
  <2> HIDE DEF m
  <2>5. Accounted(q.state) /\ Accounted(q.snapshot)
    BY <1>0, <2>4, CachedAccounted
  <2> HIDE DEF q
  <2> QED
    BY <1>0, <2>2, <2>5, AccountedPrime DEF AInv
<1>10. CASE UNCHANGED vars
  BY <1>4, <1>10 DEF vars, AInv
<1> QED
  BY <1>1, <1>2, <1>3, <1>5, <1>6, <1>7, <1>8, <1>9, <1>10 DEF Next

\* Every batch that was trained is one that an operation asked for: the total is
\* what the completed operations asked for plus the batches of the current one,
\* after every suspension, rollback and failure.
THEOREM EveryBatchAccounted == Spec => []WorkAccounted
<1>1. IInv /\ AInv => WorkAccounted
  BY DEF IInv, Sound, AInv, Accounted, WorkAccounted
<1> QED
  BY <1>1, InitAInv, NextAInv, Invariance, PTL DEF Spec
=============================================================================
