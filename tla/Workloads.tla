----------------------------- MODULE Workloads -----------------------------
(***************************************************************************)
(* What the web interface makes of a trial's workloads: the rows of the    *)
(* table of steps and the names of the metrics (webui/react/src/utils/     *)
(* step.ts, trial.ts, after services/decoder.ts).  A workload is a record  *)
(* [kind, numBatches, prior, state, metrics]; decoding turns the wrapper   *)
(* with its three optional fields into the one that is there.              *)
(***************************************************************************)
EXTENDS Naturals, Sequences, FiniteSets, SequencesExt

Kinds == {"training", "validation", "checkpoint"}
ALL == "all"

(* hasCheckpoint, of a wrapper and of a step *)
hasCheckpoint(step) == "checkpoint" \in DOMAIN step /\ step["checkpoint"].state # "DELETED"

getBatchNumber(wl) == wl.numBatches + wl.prior

(* A workload in its row: the last of a kind is the one that is kept. *)
Added(steps, b, wl) ==
    LET row == IF b \in DOMAIN steps THEN steps[b] ELSE <<>>
        step == [k \in DOMAIN row \cup {wl.kind} |-> IF k = wl.kind THEN wl ELSE row[k]]
    IN  [c \in DOMAIN steps \cup {b} |-> IF c = b THEN step ELSE steps[c]]

\* A mutant of workloadsToSteps: the rows are found by the length of a workload.
StepsByLength(workloads) ==
    LET steps[n \in 0..Len(workloads)] ==
            IF n = 0 THEN <<>>
            ELSE Added(steps[n-1], workloads[n].numBatches, workloads[n])
    IN  steps[Len(workloads)]

(* A row for each number of batches, and in it the last workload of each   *)
(* kind that ended there: `steps[n]` is the table after n workloads.       *)
workloadsToSteps(workloads) ==
    LET steps[n \in 0..Len(workloads)] ==
            IF n = 0 THEN <<>>
            ELSE Added(steps[n-1], getBatchNumber(workloads[n]), workloads[n])
    IN  steps[Len(workloads)]

(* The rows that the filter of the table lets through *)
shownSteps(steps, filter) ==
    {b \in DOMAIN steps :
        CASE filter = ALL           -> TRUE
          [] filter = "Checkpoint"  -> hasCheckpoint(steps[b])
          [] filter = "Validation"  -> "validation" \in DOMAIN steps[b]
          [] OTHER                  -> {"checkpoint", "validation"} \cap DOMAIN steps[b] # {}}

(* extractMetricNames: validation before training, each name once *)
extractMetricNames(workloads) ==
    UNION {{[type |-> wl.kind, name |-> m] : m \in wl.metrics} :
              wl \in {w \in ToSet(workloads) : w.kind # "checkpoint"}}

(* trialWillNeverHaveData, for a trial that has ended *)
hasData(workloads) ==
    \E wl \in ToSet(workloads) :
        wl.kind # "checkpoint" /\ wl.metrics # {} /\ wl.state = "COMPLETED"
=============================================================================
