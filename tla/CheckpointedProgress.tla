------------------------ MODULE CheckpointedProgress ------------------------
(***************************************************************************)
(* What a trial's sequencer promises the trial: training accumulates       *)
(* batches, a checkpoint makes all of them durable, a failure loses what is*)
(* not durable and nothing else.                                           *)
(***************************************************************************)
EXTENDS Naturals

VARIABLES
    done,       \* batches trained
    durable     \* batches trained when the latest checkpoint was taken

Init == done = 0 /\ durable = 0

Advance ==
    /\ done' \in Nat /\ done' > done
    /\ UNCHANGED durable

Save ==
    /\ durable' = done
    /\ UNCHANGED done

Lose ==
    /\ done' = durable
    /\ UNCHANGED durable

Next == Advance \/ Save \/ Lose

Spec == Init /\ [][Next]_<<done, durable>>
=============================================================================
