----------------------------- MODULE MCDetails -----------------------------
(* A trial for the pages of details, which validates and checkpoints. *)
EXTENDS Details

MCScript ==
    <<[kind |-> "validation", numBatches |-> 0, prior |-> 1, state |-> "COMPLETED",
       metrics |-> {"loss", "acc"}],
      [kind |-> "checkpoint", numBatches |-> 0, prior |-> 1, state |-> "COMPLETED",
       metrics |-> {}]>>
=============================================================================
