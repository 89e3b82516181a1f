------------------------------- MODULE Length -------------------------------
(***************************************************************************)
(* Training lengths of master/pkg/model/length.go.  A length is a number of*)
(* records, batches or epochs; the unit context (global batch size, records*)
(* per epoch) converts it to whole batches.  Units are the nonnegative     *)
(* integers a configuration or a search method can hold; a unit context is *)
(* only built with a positive batch size (hyperparameter global_batch_size)*)
(* and, when epochs are used, a positive number of records per epoch.      *)
(***************************************************************************)
EXTENDS Integers

Units == {"records", "batches", "epochs"}

Lengths == [unit : Units, units : Nat]

UnitContexts == [globalBatchSize : Nat \ {0}, recordsPerEpoch : Nat \ {0}]

\* The records a length stands for, when its unit is not batches.
RecordsOf(l, ctx) ==
    IF l.unit = "epochs" THEN l.units * ctx.recordsPerEpoch ELSE l.units

\* Length.ToNearestBatch: whole batches, the remainder of the records truncated.
ToNearestBatch(l, ctx) ==
    IF l.unit = "batches"
    THEN l.units
    ELSE RecordsOf(l, ctx) \div ctx.globalBatchSize

AbsDiff(a, b) == IF a < b THEN b - a ELSE a - b

\* Length.EqualWithinBatch: equal, or (records, epochs) less than a batch apart.
EqualWithinBatch(l, batches, ctx) ==
    IF l.unit = "batches"
    THEN l.units = batches
    ELSE AbsDiff(RecordsOf(l, ctx), batches * ctx.globalBatchSize) < ctx.globalBatchSize
=============================================================================
