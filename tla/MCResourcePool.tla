--------------------------- MODULE MCResourcePool ---------------------------
(* Small instances of ResourcePool for TLC. *)
EXTENDS ResourcePool

\* Two agents of one device each.
MCAgentOf == [d \in Devices |-> IF d = "d1" THEN "a1" ELSE "a2"]

\* A trial takes every device, a command one, a zero-slot command none.
MCSlotsNeeded ==
    [t \in Tasks |-> IF t \in Trials THEN Cardinality(Devices) ELSE IF t = "cpu" THEN 0 ELSE 1]

\* Each task is a group of its own.
MCGroupOf == [t \in Tasks |-> t]

MCRegisteredTime == [t \in Tasks |-> IF t \in Trials THEN 1 ELSE IF t = "cpu" THEN 2 ELSE 3]
=============================================================================
