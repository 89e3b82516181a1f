SPECIFICATION FairSpec
CONSTANTS
    Trials = {1, 2}
    Metrics = {"loss", "acc"}
    MaxPoints = 2
    MaxWire = 1
    MaxChanges = 1
    MaxFaults = 1
INVARIANTS DrawsWhatWasSent
PROPERTIES ComesToBeDrawn
CHECK_DEADLOCK FALSE
