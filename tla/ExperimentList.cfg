SPECIFICATION FairSpec
CONSTANTS
    Exps = {1, 2}
    Searches = {0, 1}
    Actions = {"Archive", "Kill", "Pause"}
    Limits = {2}
    MaxVersions = 2
    MaxErrors = 1
    MaxActs = 1
    Others = {1}
INVARIANTS PageWhole
PROPERTIES KilledBatchStops SettlesOnCurrent
CHECK_DEADLOCK FALSE
