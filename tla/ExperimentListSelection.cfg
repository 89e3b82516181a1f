SPECIFICATION Spec
CONSTANTS
    Exps = {1, 2}
    Searches = {0, 1}
    Actions = {"Kill", "Archive"}
    Limits = {2}
    MaxVersions = 2
    MaxErrors = 1
    MaxActs = 1
    Others = {1}
INVARIANT SelectedRowsExist
CHECK_DEADLOCK FALSE
