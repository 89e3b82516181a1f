SPECIFICATION Spec
CONSTANTS
    Notebooks = {1, 2}
    Shells = {}
    Waiting = {1}
    Collected = {1}
    Types = {}
    Limits = {10}
    MaxChecks = 0
    MaxErrors = 1
    MaxActs = 1
INVARIANT NeverRevived
CHECK_DEADLOCK FALSE
