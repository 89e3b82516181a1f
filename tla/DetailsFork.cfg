SPECIFICATION Spec
CONSTANTS
    Script <- MCScript
    Buttons = {}
    MaxFaults = 0
    MaxAsked = 1
    MaxAsks = 2
INVARIANT KeepsToTheFork
CHECK_DEADLOCK FALSE
