SPECIFICATION FairSpec
CONSTANTS
    Script <- MCScript
    Buttons = {"Archive", "Cancel", "Kill", "Pause", "Tensorboard"}
    MaxFaults = 1
    MaxAsked = 1
    MaxAsks = 2
INVARIANTS PagesReliable
PROPERTIES EditsSurvive ComesToBeShown
CHECK_DEADLOCK FALSE
