SPECIFICATION FairSpec
CONSTANTS
    Protected = {"dashboard"}
    Home = "dashboard"
    MaxTokens = 2
    MaxLogins = 1
    MaxErrors = 1
INVARIANTS NeverStuck ShownUserOwnsKey
PROPERTIES FollowsSession
CHECK_DEADLOCK FALSE
