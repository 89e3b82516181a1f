\* A slot is disabled and enabled while a command is being started on it.
SPECIFICATION Spec
CONSTANTS
    Agents = {"a1"}
    Devices = {"d1"}
    AgentOf <- MCAgentOf
    Commands = {"cmd"}
    Trials = {}
    SlotsNeeded <- MCSlotsNeeded
    GroupOf <- MCGroupOf
    RegisteredTime <- MCRegisteredTime
    MaxZeroSlotContainers = 1
    MaxFailures = 0
    MaxToggles = 2
    MaxKills = 0
INVARIANTS
    PoolNeverPanics
\* Nothing happens any more once every task has ended.
CHECK_DEADLOCK FALSE
