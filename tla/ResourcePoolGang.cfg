\* A trial on two agents, one of which may fail, beside a command that needs no slot.
SPECIFICATION Spec
CONSTANTS
    Agents = {"a1", "a2"}
    Devices = {"d1", "d2"}
    AgentOf <- MCAgentOf
    Commands = {"cpu"}
    Trials = {"trial"}
    SlotsNeeded <- MCSlotsNeeded
    GroupOf <- MCGroupOf
    RegisteredTime <- MCRegisteredTime
    MaxZeroSlotContainers = 1
    MaxFailures = 1
    MaxToggles = 0
    MaxKills = 0
INVARIANTS QuiescentPoolIsFull
\* Nothing happens any more once every task has ended.
CHECK_DEADLOCK FALSE
