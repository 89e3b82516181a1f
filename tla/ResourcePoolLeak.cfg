\* A trial is killed while its allocation is on its way.
SPECIFICATION FairSpec
CONSTANTS
    Agents = {"a1"}
    Devices = {"d1"}
    AgentOf <- MCAgentOf
    Commands = {}
    Trials = {"trial"}
    SlotsNeeded <- MCSlotsNeeded
    GroupOf <- MCGroupOf
    RegisteredTime <- MCRegisteredTime
    MaxZeroSlotContainers = 1
    MaxFailures = 0
    MaxToggles = 0
    MaxKills = 1
PROPERTIES
    ReleasedDevicesReturn
\* Nothing happens any more once every task has ended.
CHECK_DEADLOCK FALSE
