\* A trial and a command contend for one device that may be disabled and lost.
SPECIFICATION FairSpec
CONSTANTS
    Agents = {"a1"}
    Devices = {"d1"}
    AgentOf <- MCAgentOf
    Commands = {"cmd"}
    Trials = {"trial"}
    SlotsNeeded <- MCSlotsNeeded
    GroupOf <- MCGroupOf
    RegisteredTime <- MCRegisteredTime
    MaxZeroSlotContainers = 1
    MaxFailures = 1
    MaxToggles = 1
    MaxKills = 1
INVARIANTS
    TypeOK
    PoolNeverPanics
    FreeDevicesAreIdle
    QuiescentPoolIsFull
PROPERTIES
    EndedContainersFreeDevices
\* Nothing happens any more once every task has ended.
CHECK_DEADLOCK FALSE
