SPECIFICATION Spec
CONSTANTS
    MaxSessions = 1
    MaxCalls = 3
    MaxTraffic = 4
    CmdCapacity = 1
    EventCapacity = 1
    InboxCapacity = 1
    CarrierCmdCapacity = 1
    CarrierEventCapacity = 1
INVARIANT
    NoWaitCycle
CHECK_DEADLOCK FALSE
