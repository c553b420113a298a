SPECIFICATION FairSpec
CONSTANTS
    MaxSessions = 1
    MaxCalls = 3
    MaxTraffic = 2
    CmdCapacity = 1
    EventCapacity = 1
    InboxCapacity = 1
    CarrierCmdCapacity = 1
    CarrierEventCapacity = 1
PROPERTIES
    SessionOrder
    LostSessionCloses
    CallersAnswered
    TasksEnd
CHECK_DEADLOCK FALSE
