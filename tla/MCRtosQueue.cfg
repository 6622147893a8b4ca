CONSTANTS
    TickMod = 4
    Created <- MCCreated
    InitPriority <- MCPriority
    MaxPriorities = 3
    EventList = {"toSend", "toReceive"}
    OverflowMod = 2
    MaxMissed = 1
    Calls <- MCCalls
    Delays = {}
    NewPriorities = {}
    Ops <- MCOps
    Waits <- MCWaits
    IsrCalls = {"send", "receive"}
    Length = 1
    MaxLock = 1
SPECIFICATION QSpec
INVARIANTS QTypeOK HighestRuns NoLostWakeup WaitersBlocked SortedByPriority NoEarlyTimeout
