CONSTANTS
    TickMod = 4
    Created <- MCCreated
    InitPriority <- MCPriority
    MaxPriorities = 4
    EventList = {"toSend", "toReceive"}
    OverflowMod = 2
    MaxMissed = 1
    Calls <- MCCalls
    Delays = {1}
    NewPriorities = {}
    Ops <- MCOps
    Waits <- MCWaits
    IsrCalls = {}
    Length = 1
    MaxLock = 1
SPECIFICATION MSpec
INVARIANTS HighestRuns
