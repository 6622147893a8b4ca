CONSTANTS
    TickMod = 4
    Created <- MCWithControl
    InitPriority <- MCControlPriority
    MaxPriorities = 3
    EventList = {"toSend", "toReceive"}
    OverflowMod = 2
    MaxMissed = 1
    Calls <- MCControlCalls
    Delays = {}
    NewPriorities = {1, 2}
    Ops <- MCControlled
    Waits <- MCForEver
    IsrCalls = {}
    Length = 1
    MaxLock = 2
SPECIFICATION QSpec
INVARIANTS SortedByPriority
