CONSTANTS
    TickMod = 4
    Created <- MCCreated
    InitPriority <- MCPriority
    MaxPriorities = 3
    EventList = {}
    OverflowMod = 2
    MaxMissed = 1
    Calls <- MCCalls
    Delays = {1, 2}
    NewPriorities = {0, 4}
SPECIFICATION FairSpec
INVARIANTS TypeOK OneList HighestRuns TopCoversReady NotOverdue NeverLong
PROPERTIES NeverEarly DelayEnds TimeSliced Reclaimed
