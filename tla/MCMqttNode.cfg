CONSTANTS
    Sidecars = {"mqtt"}
    AppEvents = {"HEARTBEAT", "RELEASED", "PRESSED"}
    QueueLen = 1
    MaxLosses = 1
    MaxChanges = 1
    ConnectFails = FALSE
    LateSidecars = FALSE
    ButtonLen = 1
    MaxAborts = 1
SPECIFICATION FairSpec
INVARIANTS ClientFollowsLink LevelCatchesUp
PROPERTIES KeepsPublishing
CHECK_DEADLOCK FALSE
