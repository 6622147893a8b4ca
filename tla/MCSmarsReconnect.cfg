CONSTANTS
    Sidecars = {"http", "udp"}
    AppEvents = {}
    QueueLen = 4
    MaxLosses = 2
    MaxChanges = 0
    ConnectFails = TRUE
    LateSidecars = FALSE
    Failing = {}
SPECIFICATION FairSpec
PROPERTIES Reconnects
CHECK_DEADLOCK FALSE
