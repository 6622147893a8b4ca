CONSTANTS
    Sidecars = {"http", "udp"}
    AppEvents = {}
    QueueLen = 4
    MaxLosses = 3
    MaxChanges = 2
    ConnectFails = FALSE
    LateSidecars = FALSE
    Failing = {"httpd_start", "httpd_stop", "xSemaphoreCreateBinary", "socket", "sendto"}
SPECIFICATION FairSpec
INVARIANTS TokenConserved HandleKnowsServer Settled
PROPERTIES KeepsSending
CHECK_DEADLOCK FALSE
