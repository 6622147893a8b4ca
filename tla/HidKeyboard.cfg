CONSTANTS
    kUsbHidQueueLength = 3
    MaxTouches = 6
SPECIFICATION Spec
PROPERTIES PressesApart CleanPairs
