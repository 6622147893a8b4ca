CONSTANTS
    Item = {x, y}
    uxLength = 3
SPECIFICATION RingSpec
INVARIANTS RingTypeOK WriteFollowsItems
PROPERTIES ImplementsFifo
