CONSTANTS
    configTOTAL_HEAP_SIZE = 128
    portBYTE_ALIGNMENT = 4
    LinkSize = 8
    Requests = {0, 1, 17, 60, 116}
SPECIFICATION Spec
INVARIANTS Tiles
PROPERTIES BestFit ImplementsAllocator
