SPECIFICATION Spec
CONSTANTS
    FIFO_DEPTH = 2
    SizeMod = 4
    Data = {1, 6}
    DAT_WID = 3
    RAM_WORD = 2
    BYTES = 2
    AddrMod = 32
    MEMORY_START = 20
    MEMORY_LENS = {8, 9}
    MEMORY_WAIT_TIME = 3
    CYCLE_WAIT = 2
    SAMPLES = 4
INVARIANTS
    ShimTypeOK
    StoredInOrder
PROPERTIES
    PointerNeverAhead
    FifoIsQueue
    BusHeld
    AllStored
