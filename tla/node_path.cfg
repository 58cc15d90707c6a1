CONSTANTS
    n1 = n1
    none = none
    anyone = anyone
    Chips <- MCChips
    AnyChip = anyone
    Cmds <- MCCmds
    Ctrls <- MCCtrls
    NoCmd = none
    Addresses = {1}
    Unprovisioned = 255
    QUEUE_DEPTH = 1
    PENDING_MAX = 1
    MaxReports = 2
    SPI_OUT_DEPTH = 1
    SPI_CTRL_DEPTH = 1
    NODEIN_DEPTH = 1
    SPI_TRIES = 2
    MaxPosted = 2
    NUM_DATA_ENTRIES = 2
    MAX_RETRIES = 0
    NODE_ENTRIES = 2
    NODE_DEPTH = 2
    NODE_RETRIES = 1
SPECIFICATION MCSpec
INVARIANTS
    TypeOK
    ReadingsInOrder
    
    
    NoLostWakeUp
