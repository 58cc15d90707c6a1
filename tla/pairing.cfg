CONSTANTS
    n1 = n1
    none = none
    anyone = anyone
    Chips <- MCChips
    AnyChip = anyone
    Cmds <- MCCmds
    Ctrls <- MCCtrls
    NoCmd = none
    Addresses = {1}
    Unprovisioned = 255
    QUEUE_DEPTH = 1
    PENDING_MAX = 1
    MaxReports = 2
    NUM_DATA_ENTRIES = 2
    MAX_RETRIES = 0
    SEND_TRIES = 2
    MaxPower = 1
    MaxPosted = 2
SPECIFICATION Spec
INVARIANTS
    TypeOK
PROPERTIES
    ClearedIfConfirmed
    ArmedIsRetired
