SPECIFICATION FairSpec
CONSTANTS
    c1 = c1
    c2 = c2
    c3 = c3
    Cmds <- OneCmd
    CmdKinds <- AllKinds
    SEQ_MOD = 8
    MAX_PENDING_ACKS = 1
    MAX_RETRIES = 1
    SeqResyncWindow = 4
    RX_RING = 1
    RX_CHAN = 1
    EVENT_CH = 1
    HELLO_ATTEMPTS = 1
    MaxTx = 2
    MaxEvents = 2
    MaxFaults = 1
    MaxRestarts = 0
PROPERTIES
    CallsReturn
    ReportsSettle
CHECK_DEADLOCK FALSE
