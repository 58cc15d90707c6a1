SPECIFICATION Spec
CONSTANTS
    c1 = c1
    c2 = c2
    c3 = c3
    Cmds <- NoCmds
    CmdKinds <- NoKinds
    SEQ_MOD = 8
    MAX_PENDING_ACKS = 2
    MAX_RETRIES = 1
    SeqResyncWindow = 4
    RX_RING = 2
    RX_CHAN = 2
    EVENT_CH = 1
    HELLO_ATTEMPTS = 1
    MaxTx = 1
    MaxEvents = 3
    MaxFaults = 0
    MaxRestarts = 1
INVARIANTS
    TypeOK
    InOrderOnce
    AckedIsDelivered
PROPERTY KeepsPromise
