SPECIFICATION Spec
CONSTANTS
    c1 = c1
    c2 = c2
    c3 = c3
    Cmds <- ThreeCmds
    CmdKinds <- AllKinds
    SEQ_MOD = 8
    MAX_PENDING_ACKS = 1
    MAX_RETRIES = 1
    SeqResyncWindow = 2
    RX_RING = 2
    RX_CHAN = 2
    EVENT_CH = 1
    HELLO_ATTEMPTS = 1
    MaxTx = 4
    MaxEvents = 0
    MaxFaults = 1
    MaxRestarts = 0
SYMMETRY CmdSymmetry
INVARIANTS
    AckMeansApplied
    DataAtMostOnce
