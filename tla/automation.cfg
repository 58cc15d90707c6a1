CONSTANTS
    Rules <- MCRules
    NodeAddrs <- MCNodeAddrs
    Leftover <- MCLeftover
    DAY = 2
    OUTBOX_DEPTH = 2
    NODEIN_DEPTH = 1
    MaxSyncs = 2
    MaxPushes = 1
    Suns <- MCSuns
    Address = 1
    Unprovisioned = 255
    REPORT_EVERY = 1
    SOLAR_DEPTH = 1
    MaxPower = 1
    Frames <- MCFrames
    Orders <- MCOrders
    DOWN_DEPTH = 1
    DOWN_RETRIES = 0
SPECIFICATION MCSpec
INVARIANTS
    Aligned
    PumpDriven
PROPERTIES
    EachMinuteOnce
    PumpFollows
