SPECIFICATION FairSpec
CONSTANTS
    t = t
    u = u
    l = l
    h1 = h1
    h2 = h2
    NoChip = NoChip
    Chips <- Battery
    AlwaysOn <- None
    addrPoolFirst = 16
    addrPoolLast = 16
    PENDING_MAX = 2
    Handlers <- One
    MaxNodes = 2
    MaxRequests = 2
    MaxJoins = 2
    MaxUp = 1
    MaxDown = 1
    MaxFaults = 0
    MaxRestarts = 1
PROPERTIES
    Silenced
