SPECIFICATION Spec
CONSTANTS
    t = t
    u = u
    l = l
    h1 = h1
    h2 = h2
    NoChip = NoChip
    Chips <- Mixed
    AlwaysOn <- Light
    addrPoolFirst = 16
    addrPoolLast = 16
    PENDING_MAX = 2
    Handlers <- One
    MaxNodes = 2
    MaxRequests = 4
    MaxJoins = 2
    MaxUp = 1
    MaxDown = 1
    MaxFaults = 1
    MaxRestarts = 1
INVARIANTS
    TypeOK
    OneOwner
    RuleNamesOwner
    
