SPECIFICATION Spec
CONSTANTS
    p1 = p1
    p2 = p2
    r1 = r1
    r2 = r2
    r3 = r3
    NoRule = NoRule
    Rules <- MCRules
    Pushers <- Two
    SetOf <- TwoSets
    MAX_RULES = 2
    RX_RING = 2
    MAX_RETRIES = 1
    MaxParallel = 1
    MaxLost = 1
    MaxCrashes = 1
    MaxEvals = 1
INVARIANTS
    EngineMatchesStore
    EvalConsistent
