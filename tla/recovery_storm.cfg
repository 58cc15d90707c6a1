SPECIFICATION Spec
CONSTANTS
    FREE_REBOOTS = 1
    STAGES = 2
    MaxBoots = 5
    MaxCrashes = 1
    MaxResets = 1
    MaxWriteFails = 1
INVARIANTS
    TypeOK
    
    StormBounded
    VerdictIsFresh
    CountSurvives
    UnexpectedIsHard
PROPERTY BackoffGrows
