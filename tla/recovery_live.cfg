SPECIFICATION FairSpec
CONSTANTS
    FREE_REBOOTS = 1
    STAGES = 2
    MaxBoots = 3
    MaxCrashes = 1
    MaxResets = 1
    MaxWriteFails = 0
 
PROPERTY StableForgives
