SPECIFICATION Spec
CONSTANTS
    FlashBlocks = 1
    ImageBlocks = 1
    BootBlocks = 1
    ConfigWords = 2
    Faults = {}
    MaxRuns = 1
CHECK_DEADLOCK FALSE
INVARIANTS
    VerifiedConfig
