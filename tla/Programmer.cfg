SPECIFICATION Spec
CONSTANTS
    FlashBlocks = 2
    ImageBlocks = 2
    BootBlocks = 2
    ConfigWords = 2
    Faults = {"spoiled"}
    MaxRuns = 2
CHECK_DEADLOCK FALSE
INVARIANTS
    TypeOK
    Programmed
    Verified
    AheadBlank
    NoQuadWord
PROPERTIES
    ConfigLast
    RunEnds
