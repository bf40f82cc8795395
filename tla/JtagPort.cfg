SPECIFICATION Spec
CONSTANTS
    Instruction <- MCInstruction
    Data <- MCData
INVARIANTS
    Synchronised
PROPERTIES
    PortSpec
