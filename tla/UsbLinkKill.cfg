CONSTANTS
    Command = {"SerialExecutionMode", "SetMode", "ExitPgmMode", "SetupIOPorts"}
    Faults = {"kill"}
    MaxPackets = 4
    MaxSessions = 4
SPECIFICATION Spec
CHECK_DEADLOCK FALSE
INVARIANTS
    BoundedBacklog
PROPERTIES
    NeverTwice
