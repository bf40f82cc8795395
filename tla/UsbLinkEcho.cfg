CONSTANTS
    Command = {"XferData", "WiresMode", "SetMode", "ExitPgmMode", "SetupIOPorts"}
    Faults = {"signal"}
    MaxPackets = 3
    MaxSessions = 1
SPECIFICATION Spec
CHECK_DEADLOCK FALSE
INVARIANTS
    EchoNamesCommand
