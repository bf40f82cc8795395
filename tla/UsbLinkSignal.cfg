CONSTANTS
    Command = {"XferData", "SetMode", "ExitPgmMode", "SetupIOPorts"}
    Faults = {"signal"}
    MaxPackets = 4
    MaxSessions = 1
SPECIFICATION Spec
CHECK_DEADLOCK FALSE
PROPERTIES
    ReadReturns
    Released
