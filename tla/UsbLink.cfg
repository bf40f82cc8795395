CONSTANTS
    Command = {"XferData", "WiresMode", "SetMode", "ExitPgmMode", "SetupIOPorts"}
    Faults = {}
    MaxPackets = 5
    MaxSessions = 2
SPECIFICATION Spec
CHECK_DEADLOCK FALSE
INVARIANTS
    TypeOK
    AnswersMatch
    EchoNamesCommand
    OneReply
PROPERTIES
    ReplyIntact
    RpcSpec
