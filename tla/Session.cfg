SPECIFICATION Spec
CONSTANTS
    Adapters = {"usbpic", "pickit", "ascii"}
    Supplies = {"board", "adapter"}
    Modes = {"JTAG", "ICSP"}
    Jobs = {"probe", "erase", "program", "verify", "read"}
    Wirings = {{"JTAG"}, {"ICSP"}}
    Families = {"mx", "mz"}
    Protected = {TRUE, FALSE}
    Faults = {"kill"}
    MaxBlocks = 2
    MaxPolls = 3
CHECK_DEADLOCK FALSE
INVARIANTS
    TypeOK
    RegisterFits
    OnlyEntryMisses
    Debuggable
    PeAlive
    LoaderInStep
    BuffersFit
    ClosedClean
