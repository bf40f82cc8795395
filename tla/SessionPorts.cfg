SPECIFICATION Spec
CONSTANTS
    Adapters = {"usbpic"}
    Supplies = {"board"}
    Modes = {"JTAG", "ICSP"}
    Jobs = {"erase"}
    Wirings = {{"ICSP"}}
    Families = {"mx"}
    Protected = {FALSE}
    Faults = {}
    MaxBlocks = 1
    MaxPolls = 2
CHECK_DEADLOCK FALSE
INVARIANTS
    ClosePortsInput
