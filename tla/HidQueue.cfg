SPECIFICATION Spec
CONSTANTS
    Backends = {"libusb", "mac"}
    Faults = {"unplug", "submit", "fatal", "spurious"}
    Limit = 1
    MaxReports = 6
INVARIANTS
    TypeOK
    FailedIsFinal
    RunLoopValid
PROPERTIES
    QueueSpec
    ReadReturns
    CloseReturns
