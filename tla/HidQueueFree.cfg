SPECIFICATION Spec
CONSTANTS
    Backends = {"libusb"}
    Faults = {}
    Limit = 1
    MaxReports = 2
INVARIANT FreedIsIdle
