SPECIFICATION Spec
CONSTANTS
    Op = {o1}
    Plat = {p1}
    Workloads <- EditDuringPlugin
    NoPlat = NoPlat
    NoCopy = NoCopy
    MaxReceipts = 1
    MaxCalls = 1
    MaxFaults = 1
CHECK_DEADLOCK FALSE
PROPERTIES
    RelockKeepsEdits
