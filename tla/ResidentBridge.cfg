SPECIFICATION Spec
CONSTANTS
    Op = {o1, o2}
    Plat = {p1, p2}
    Workloads <- FrontsOrPlugin
    NoPlat = NoPlat
    NoCopy = NoCopy
    MaxReceipts = 1
    MaxCalls = 2
    MaxFaults = 1
SYMMETRY Symmetry
CHECK_DEADLOCK FALSE
INVARIANTS
    SessionSound
    OutcomesTrue
    EditsAccounted
PROPERTIES
    EditsKept
