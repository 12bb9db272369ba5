CONSTANTS
    Edit = {e1, e2}
    Proc = {p1, p2}
    NoProc = NoProc
    Platform = {"unix", "windows"}
    MaxSaves = 3
    MaxFaults = 4
    MaxEvents = 5
SPECIFICATION Spec
SYMMETRY Symmetry
CHECK_DEADLOCK FALSE
INVARIANTS
    CommitSound
    AckedSurvives
    ForeignPreserved
