CONSTANTS
    Edit = {e1, e2}
    Proc = {p1, p2}
    Device = {d1, d2}
    Deployments <- Together
    MaxSerial = 6
    Origin = {"kern"}
    NoBytes = NoBytes
    NoEntry = NoEntry
    MaxAttempts = 1
    MaxFaults = 1
SPECIFICATION Spec
SYMMETRY Symmetry
INVARIANTS
    PatchSound
    AckedEditsSurvive
PROPERTIES
    PushKeepsHead
