CONSTANTS
    Edit = {e1, e2}
    Proc = {p1}
    Device = {d1}
    Deployments <- Alone
    MaxSerial = 5
    Origin = {"kern", "foreign"}
    NoBytes = NoBytes
    NoEntry = NoEntry
    MaxAttempts = 2
    MaxFaults = 2
SPECIFICATION FairSpec
INVARIANTS
    AckedEditsSurvive
PROPERTIES
    CallsEnd
