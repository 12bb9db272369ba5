SPECIFICATION Spec
CONSTANTS
    Runtimes = {r1, r2}
    None = None
    Requests <- MCRequests
    InitialVault <- MCVault
    Forbidden <- MCForbidden
    Twin <- MCTwin
    NewCred = "x"
    Edited = "e"
    MaxReceipts = 2
    Retention = 10
    MaxHistory = 2
    MaxAttempts = 2
    MaxCalls = 2
    MaxFaults = 2
    MaxEdits = 1
SYMMETRY MCSymmetry
CHECK_DEADLOCK FALSE
INVARIANTS
    DurableSound
PROPERTIES
    PublishesSafely
    LiveEditsKept
