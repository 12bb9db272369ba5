SPECIFICATION Spec
CONSTANTS
    Procs = {p1, p2}
    None = None
    Tokens <- MCTokens
    Garbage = Garbage
    Oversized = {3}
    Platforms = {"windows", "other"}
    EnvToken = 1
    Requests <- MCRequests
    MaxAttempts = 2
    MaxCommands = 2
    MaxTroubles = 2
SYMMETRY ProcSymmetry
CHECK_DEADLOCK FALSE
INVARIANTS
    FileSound
    SentIsPersisted
    StillConnected
