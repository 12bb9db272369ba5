CONSTANTS
    r1 = r1
    r2 = r2
    i1 = i1
    Req = {r1, r2}
    Id = {i1}
    IdOf <- OneId
    NoReq = NoReq
    MaxCancels = 2
    MaxCalls = 3
    MaxResponse = 5
    ChunkBytes = 4
    MaxChunked = 9
    MaxChunks = 5
    MaxTroubles = 1
SPECIFICATION MCSpec
CHECK_DEADLOCK FALSE
INVARIANTS
    TypeOK
    FramesAwaited
    NoFalseDuplicate
PROPERTIES
    ImplementsOutcome
    RequestsSettle
    ChannelKept
