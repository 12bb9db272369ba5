CONSTANTS
    Content = {a, b, c}
    OpId = {o1, o2}
    Cond = {e1}
    NoContent = NoContent
    NoOp = NoOp
    NoCond = NoCond
    NoGen = NoGen
    NoManifest = NoManifest
    NoReq = NoReq
    MaxFaults = 1
    MaxCuts = 1
SPECIFICATION Spec
SYMMETRY ContentSymmetry
INVARIANTS
    TypeOK
    ManifestReadable
    PendingRecoverable
PROPERTIES
    PendingReplacedByProof
    ImplementsPendingSlot
