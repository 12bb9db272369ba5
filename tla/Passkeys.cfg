SPECIFICATION Spec
CONSTANTS
    Tokens = {t1, t2}
    Ops = {p1}
    None = None
    Locked = Locked
    NoOrigin = NoOrigin
    Identities <- MCIdentities
    LoopbackHosts <- MCLoopbackHosts
    IpHosts <- MCIpHosts
    PublicSuffixes <- MCPublicSuffixes
    Refused = Refused
    Credentials <- MCCredentials
    CredentialBytes <- MCCredentialBytes
    PublicKey <- MCPublicKey
    Digest <- MCDigest
    HandleBytes <- MCHandleBytes
    Device <- MCDevice
    Rp <- MCRp
    User = "u"
    InitialVault <- MCVault
    Ttl = 1
    ClosePhases = {"aborted"}
    MaxHistory = 1
    MaxTroubles = 2
    MaxStarted = 2
SYMMETRY MCSymmetry
CHECK_DEADLOCK FALSE
INVARIANTS
    CeremonySound
    SiteCredentialSaved
    UncommittedIsAccounted
PROPERTIES
    RollbackKeepsOthers
