SPECIFICATION Spec
CONSTANTS
    Refs = {l, o}
    Remote = {o}
    Legacy = {l}
    Creds = {k1, k2}
    Clients = {c1}
    NoRef = NoRef
    NoFile = NoFile
    NoVault = NoVault
    MaxCommands = 3
    MaxTroubles = 2
    MaxEvents = 4
    o = o
    k1 = k1
    k2 = k2
    c1 = c1
    l = l
INVARIANTS
    RecordsSound
    NothingLeft
PROPERTIES
    UsefulRecordKept
