SPECIFICATION MCSpec
CONSTANTS
    NameOrder <- MCNameOrder
    StdKeys = {"Title", "Password"}
    EntryOpt = {"CustomIconUUID", "OverrideURL", "Tags", "PreviousParentGroup", "QualityCheck", "AutoType"}
    GroupOpt = {"CustomIconUUID", "Tags", "PreviousParentGroup", "EnableSearching"}
    MetaOpt = {"Generator", "SettingsChanged", "Color", "DatabaseDescription", "DatabaseDescriptionChanged", "RecycleBinEnabled", "RecycleBinUUID", "RecycleBinChanged", "LastSelectedGroup", "HistoryMaxItems"}
    BadText = "bad"
    None = None
    Starts <- MCStarts
    NewIds <- MCNewIds
    Now = {3}
    Texts = {"x", "bad"}
    Fields = {"c1", "c2"}
    Files = {"f1", "f2"}
    DataKeys = {"k1", "k2"}
    Icons = {"i1", "i2"}
CHECK_DEADLOCK FALSE
INVARIANTS
    DocumentSound
    RoundTrip
    PatchKeepsEdits
    AcceptedIsKept
