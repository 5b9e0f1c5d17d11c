SPECIFICATION VersionsSpec
CONSTANTS
    Unused = Unused
    None = None
    Marker = Marker
    Everything = Everything
    Malformed = Malformed
    Peers = {p1, p2}
    Values = {v1, v2}
    Replicas = {p1, p2}
    PrefixPaths <- OnePath
    Contents = {v1, v2}
    Branches <- OneBranch
    Absent = None
    Deep <- Shallow
    Policies <- Strategies
    MaxDirty = 1
    main = main
    y1 = y1
    DataPaths = {y1, y2}
    ConfigNames = {1}
    EventSets <- Lists
    Nothing = None
    RefuseDepth = 3
    MaxWall = 1
    MaxWrites = 2
    MaxConfigs = 1
    Entities = {"e1", "e2"}
    Dirs = {1, 2}
    Names = {1, 2}
    Trees = {"side"}
    TypeOf <- KindOf
    Refs <- RefsOf
    CanRead <- MayRead
    CanPut <- MayPut
    Queries <- Asks
    AnyEnvelope = FALSE
    Starts <- Filled
    Limit = 1
    MaxOps = 3
INVARIANTS MergesAgree HeadDescribesTree DiffIsExact HeadIsBinding IndexAgrees ScanComplete
SYMMETRY Symmetry
CHECK_DEADLOCK FALSE
