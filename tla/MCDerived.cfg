SPECIFICATION DerivedSpec
CONSTANTS
    Unused = Unused
    Nothing = Nothing
    NotFound = NotFound
    LimitError = LimitError
    GrantError = GrantError
    None = None
    p1 = p1
    p2 = p2
    n1 = n1
    n2 = n2
    n3 = n3
    Names = {nm}
    Peers = {p1, p2}
    Nonces = {1}
    Ttls = {2}
    Policies <- IssuerPolicies
    Ceiling = 1
    Retention = 1
    Window = 0
    MaxNow = 1
    MaxIssued = 2
    Inputs = {"x", "y"}
    Subs = {"a", "b", "c"}
    Exprs = {"ea", "eb", "eb2", "ec"}
    Rooted <- Roots
    Reads <- Lookups
    Adds <- Added
    Stores <- Storing
    Out <- Results
    Letters <- NameLetters
    MaxPattern = 3
    MaxName = 3
    Contents <- FileContents
    SizeOf <- FileSize
    EchoWindow = 1
    Spaced = TRUE
    Races = FALSE
    MaxOps = 3
    MaxTime = 5
    Absent = Absent
    Initiator = 1
    Responder = 2
    Stranger = 3
    Endpoints <- Nodes
    Views <- Pools
    Modes <- KeyedBy
    Fanout = 2
    MaxBlobs = 3
    MaxKeys = 1
    Ttl = 1
    OpsPerWindow = 2
    RateWindow = 1
    MaxNonce = 2
    MaxNoise = 1
    MaxClock = 1
    Unset = Unset
    Modulus = 2
    Limit = 3
    Refuse = 5
    MaxCalls = 5
INVARIANTS AnswersHold GlobIsRight Meet ResultsCurrent FileFollowsTree
PROPERTY BudgetOnlyAborts
CHECK_DEADLOCK FALSE
