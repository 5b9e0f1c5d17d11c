SPECIFICATION RequestsSpec
CONSTANTS
    Nothing = Nothing
    Slots = {s1, s2}
    Installs <- AllStanding
    Rounds = 2
    Ceiling = 2
    MaxRoots = 2
    Peers <- BothPeers
    Paths <- BothPaths
    Bound <- Bindings
    Scopes <- Grantable
    SelfScope <- OwnScope
    Held <- Holdings
    Credentials <- Credential
    DefaultTtl = 2
    MaxFrames = 4
    MaxChanges = 2
    Missing = Missing
    p1 = p1
    p2 = p2
    c1 = c1
    c2 = c2
    g1 = g1
    r1 = r1
    r2 = r2
    m1 = m1
    Relays = {r1, r2}
    Dest = dest
    Msgs = {m1}
    DeadlineOf <- Deadlines
    Tables <- RouteTables
    Sends <- Requested
    Retention = 2
    Capacity = 1
    Limits = {1}
    MaxOps = 3
    MaxEntries = 1
    MaxRelayNow = 1
    Conns = {c1, c2}
    Grants = {g1}
    Formats = {1, 2}
    MaxHandshakeNow = 2
    MaxPolicies = 2
    MaxSessions = 2
    MaxFlows = 2
    MaxEvents = 1
    MaxNetworkNow = 4
    Backoff <- Linear
INVARIANTS RoundPure OneAtATime NotDropped FollowsNewest KeepsTrying
PROPERTY UnregisteredStaysOut
SYMMETRY Symmetry
CHECK_DEADLOCK FALSE
