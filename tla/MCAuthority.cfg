SPECIFICATION AuthoritySpec
CONSTANTS
    Unused = Unused
    Nothing = Nothing
    Forever = Forever
    Segments <- Words
    Hosts <- TwoHosts
    LocalPeer = "l"
    Offers <- Sayings
    Sparing <- Lineages
    MaxTokens = 3
    Policies <- Entries
    Requests <- Asked
    NoPolicy = Nothing
    NoCaveat = Nothing
    TimeMax = 7
    MaxNow = 1
    MaxLinks = 2
    p1 = p1
    p2 = p2
    Peers = {p1, p2}
    Roles = {r1, r2}
    Grants = {1, 2}
    Order <- InOrder
    Local = p1
    Callers <- Holders
    NoRole = NoRole
    MaxMints <- Mints
    q1 = q1
    q2 = q2
    s1 = s1
    s2 = s2
    c1 = c1
    c2 = c2
INVARIANTS
    ExcludedHoldsNothing TokensFollowDefinition NeverMore LiveAsIntended
    CacheCoherent CapsSettled
SYMMETRY Symmetry
CHECK_DEADLOCK FALSE
