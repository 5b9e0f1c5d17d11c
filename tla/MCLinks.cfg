SPECIFICATION LinksSpec
CONSTANTS
    Unused = Unused
    None = None
    a = a
    b = b
    Nothing = None
    Peers = {a, b}
    Slots = 1
    MaxCalls = 3
    Load <- Loaded
    Plain <- PlainRequest
    Policies <- Durability
    Dispatchers = {d1, d2}
    Relays = {r1}
    Requests = {c1, c2, c3}
    MaxInbound = 1
    Happens = {"inbound", "release", "close", "stop"}
    Interval = 2
    Grace = 1
    MaxMissed = 2
    MaxDials = 2
INVARIANTS DurabilityIsHonest FailsFast
PROPERTIES NoClobber Settles SlotsComeBack KeepsPromise EveryCallEnds FetchEnds
CHECK_DEADLOCK FALSE
