\* One subscription and cascades of up to two changes.
SPECIFICATION SubscriptionSpec
CONSTANTS
    Nothing = Nothing
    NoLimit = NoLimit
    Keys = {k1}
    Limits = {1, NoLimit}
    RateLimit = 2
    Capacity = 1
    QueueSize = 2
    Inflight = 2
    MaxId = 1
    MaxWrites = 4
    MaxCascade = 2
    MaxRenewals = 1
INVARIANT TreeChangeOrder
\* The bounds MaxWrites, MaxId and MaxRenewals stop a behaviour.
CHECK_DEADLOCK FALSE
