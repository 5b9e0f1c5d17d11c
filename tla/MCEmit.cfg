\* The order of the standard peer: role watcher, index, clock, history recorder;
\* one subscription with a short queue, on a connection that comes and goes.
SPECIFICATION PathwaySpec
CONSTANTS
    a = a
    b = b
    c = c
    h1 = h1
    h2 = h2
    None = None
    IndexHook = "index"
    ClockHook = "clock"
    Hashes = {h1, h2}
    Paths = {a, b, c}
    Hooks = {"role", "index", "clock", "history"}
    Matching <- StdMatching
    HookWrites <- StdWrites
    HookOps = {"emit", "delete"}
    MayHalt = {"clock", "history"}
    Subs = {1}
    Subscribers <- StdSubscribers
    SuppressDepth = 2
    RefuseDepth = 2
    MaxCalls = 1
    RecursionLimit = 4
    MaxCommits = 4
    Nothing = None
    NoLimit = NoLimit
    Keys = {k1}
    Limits = {1, NoLimit}
    RateLimit = 2
    Capacity = 1
    QueueSize = 1
    Inflight = 2
    MaxId = 1
    MaxWrites = 3
    MaxCascade = 1
    MaxRenewals = 1
INVARIANTS DepthAgrees EventChain IndexSynchronous SendOrder NothingVanishes
PROPERTIES PipelineDrains
