\* A frame is cut short by the end of the stream.
SPECIFICATION Spec
CONSTANTS
    Requests = {r1, r2}
    MaxInbound = 0
INVARIANTS FailsFastAlways
