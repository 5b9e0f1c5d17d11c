\* Nested prefixes, configured by the operation or by direct puts, with excludes.
SPECIFICATION AVSpec
CONSTANTS
    n1 = n1
    n2 = n2
    px = px
    py = py
    a = a
    b = b
    h1 = h1
    h2 = h2
    None = None
    Bad = Bad
    Names = {n1, n2}
    Prefixes = {px, py}
    Paths = {a, b}
    Hashes = {h1, h2}
    Under <- NestedUnder
    MayTrack <- OwnTrack
    TrackingName <- OwnName
    Autos = {TRUE, FALSE}
    Excludes = {{a}}
    ExcludeTypes = {{h2}}
    Operators = {"handler", "direct"}
    MaxVersions <- Versions
INVARIANTS TrackedIsBuild
PROPERTIES Captured
\* Where every prefix has MaxVersions versions no write is left.
CHECK_DEADLOCK FALSE
