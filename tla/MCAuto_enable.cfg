\* auto_version switched on for a prefix that had a config without it.
SPECIFICATION AVSpec
CONSTANTS
    n1 = n1
    n2 = n2
    px = px
    py = py
    a = a
    b = b
    h1 = h1
    h2 = h2
    None = None
    Bad = Bad
    Names = {n1, n2}
    Prefixes = {px, py}
    Paths = {a, b}
    Hashes = {h1, h2}
    Under <- NestedUnder
    MayTrack <- OwnTrack
    TrackingName <- OwnName
    Autos = {TRUE, FALSE}
    Excludes = {{}}
    ExcludeTypes = {{}}
    Operators = {"handler"}
    MaxVersions <- Versions
PROPERTIES CapturedAlways
\* Where every prefix has MaxVersions versions no write is left.
CHECK_DEADLOCK FALSE
