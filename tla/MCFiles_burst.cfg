CONSTANTS
    Contents = {"x", "y", "empty"}
    SizeOf <- MCSizeOf
    EchoWindow = 1
    Spaced = FALSE
    Races = FALSE
    MaxOps = 4
    MaxTime = 5
    Absent = Absent
SPECIFICATION FilesSpec
INVARIANT FileFollowsTree
CHECK_DEADLOCK FALSE
