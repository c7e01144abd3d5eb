SPECIFICATION Spec
CONSTANTS
    Starts = {s1}
    Stops = {p1}
    Rpcs = {r1}
    StopsInTime = FALSE
CHECK_DEADLOCK FALSE
INVARIANTS
    StopBlocks
