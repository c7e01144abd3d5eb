SPECIFICATION FairSpec
CONSTANTS
    Starts = {s1, s2}
    Stops = {p1, p2}
    Rpcs = {r1, r2, r3}
    StopsInTime = TRUE
CHECK_DEADLOCK FALSE
INVARIANTS
    TypeOK
    QuietAfterStop
PROPERTIES
    StopEndsAll
