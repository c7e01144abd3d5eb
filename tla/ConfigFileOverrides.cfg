SPECIFICATION FairSpec
CONSTANTS
    A = A
    B = B
    wA = wA
    rB = rB
    tB = tB
    v1 = v1
    v2 = v2
    Threads = {wA, rB}
    Configs = {A, B}
    ConfigOf <- PairConfigOf
    Writers = {wA}
    Readers = {rB}
    Values = {v1, v2}
    InitialValue = v1
    Free = Free
    OverridesLock = TRUE
    MaxSets = 4
    MaxWrites = 1
CHECK_DEADLOCK FALSE
PROPERTIES
    WriteReturns
