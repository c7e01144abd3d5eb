SPECIFICATION FairSpec
CONSTANTS
    A = A
    B = B
    wA = wA
    tB = tB
    rB = rB
    v1 = v1
    v2 = v2
    Threads = {wA, tB, rB}
    Configs = {A, B}
    ConfigOf <- SharedConfigOf
    Writers = {wA, tB}
    Readers = {tB, rB}
    Values = {v1, v2}
    InitialValue = v1
    Free = Free
    OverridesLock = FALSE
    MaxSets = 3
    MaxWrites = 3
INVARIANTS
    TypeOK
    ConfigHasSeenFile
PROPERTIES
    NeverAnOlderText
    ConfigsCatchUp
