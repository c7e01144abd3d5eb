SPECIFICATION Spec
CONSTANTS
    Max = 4
    Preallocated = 1
    MaxFree = 6
INVARIANTS
    TypeOK
    FreeListIsComplement
    NoIndexIsLost
PROPERTIES
    ImplementsIndexPool
