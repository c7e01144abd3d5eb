SPECIFICATION Spec
CONSTANTS
    Max = 3
    Preallocated = 0
    MaxFree = 5
INVARIANTS
    NoDoubleAllocation
