SPECIFICATION Spec
CONSTANTS
    Spanners = {r1}
    Counters = {}
    Consumers = {a, b}
    Writable = {a}
    Lifetime = 0
    MaxEvents = 1
    MaxMeta = 0
    MaxTicks = 1
CHECK_DEADLOCK FALSE
INVARIANTS
    ShutdownCompletes
