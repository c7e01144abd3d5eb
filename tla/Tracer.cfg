SPECIFICATION FairSpec
CONSTANTS
    Spanners = {r1}
    Counters = {r2}
    Consumers = {a, b}
    Writable = {a}
    Lifetime = 0
    MaxEvents = 2
    MaxMeta = 1
    MaxTicks = 1
CHECK_DEADLOCK FALSE
INVARIANTS
    TypeOK
    NoGapNoRepeat
    SpansPair
    ArgsFollowTheirEvent
    NoneStuckExpired
PROPERTIES
    SweepReachesAll
    ExpiredCompletes
