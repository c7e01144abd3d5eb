SPECIFICATION Spec
CONSTANTS
    Events = {e1, e2}
    Consumers = {a}
    RingCapacity = 9
    MaxRingSize = 3
    Modulus = 7
    MaxVersion = 9
    ClearVersions = {3, 7}
    NoEvent = NoEvent
INVARIANTS
    TypeOK
    RingMirrorsLog
    RefusesOnlyLostOrFuture
    ConsumersSeeTheLog
PROPERTIES
    ImplementsEventLog
