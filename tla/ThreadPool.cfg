SPECIFICATION FairSpec
CONSTANTS
    Workers = {w1, w2, w3}
    Clients = {c1, c2}
    t1 = t1
    t2 = t2
    t3 = t3
    t4 = t4
    NoTask = NoTask
    Tasks <- MCTasks
    Needs <- MCNeeds
    Spawns <- MCSpawns
INVARIANTS
    TypeOK
    FifoDispatch
    PendingHasOneCarrier
    NoLostWakeup
    PoolCanGoOn
    DrainedWhenDestroyed
PROPERTIES
    AcceptedWorkEnds
    ImplementsFairService
