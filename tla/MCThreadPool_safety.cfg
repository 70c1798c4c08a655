SPECIFICATION Spec
CONSTANTS
    w1 = w1
    w2 = w2
    c1 = c1
    c2 = c2
    t1 = t1
    t2 = t2
    None = None
    Workers = {w1, w2}
    Clients = {c1, c2}
    Tasks = {t1, t2}
    Pushers = {c1}
    Owners <- T1Shared
    Joiners <- T1Joined
    JoinCalls <- JoinEntry
    MaxThreads = 2
    MaxTasks = 1
    Gens = 2
SYMMETRY WorkerSymmetry
INVARIANTS
    TypeOK
    TaskMemorySafe
    TaskPlacement
    WorkConserving
    ResultIsThisRun
    PoolMemorySafe
PROPERTIES
    ImplementsLifecycle
