SPECIFICATION FairSpec
CONSTANTS
    w1 = w1
    w2 = w2
    c1 = c1
    c2 = c2
    t1 = t1
    t2 = t2
    None = None
    Workers = {w1, w2}
    Clients = {c1, c2}
    Tasks = {t1, t2}
    Pushers = {c1, c2}
    Owners <- OneEach
    Joiners <- T1Joined
    JoinCalls = {"join_lock", "timed_lock"}
    MaxThreads = 1
    MaxTasks = 1
    Gens = 1
INVARIANTS
    MutexOwners
    CountersAgree
    NoLostWakeup
PROPERTIES
    TasksEnd
    CallsReturn
