SPECIFICATION FairSpec
CONSTANTS
    w1 = w1
    w2 = w2
    c1 = c1
    c2 = c2
    t1 = t1
    t2 = t2
    None = None
    Workers = {w1}
    Clients = {c1}
    Tasks = {t1}
    Pushers = {c1}
    Owners <- T1Shared
    Joiners <- T1Joined
    JoinCalls = {"huge_lock"}
    MaxThreads = 1
    MaxTasks = 1
    Gens = 1
PROPERTIES
    InfiniteJoinReturns
