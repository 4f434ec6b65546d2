SPECIFICATION Spec
CONSTANTS
    w1 = w1
    w2 = w2
    t1 = t1
    t2 = t2
    Redis = redis
    Workers = {w1}
    Threads = {t1, t2}
    WorkerOf <- OneProcess
    Jtis = {j1, j2}
    Backends = {"memory", "redis"}
    TPS = 2
    Lifetime = 6
    MaxClock = 7
SYMMETRY Symmetric
INVARIANTS
    TypeOK
    RevokedStaysListed
    LateAcceptOnlyExpired
    LateAcceptOnlyLastSecond
    FailedOnlyExpired
