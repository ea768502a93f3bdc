\* Two threads of one writer and one of another, batches of up to two IDs,
\* one failed fetch and one restart.
SPECIFICATION Spec
CONSTANTS
    w1 = w1
    w2 = w2
    r = r
    t1 = t1
    t2 = t2
    t3 = t3
    Writers = {w1, w2}
    Instances = {w1, w2}
    Threads = {t1, t2, t3}
    HomeOf <- TwoAndOne
    InitialEntry = 1
    MaxId = 3
    MaxBatch = 2
    MaxFailures = 1
    MaxRestarts = 1
INVARIANTS
    TypeOK
    PersistedUptoSafe
    OwnTokenSafe
    IdleTokenComplete
PROPERTY TokensMonotonic
CHECK_DEADLOCK FALSE
