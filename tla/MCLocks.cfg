\* Two readers and two writers of a lock, one fault; a lock between two processes, two faults.
CONSTANTS
    r1 = r1
    r2 = r2
    r3 = r3
    w = w
    p = p
    q = q
    a1 = a1
    b1 = b1
    Acquisitions = {r1, r2, r3, w}
    Writers = {r3, w}
    MaxLapses = 1
    Instances = {p, q}
    Tasks = {a1, b1}
    HomeOf <- OneTaskEach
    Waiters = {a1, b1}
    Timeout = 3
    RenewBy = 1
    MaxDelay = 1
    MaxFaults = 2
SPECIFICATION FairLocks
INVARIANTS WriterAlone ModeAgrees
PROPERTIES EveryoneGetsInTurn SomeoneGetsIn
CHECK_DEADLOCK FALSE
