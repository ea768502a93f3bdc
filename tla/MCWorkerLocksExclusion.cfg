\* Two tasks of one process and one of another; what follows a disturbance is cut.
SPECIFICATION Spec
CONSTANTS
    p = p
    q = q
    a1 = a1
    a2 = a2
    b1 = b1
    Instances = {p, q}
    Tasks = {a1, a2, b1}
    HomeOf <- TwoAndOne
    Waiters = {a1, b1}
    Timeout = 3
    RenewBy = 1
    MaxDelay = 1
    MaxFaults = 2
CONSTRAINT Undisturbed
INVARIANTS
    Exclusive
