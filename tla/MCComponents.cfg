\* Three components in turn, each on a small instance.
CONSTANTS
    f1 = f1
    f2 = f2
    s1 = s1
    s2 = s2
    w1 = w1
    w2 = w2
    t1 = t1
    t2 = t2
    Keys = {1, 2}
    OuterKey = 1
    Fetches = {f1, f2}
    MaxVersion = 1
    Tasks = {s1, s2}
    Capacity = 2
    MaxFaults = 2
SPECIFICATION FairComponents
INVARIANTS NoStale OuterNotStale
PROPERTIES EndIsFinal EveryTaskEnds RowsEventuallyVisible
CHECK_DEADLOCK FALSE
