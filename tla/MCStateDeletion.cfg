\* Two groups and a third to come, one purge, two uses and one fault.
CONSTANTS
    MaxGroup = 3
    OldGroups = 2
    MaxUses = 2
    MaxPurges = 1
    MaxFaults = 1
SPECIFICATION FairSpec
INVARIANTS ReferencedKept DeltasWhole
PROPERTIES PendingSettled
CHECK_DEADLOCK FALSE
