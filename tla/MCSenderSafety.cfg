\* Three events in two rooms, a failure or a crash, and a long back-off.
SPECIFICATION Spec
CONSTANTS
    a = a
    b = b
    Rooms = {a, b}
    RoomOf <- Alternating
    StartsFrom = {1}
    MaxEvent = 4
    MaxMessage = 0
    Limit = 2
    MaxFailures = 1
    MaxBackoffs = 2
    MaxCrashes = 1
CONSTRAINTS
    Undisturbed
    OneFault
INVARIANTS
    TypeOK
    NoLoss
