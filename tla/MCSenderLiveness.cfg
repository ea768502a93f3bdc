\* An event and two messages, to a known or an unknown destination.
SPECIFICATION FairSpec
CONSTANTS
    a = a
    b = b
    Rooms = {a, b}
    RoomOf <- Alternating
    StartsFrom = {0, 1}
    MaxEvent = 2
    MaxMessage = 2
    Limit = 1
    MaxFailures = 1
    MaxBackoffs = 2
    MaxCrashes = 1
INVARIANT MessagesKept
PROPERTIES
    EventsDelivered
    MessagesDelivered
