\* Two delayed events with one incident; one application service with three
\* events, two faults and a restart.
CONSTANTS
    rq = rq
    bg = bg
    svc = svc
    Events = {1, 2}
    DelayOf <- Delays
    KeyOf <- SameKey
    OwnerOf <- TwoOwners
    NoKey = "none"
    Others = {"w"}
    Clients = {rq}
    Senders = {bg}
    MaxTime = 3
    MaxIncidents = 1
    Services = {svc}
    MaxEvent = 3
    PerTransaction = 2
    MaxFaults = 2
    MaxRestarts = 1
SPECIFICATION FairDelivery
INVARIANTS Accounted LookedAfter InOrder OneOutcome TimerCovers StateWins
PROPERTIES EventsReach AllLeave
CHECK_DEADLOCK FALSE
