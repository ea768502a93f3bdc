SPECIFICATION FairSpec
CONSTANTS
    MaxEvent = 5
    Known = {1, 2}
    Graphs <- RoomGraphs
    Sends = {{}, {4, 5}}
    ChunkSizes = {1, 2}
    MaxRejected = 1
    MaxSubmitted = 3
    MaxFaults = 1
INVARIANTS
    TipsKept
    NoDangling
    OncePerTransaction
    StateMatches
    BackwardExact
PROPERTIES
    AllAnswered
CHECK_DEADLOCK FALSE
