SPECIFICATION Spec
CONSTANTS
    MaxEvent = 5
    Known = {1, 2}
    Graphs <- RoomGraphs
    Sends = {{}}
    ChunkSizes = {2}
    MaxRejected = 1
    MaxSubmitted = 4
    MaxFaults = 0
INVARIANTS
    ExtremitiesLeft
CHECK_DEADLOCK FALSE
