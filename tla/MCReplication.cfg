\* Two writers, any one fault, or one and a failing catch-up.
CONSTANTS
    w1 = w1
    w2 = w2
    Writers = {w1, w2}
    KindsOf <- StateAndMoves
    MaxToken <- TwoAndOne
    Limit = 1
    FaultSets = {{"reader", "fetch"}, {"writer", "fetch"}, {"query"}}
SPECIFICATION FairSpec
 
PROPERTIES  CatchesUp
CHECK_DEADLOCK FALSE
