\* Two calls with every kind of argument, two retries, no symmetry: the
\* refinement and the liveness of the loop.
CONSTANTS
    c1 = c1
    c2 = c2
    c3 = c3
    Calls = {c1, c2}
    Types <- AllTypes
    Tags <- AllTags
    Requests <- AllRequests
    OtherBounds <- LaterBound
    RetryLimit = 2
    MaxTags = 2
    U16Max = 2
SPECIFICATION FairSpec
INVARIANTS
    AppliedOnce
    TruthfulVerdict
    BatchInOrder
    Inv
PROPERTIES
    ImplementsStore
    EveryCallReturns
