\* Two consumers that share the cursor, against the advice of the docs.
CONSTANTS
    c1 = c1
    c2 = c2
    Calls = {c1, c2}
    s1 = s1
    s2 = s2
    Consumers = {s1, s2}
    Types <- MCTypes
    Tags <- MCTags
    Requests <- MCOneRequest
    OtherBounds = {}
    RetryLimit = 0
    MaxTags = 0
    U16Max = 2
    Query <- MCQuery
    PageSize = 1
    WaitsOnFresh = FALSE
    MaxCrashes = 1
SYMMETRY MCSymmetry
SPECIFICATION SubSafeSpec
INVARIANTS
    NothingSkipped
