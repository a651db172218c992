\* The order of ADR 0009: register, read, then wait_for_sentinel_change.
CONSTANTS
    c1 = c1
    c2 = c2
    Calls = {c1, c2}
    s1 = s1
    Consumers = {s1}
    Types <- MCTypes
    Tags <- MCTags
    Requests <- MCRequests
    OtherBounds = {}
    RetryLimit = 0
    MaxTags = 0
    U16Max = 3
    Query <- MCQuery
    PageSize = 1
    WaitsOnFresh = TRUE
    MaxCrashes = 1
SPECIFICATION SubSafeSpec
INVARIANTS
    NoLostWake
