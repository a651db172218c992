\* One consumer that crashes twice, two appends.
CONSTANTS
    c1 = c1
    c2 = c2
    Calls = {c1, c2}
    s1 = s1
    Consumers = {s1}
    Types <- MCTypes
    Tags <- MCTags
    Requests <- MCRequests
    OtherBounds = {}
    RetryLimit = 0
    MaxTags = 0
    U16Max = 3
    Query <- MCQuery
    PageSize = 1
    WaitsOnFresh = FALSE
    MaxCrashes = 2
SPECIFICATION SubSpec
INVARIANTS
    SubTypeOK
    NoLostWake
    NothingSkipped
    SubInv
PROPERTIES
    EventuallyHandled
