\* A client with two calls and one with one, room for two claims, a call of
\* another; reads of one event or of all.
CONSTANTS
    k1 = k1
    k2 = k2
    o1 = o1
    Clients = {k1, k2}
    Others = {o1}
    MaxCalls <- MCMaxCalls
    Types <- MCTypes
    Tags <- MCTags
    Query <- MCQuery
    Claim <- MCClaim
    Capacity = 2
    OtherEvents <- MCOtherEvents
    Limits = {0, 1}
SPECIFICATION LoopSpec
CHECK_DEADLOCK FALSE
INVARIANTS
    LoopTypeOK
    RuleKept
    LoopInv
PROPERTIES
    DecisionsCurrent
    RefusalIsNews
