\* Three calls whose conditions exclude each other.
CONSTANTS
    c1 = c1
    c2 = c2
    c3 = c3
    Calls = {c1, c2, c3}
    Types <- MCTypes
    Tags <- MCTags
    Requests <- Contending
    OtherBounds = {}
    RetryLimit = 1
    MaxTags = 2
    U16Max = 2
SYMMETRY CallSymmetry
SPECIFICATION Spec
INVARIANTS
    TypeOK
    ConditionsHeld
