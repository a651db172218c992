\* Two namespaces, three events, one cursor.
CONSTANTS
    Namespaces <- MCNamespaces
    Names <- MCNames
    Types <- MCTypes
    Tags <- MCTags
    Inputs <- MCInputs
    Positions <- MCPositions
    MaxTags = 3
    MaxEvents = 3
    MaxCursors = 1
SPECIFICATION Spec
CHECK_DEADLOCK FALSE
INVARIANTS
    BytesTypeOK
    RangesExact
    ScansInOrder
    NamespacesApart
    KeysInv
