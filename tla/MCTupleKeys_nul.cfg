\* A type that extends another by a NUL and more.
CONSTANTS
    Namespaces <- MCNamespaces
    Names <- MCNames
    Types <- MCNulTypes
    Tags <- MCTags
    Inputs <- MCNulInputs
    Positions <- MCPositions
    MaxTags = 3
    MaxEvents = 3
    MaxCursors = 1
SPECIFICATION Spec
CHECK_DEADLOCK FALSE
INVARIANTS
    ReadsOnlyAfter
