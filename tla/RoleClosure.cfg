SPECIFICATION FairExpansion
CONSTANTS
    RoleId = {a, b, c}
    MaxDepth = 2
INVARIANTS Exact ErrorMeansDeep
PROPERTY Terminates
CHECK_DEADLOCK FALSE
