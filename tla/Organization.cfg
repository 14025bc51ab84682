SPECIFICATION Spec
CONSTANTS
    top = top
    mid = mid
    low = low
    m = m
    n = n
    op = op
    other = other
    Dept = {top, mid, low}
    User = {op, other}
    Role = {m, n}
    Held <- MCHeld
    Scopes <- MCScopes
    Trees <- MCTrees
    Homes <- MCHomes
    Req = {r1, r2}
    None = None
    MaxRequests = 2
SYMMETRY Symmetry
INVARIANTS ScopeInv TreeIsWhole
PROPERTIES ChecksSuffice ActsInScope
CHECK_DEADLOCK FALSE
