SPECIFICATION Spec
CONSTANTS
    User = {u1}
    None = None
    Protected = {}
    Sess = {s1}
    Pair = {p1, p2, p3}
    Req = {r1, r2}
    AccessTTL = 2
    RefreshTTL = 3
    MaxNow = 3
SYMMETRY Symmetry
INVARIANT LifeIsFixed
PROPERTY RotatedByHolder
