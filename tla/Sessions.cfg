SPECIFICATION FairSpec
CONSTANTS
    User = {u1}
    None = None
    Protected = {}
    Sess = {s1, s2}
    Pair = {p1, p2}
    Req = {r1, r2}
    AccessTTL = 1
    RefreshTTL = 1
    MaxNow = 0
INVARIANTS HandedOutIsTracked LoginSupersedes
PROPERTIES RevokedIsFinal LifeSpec EveryRequestEnds
