SPECIFICATION MCSpec
CONSTANTS
    User = {u1}
    None = None
    Secret = {s1,s2,s3}
    Chal = {c1}
    Req = {r1,r2}
    MaxAttempts = 2
    MaxFailed = 2
    TTL = 2
    LockFor = 1
    MaxNow = 2
    MaxWrong = 1
SYMMETRY Symmetry
INVARIANTS GrantUsesUp RedeemedInTime OneByOne
