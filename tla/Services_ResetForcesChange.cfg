SPECIFICATION MCSpec
CONSTANTS
    w1 = w1
    w2 = w2
    Process = {w1, w2}
    Node <- MCNode
    Nodes = 2
    Numbers = 2
    Times = 3
    Clock <- MCClock
    MaxIds = 3
    first = a
    Password = {a, b, c, d}
    Req = {r1, r2}
    None = None
    Kept = 2
    Requests = 4
    Logins = 4
    name = name
    address = address
    Name = {name}
    Address = {address}
    Limit <- MCLimit
    FailOpen = TRUE
    Second = 2
    Window = 4
    Delay = 2
    MaxNow = 5
    Dict = {d1, d2}
    Item = {i1, i2}
    Code = {x}
    Value = {v, w}
    Edits = 2
    main = d1
    User = {u1, u2}
    Ann = {n1}
    Event = {e1, e2}
    Letters = 3
SYMMETRY Symmetry
INVARIANT ResetForcesChange
CHECK_DEADLOCK FALSE
