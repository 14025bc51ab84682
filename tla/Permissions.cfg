SPECIFICATION Spec
CONSTANTS
    a = a
    b = b
    page = page
    menu = menu
    api = api
    button = button
    field = field
    Role = {a, b}
    Super = b
    Resource = {page, menu, api, field}
    TypeOf <- MCTypeOf
    Made = {page, menu, field}
    MaxLevel = 2
    Req = {r1, r2}
    None = None
    MaxVersion = 2
    MaxReaders = 1
SYMMETRY Symmetry
INVARIANTS ReadInv
PROPERTIES VersionMoves ChecksSuffice ReplaceCoversLive
CHECK_DEADLOCK FALSE
