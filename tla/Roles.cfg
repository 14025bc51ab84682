SPECIFICATION Spec
CONSTANTS
    Role = {super, a, b}
    Super = super
    User = {u1, u2}
    Req = {r1, r2}
    None = None
    MaxVersion = 2
SYMMETRY Symmetry
PROPERTIES ChecksSuffice VersionMoves LastAdminStays ReplaceIsWhole
CHECK_DEADLOCK FALSE
