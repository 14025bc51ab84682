SPECIFICATION Spec
CONSTANTS
  Request = {r1, r2}
  Key = {k1, k2}
  Note = {n1, n2}
  Target = t
  None = None
  MaxRows = 2
  MaxRequests = 3
  MaxLost = 1
INVARIANTS AuditInv WalkMissesNothing
PROPERTIES WritesWhatItNames FailureStoresNothing DeletedKeyIsFree
SYMMETRY Symmetry
CHECK_DEADLOCK FALSE
