SPECIFICATION Spec
CONSTANTS
  a = a
  b = b
  None = None
  c1 = c1
  c2 = c2
  c3 = c3
  Node = {a, b}
  Conn = {c1, c2, c3}
  Needs <- OneNeeds
  MaxQueue = 0
  Faults = {"idle", "center"}
SYMMETRY ConnSymmetry
\* Every connection is used up: the system stops.
CHECK_DEADLOCK FALSE
INVARIANTS
  TypeOK
  RowIsOnline
  RoutesCover
PROPERTY IsDirectory
