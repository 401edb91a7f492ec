SPECIFICATION MCSpec
CONSTANTS
  a = a
  b = b
  None = None
  c1 = c1
  c2 = c2
  c3 = c3
  Node = {a, b}
  Conn = {c1, c2, c3}
  Needs <- EachOther
  MaxQueue = 1
  Faults = {"worker"}
CONSTRAINT InOrder
\* Every connection is used up: the system stops.
CHECK_DEADLOCK FALSE
INVARIANTS
  RoutesCover
PROPERTY RoutesLearnt
