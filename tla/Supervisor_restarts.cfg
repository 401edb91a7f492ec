SPECIFICATION MCSpec
CONSTANTS
  WorkerNum = 3
  MaxPid = 3
  MaxFd = 6
  WaitMax = 2
  Faults = {"crash", "hang", "fork", "stall", "answer", "conn", "load", "request"}
ACTION_CONSTRAINT AsItStarted
\* The node may stop.
CHECK_DEADLOCK FALSE
INVARIANTS
  TypeOK
  OneProcessPerIndex
  MappedIsOwn
PROPERTIES
  EveryIndexServed
  RequestAnswered
