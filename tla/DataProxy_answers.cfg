SPECIFICATION FairSpec
CONSTANTS
  r1 = r1
  r2 = r2
  f1 = f1
  f2 = f2
  Before = Before
  Absent = Absent
  Master = Master
  Slave = Slave
  Request = {r1, r2}
  Field = {f1, f2}
  Part <- Parts
  Kind = {"redisRead", "readEither", "dbRead", "redisWrite", "writeBoth", "deleteBoth", "updateBoth", "dbWrite"}
  KeyTtl = FALSE
  MaxFaults = 2
\* Every request is answered: the system stops.
CHECK_DEADLOCK FALSE
INVARIANTS
  TypeOK
  OneVerdict
  AcceptedIsApplied
  StaleExpires
PROPERTIES
  OneService
  EventuallyAnswered
