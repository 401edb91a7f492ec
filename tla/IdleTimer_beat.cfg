SPECIFICATION FairSpec
CONSTANTS
  f1 = f1
  Fd = {f1}
  MaxSeq = 3
  First = 1
  IoTimeoutT = 3
  StepT = 2
  Keep = {0, 2, 5}
  MaxIdle = 6
\* Time passes for ever.
INVARIANTS
  TypeOK
  IdleBound
PROPERTIES
  ClosesOnlyItsOwn
  OnlyTheseAreForgotten
  OrphansFreed
  MuteIsClosed
