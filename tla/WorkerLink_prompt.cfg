SPECIFICATION FairSpec
CONSTANTS
  a = a
  b = b
  c1 = c1
  c2 = c2
  None = None
  Worker = {a, b}
  Conn = {c1, c2}
  Route <- BothWays
  MaxMsg = 2
  MaxResend = 1
  DataCmd = 2001
  Faults = {"refuse", "close", "reset", "restart"}
\* Every message is sent and every connection is used: the system stops.
CHECK_DEADLOCK FALSE
INVARIANTS
  WaitFlushed
  ToldBeforeData
PROPERTIES
  Ordered
  EventuallyServed
