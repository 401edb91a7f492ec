SPECIFICATION Spec
CONSTANTS
  a = a
  b = b
  c1 = c1
  c2 = c2
  None = None
  Worker = {a, b}
  Conn = {c1, c2}
  Route <- OneWay
  MaxMsg = 2
  MaxResend = 3
  DataCmd = 2001
  Faults = {"timeout"}
\* Every message is sent and every connection is used: the system stops.
CHECK_DEADLOCK FALSE
INVARIANT
  WaitFlushed
