SPECIFICATION Spec
CONSTANTS
  beat = beat
  beat2 = beat2
  short = short
  long = long
  hello = hello
  Message = {beat, beat2, short, long}
  Hello = hello
  Body <- BodyOf
  Room = 3
  Receiver = "manager"
\* Every message is sent and disposed of, or both ends are closed.
CHECK_DEADLOCK FALSE
INVARIANT
  Framed
