SPECIFICATION FairSpec
CONSTANTS
  k1 = k1
  k2 = k2
  r1 = r1
  Conn = Conn
  Ack = Ack
  End = End
  None = None
  Call <- MCOneCall
  Request <- MCRequest
CHECK_DEADLOCK FALSE
PROPERTIES
  ImplementsWire
  RepliesAreHandled
  EndDestroys
  CallsReturn
