SPECIFICATION Spec
CONSTANTS
  k1 = k1
  k2 = k2
  r1 = r1
  Conn = Conn
  Ack = Ack
  End = End
  None = None
  Call <- MCCall
  Request <- MCRequest
CHECK_DEADLOCK FALSE
INVARIANT AnsweredCallCompletes
