SPECIFICATION FairSpec
CONSTANTS
  conn = conn
  app1 = app1
  app2 = app2
  m1 = m1
  m2 = m2
  m3 = m3
  ack = ack
  end = end
  None = None
  Thread <- MCThread
  Msg <- MCMsg
  Control <- MCControl
CHECK_DEADLOCK FALSE
INVARIANTS
  HalfEnvelopeOnlyWhenBroken
  WireInv
PROPERTIES
  ImplementsFramedStream
  EveryWriteEnds
