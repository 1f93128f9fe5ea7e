SPECIFICATION FairSpec
CONSTANTS
  c1 = c1
  c2 = c2
  k1 = k1
  k2 = k2
  None = None
  Conn <- MCConn
  Call <- MCCall
  Name <- MCName
CHECK_DEADLOCK FALSE
INVARIANTS
  CallUsesLiveConnection
  AloneStaysRegistered
  BindingsInv
PROPERTIES
  FinishedIsFreed
