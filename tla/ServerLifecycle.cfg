SPECIFICATION FairSpec
CONSTANTS
  s1 = s1
  s2 = s2
  m1 = m1
  w1 = w1
  w2 = w2
  None = None
  SoapConn <- MCSoapConn
  MexConn <- MCMexConn
  Worker <- MCWorker
  MaxThreads <- MCMaxThreads
  MaxQueued <- MCMaxQueued
  MaxStarts = 2
CHECK_DEADLOCK FALSE
INVARIANTS
  LifecycleInv
  AcceptedOnce
PROPERTIES
  QueuedIsServed
  StopReleasesThreads
