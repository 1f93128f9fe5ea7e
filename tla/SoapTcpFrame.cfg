SPECIFICATION FairSpec
CONSTANTS
  short = short
  long = long
  Msg <- MCMsg
  TextLen <- MCTextLen
  UrlLen = 2
  Cap = 12
  Base = 4
  Word = 32
  HeaderRoom = 2
CHECK_DEADLOCK FALSE
INVARIANTS
  FrameInv
  WholeReadsAreExact
  CutBodyIsLast
  OtherNameOnlyWhereCut
  PackedSizes
PROPERTIES
  RecordsAreHandled
