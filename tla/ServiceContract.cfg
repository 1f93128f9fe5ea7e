SPECIFICATION Spec
CONSTANTS
  calc = calc
  calculator = calculator
  echo = echo
  add = add
  ping = ping
  c1 = c1
  c2 = c2
  None = None
  Service <- MCService
  Method <- MCMethod
  Class <- MCClass
  PrefixOf <- MCPrefixOf
  Program <- MCProgram
  MaxReplies = 2
CHECK_DEADLOCK FALSE
INVARIANTS
  ContractInv
  AdvertisedIsInvoked
  RepliesAsAdvertised
  CallsAsAdvertised
