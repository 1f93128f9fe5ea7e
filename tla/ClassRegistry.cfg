SPECIFICATION Spec
CONSTANTS
  p1 = p1
  p2 = p2
  p3 = p3
  n1 = n1
  n2 = n2
  v = v
  m1 = m1
  m2 = m2
  None = None
  Type <- MCType
  Native <- MCNative
  Vector <- MCVector
  FieldName <- MCFieldName
  Method <- MCMethod
  Schemas <- MCSchemas
  StackLimit = 7
CHECK_DEADLOCK FALSE
INVARIANTS
  RegistryInv
  LostOnlyByCycle
  OnlyWhatMethodsNeed
PROPERTIES
  NothingRebound
