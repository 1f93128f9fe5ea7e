SPECIFICATION Spec
CONSTANTS
  t1 = t1
  t2 = t2
  Thread <- MCThread
  Hex <- MCHex
  EnumNames <- MCEnumNames
  Classes <- MCClasses
  Items <- MCItems
  MaxList = 2
SYMMETRY Sym
CHECK_DEADLOCK FALSE
INVARIANTS
  HelperInv
  ReadAsMeant
  WrittenAsTyped
  ReadsBack
