SPECIFICATION Spec
CONSTANTS
  k1 = k1
  k2 = k2
  Keys = {k1, k2}
  MaxValue = 2
  MaxTime = 5
SYMMETRY AnyKey
INVARIANTS
  TypeOK
  ReadTwiceExact
  NoZeroDivisor
