SPECIFICATION Spec
CONSTANTS
  k1 = k1
  k2 = k2
  Keys = {k1}
  MaxValue = 2
  MaxTime = 5
INVARIANT NoNegativeRate
