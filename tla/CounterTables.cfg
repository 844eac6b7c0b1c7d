SPECIFICATION Spec
CONSTANTS
  NumDevices = 5
  Blacklisted <- MCBlacklisted
  MaxSlots = 3
  MaxRounds = 5
INVARIANTS
  TypeOK
  UnmovedRight
  DividesByZeroOnlyOnLoss
  NamedRight
  NoMixture
CHECK_DEADLOCK FALSE
