SPECIFICATION Spec
CONSTANTS
  routers = routers
  switches = switches
  broken = broken
  locked = locked
  vacant = vacant
  Files = {routers, switches, broken, locked, vacant}
  Content <- MCContent
  MinCap = 2
  Modulus = 4
  Torn = Torn
  NoEntry = NoEntry
INVARIANTS
  TypeOK
  OwnEntries
  
  GoodFilesStarted
CHECK_DEADLOCK FALSE
