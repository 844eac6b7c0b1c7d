SPECIFICATION Spec
CONSTANTS
  console = console
  file = file
  syslog = syslog
  Main = Main
  collector = collector
  Callers = {Main, collector}
  Modes = {console, file, syslog}
  Levels = {1, 4}
  ErrorLevel = 4
  LevelOf <- MCLevelOf
  Setups <- MCSetups
  BufLen = 1
  MaxCalls = 2
  NoMessage = NoMessage
INVARIANTS
  TypeOK
  FatalReported
PROPERTIES
  LogStreamSpec
  EventuallyWritten
  FatalExits
