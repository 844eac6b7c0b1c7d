SPECIFICATION PingSpec
CONSTANTS
  MaxRequests = 2
  MaxHops = 2
INVARIANTS
  OutcomeReported
  ConnectFirst
PROPERTIES
  RequestEnds
