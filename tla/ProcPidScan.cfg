SPECIFICATION Spec
CONSTANTS
  bash = bash
  httpd = httpd
  Pids = {1, 2, 3, 4}
  Comms = {bash, httpd}
  Whitelist = {httpd}
  Blacklist = {}
  Threshold = 0
  TopN = 1
  MaxEvents = 2
  MaxRounds = 1
INVARIANTS
  TypeOK
  
  
  HeaviestSelected
