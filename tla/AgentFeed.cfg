SPECIFICATION SafetySpec
CONSTANTS
  cpu = cpu
  net = net
  mem = mem
  ct = ct
  cert = cert
  pg = pg
  router = router
  web = web
  Collectors = {cpu, pg, router, web, mem, net}
  KindOf <- FeedKinds
  Configurations <- FeedConfigurations
  Delta = 2
  PgPause = 1
  CertPause = 1
  CertPeriod = 2
  Capacity = 2
  Carbon = TRUE
  MaxTime = 5
  MaxCrashes = 1
INVARIANTS
  IInv
  
  NoGap
PROPERTIES
  FeedSpec
