SPECIFICATION Spec
CONSTANTS
  cpu = cpu
  net = net
  mem = mem
  ct = ct
  cert = cert
  pg = pg
  router = router
  web = web
  Collectors = {cpu, ct, cert}
  KindOf <- LiveKinds
  Configurations <- LiveConfigurations
  Delta = 1
  PgPause = 1
  CertPause = 1
  CertPeriod = 2
  Capacity = 1
  Carbon = FALSE
  MaxTime = 3
  MaxCrashes = 1
PROPERTIES
  RoundSettles
