CONSTANTS
  n1 = n1
  c1 = c1  c2 = c2  c3 = c3
  p1 = p1  p2 = p2  p3 = p3
  Nil = Nil
  Networks <- OneNetwork
  Containers <- ThreeContainers
  Procs <- TwoProcs
  FirstIP = 1
  LastIP = 4
  StartIP = 1
  LowIP = 1
  TopIP = 7
  ConfiguredGateway <- NoGatewayConfigured
  Serialised = TRUE
SPECIFICATION FairSpec
INVARIANTS
  TypeOK
  OneLeasePerContainer
  ExhaustedIsTruthful
PROPERTIES
  LeasesAreATable
  CallsReturn
