CONSTANTS
  n1 = n1
  c1 = c1  c2 = c2  c3 = c3
  p1 = p1  p2 = p2  p3 = p3
  Nil = Nil
  Networks <- OneNetwork
  Containers <- TwoContainers
  Procs <- ThreeProcs
  FirstIP = 5
  LastIP = 9
  StartIP = 6
  LowIP = 1
  TopIP = 9
  ConfiguredGateway = 8
  Serialised = FALSE
SPECIFICATION Spec
SYMMETRY Symmetry
INVARIANTS
  
  ExhaustedIsTruthful
