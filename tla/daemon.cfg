CONSTANTS
  c1 = c1  c2 = c2
  n1 = n1  n2 = n2
  p1 = p1  p2 = p2
  Nil = Nil  Missing = Missing  Bad = Bad
  IndexTop = 4
  Containers <- TwoContainers
  Networks <- TwoNetworks
  DefaultNetworkID = n1
  Procs <- TwoProcs
  Spaces <- OneOrTwoSpaces
  Digest <- Digests
  Files <- ManyFiles
  Pool <- AddressPool
  Faults <- AllFaults
  MaxTroubles = 2
  MaxCrashes = 1
  MaxCalls = 4
  Lossy = TRUE
SPECIFICATION Spec
SYMMETRY Symmetry
CHECK_DEADLOCK FALSE
INVARIANTS
  TypeOK
  
  DownMeansGone
  RecordedIsLeased
  SandboxAddressesDiffer
  CleanRestart
  DeletableAfterRestart
  StartedConfigIsSane
