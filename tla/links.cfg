CONSTANTS
  c1 = c1  c2 = c2  c3 = c3
  Nil = Nil
  Gateway = Gateway  DNS = DNS
  Containers <- ThreeContainers
  VNIs <- TwoVNIs
  VNIOf <- Nets
  Routes <- OneRoute
  MaxFaults = 2
SPECIFICATION Spec
INVARIANTS
  TypeOK
  AttachedIsWired
  BridgeServes
  NothingLeftBehind
PROPERTIES
  FailuresHaveACause
