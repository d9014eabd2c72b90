CONSTANTS
  c1 = c1  c2 = c2  c3 = c3
  Nil = Nil
  Containers <- ThreeContainers
  MaxSandboxes = 3
  MaxAdds = 3
  MaxDels = 1
  Faults <- AllFaults
SPECIFICATION FairSpec
INVARIANTS
  TypeOK
  DestroyedSandboxIsEmpty
  AttachedIsConnected
  LastOneOutCleansUp
PROPERTY RequestsEnd
CHECK_DEADLOCK FALSE
