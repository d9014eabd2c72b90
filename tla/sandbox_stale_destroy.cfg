CONSTANTS
  c1 = c1  c2 = c2  c3 = c3
  Nil = Nil
  Containers <- ThreeContainers
  MaxSandboxes = 3
  MaxAdds = 1
  MaxDels = 2
  Faults <- NoFaults
SPECIFICATION Spec
INVARIANT DestroyedSandboxIsEmpty
CHECK_DEADLOCK FALSE
