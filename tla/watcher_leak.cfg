CONSTANTS
  a1 = a1  here = here  there = there
  Nil = Nil  Watched = here
  Addresses <- OneAddress
  Names <- OneName
  MaxMonitors = 2
  MaxPlaces = 1
  MaxTeardowns = 1
  MaxQueue = 1
  OneAtATime = FALSE
  Stray = FALSE
  Faults <- NoFaults
SPECIFICATION Spec
INVARIANT SubscriptionsCanBeStopped
CHECK_DEADLOCK FALSE
