CONSTANTS
  a1 = a1  here = here  there = there
  Nil = Nil  Watched = here
  Addresses <- OneAddress
  Names <- TwoNames
  MaxMonitors = 2
  MaxPlaces = 2
  MaxTeardowns = 1
  MaxQueue = 1
  OneAtATime = TRUE
  Stray = TRUE
  Faults <- AllFaults
SPECIFICATION Spec
INVARIANTS
  TypeOK
  SubscriptionsCanBeStopped
  InsertedWasRecorded
PROPERTY NeverBackwards
CHECK_DEADLOCK FALSE
