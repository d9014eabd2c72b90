CONSTANTS
  a1 = a1  here = here  there = there
  Nil = Nil  Watched = here
  Addresses <- OneAddress
  Names <- OneName
  MaxMonitors = 2
  MaxPlaces = 2
  MaxTeardowns = 0
  MaxQueue = 1
  OneAtATime = FALSE
  Stray = FALSE
  Faults <- NoFaults
SPECIFICATION FairSpec
PROPERTIES
  EventuallyResolved
  NoFeedback
CHECK_DEADLOCK FALSE
