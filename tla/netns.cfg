CONSTANTS
  r1 = r1  r2 = r2
  t1 = t1  t2 = t2  t3 = t3
  host = host  s1 = s1
  Nil = Nil
  Callers <- TwoCallers
  Threads <- ThreeThreads
  Spaces <- TwoSpaces
  Host = host
  Main = t1
  MayFail = TRUE
SPECIFICATION FairSpec
CHECK_DEADLOCK FALSE
INVARIANTS
  TypeOK
  CallbackInNamespace
  FreeThreadsInHost
PROPERTIES
  OkMeansDone
  ExecuteReturns
