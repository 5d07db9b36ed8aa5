SPECIFICATION FairSpec
CONSTANTS
  q1 = q1
  q2 = q2
  q3 = q3
  d1 = d1
  d2 = d2
  o1 = o1
  o2 = o2
  o3 = o3
  o4 = o4
  None = None
  Query <- ThreeQueries
  Dst <- TwoDsts
  DstOf <- Dsts
  Session <- ThreeObjects
  IdSpace = 3
  MaxSessions = 2
  MaxAttempts = 2
  Timeout = 0
  MaxTime = 1
INVARIANTS QueryHasSlot NoOrphanSlot SessionsBounded
PROPERTIES IdleRemoved
