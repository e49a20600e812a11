CONSTANTS
  s1 = s1
  s2 = s2
  s3 = s3
  s4 = s4
  Session <- FourSessions
  Operations <- Bursts
  PoolSize = 3
  Limit = 1
SPECIFICATION Spec
INVARIANTS ResourcesTypeOK SlotsConserved LinkedIsOpen CountersAddUp
PROPERTIES SemaphoreSettles BurstEnds
CHECK_DEADLOCK FALSE
