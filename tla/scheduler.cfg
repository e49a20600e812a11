CONSTANTS
  a1 = a1
  a2 = a2
  Admin <- TwoAdmins
  AdminOps <- AllOps
  MonitorCount = 2
  Workers = 1
  MaxLostCommits = 1
  MaxRestarts = 1
SPECIFICATION FairSpec
INVARIANTS SchedulerTypeOK ActiveHasJob PausedHasNoJob
PROPERTY ActiveIsChecked
