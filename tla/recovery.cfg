CONSTANTS
  s1 = s1
  r1 = r1
  a1 = a1
  Scheduled <- OneJob
  Manual <- NoThreads
  Admin <- OneAdmin
  AdminOps <- IncidentsOnly
  SettingsAtStart <- OnOrOff
  MonitorCount = 1
  IncidentCount = 2
  MaxOverlap = 2
  MaxFailures = 2
  MaxRollbacks = 1
SPECIFICATION FairSpec
INVARIANT LinkSound
PROPERTIES CoherentUnlessStale OutageEnds
