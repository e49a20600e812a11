CONSTANTS
  s1 = s1
  r1 = r1
  a1 = a1
  Scheduled <- OneJob
  Manual <- NoThreads
  Admin <- OneAdmin
  AdminOps <- PauseAndResume
  SettingsAtStart <- OnOrOff
  MonitorCount = 1
  IncidentCount = 1
  MaxOverlap = 1
  MaxFailures = 1
  MaxRollbacks = 0
SPECIFICATION Spec
INVARIANT UpHasNoIncident
