CONSTANTS
  s1 = s1
  r1 = r1
  a1 = a1
  Scheduled <- OneJob
  Manual <- OneRequest
  Admin <- OneAdmin
  AdminOps <- NoSettings
  SettingsAtStart <- OnOrOff
  MonitorCount = 2
  IncidentCount = 2
  MaxOverlap = 1
  MaxFailures = 1
  MaxRollbacks = 0
SPECIFICATION Spec
PROPERTY LedgerSpec
