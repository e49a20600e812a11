CONSTANTS
  s1 = s1
  r1 = r1
  a1 = a1
  Scheduled <- OneJob
  Manual <- OneRequest
  Admin <- OneAdmin
  AdminOps <- OutageOps
  SettingsAtStart <- OnOrOff
  MonitorCount = 1
  IncidentCount = 2
  MaxOverlap = 3
  MaxFailures = 2
  MaxRollbacks = 0
SPECIFICATION Spec
INVARIANTS TypeOK DownHasIncident MailsAlternate
PROPERTIES
  OneIncidentPerOutage OutageOpensIncident FailuresFitUnlessStale
   PausedUnlessProbed RecoveryUnlessUnseen
