CONSTANTS
  a1 = a1
  a2 = a2
  Admin <- TwoAdmins
  Creations <- Defaults
  Updates <- NoUpdates
  MonitorCount = 1
  MaxMonitors = 1
  StatusCodes <- Codes
  MaxIncidents = 1
  MaxChanges = 2
SPECIFICATION SummarySpec
INVARIANT OpenCountIsReal
