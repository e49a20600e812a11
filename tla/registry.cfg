CONSTANTS
  a1 = a1
  a2 = a2
  Admin <- TwoAdmins
  Creations <- Defaults
  Updates <- SomeUpdates
  MonitorCount = 3
  MaxMonitors = 1
  StatusCodes <- Codes
  MaxIncidents = 1
  MaxChanges = 2
SPECIFICATION SummarySpec
INVARIANTS RegistryTypeOK MonitorCountBounded  DownCountIsReal
PROPERTY UpdateKeepsOthers
SYMMETRY AdminSymmetry
