CONSTANTS
  a1 = a1
  a2 = a2
  Admin <- TwoAdmins
  MonitorCount = 2
  ComponentCount = 2
  LinkCount = 2
  MaxOverlap = 2
  MaxChanges = 2
SPECIFICATION Spec
INVARIANTS StatusPagesTypeOK OutageIsShown OutageIsReal OperationalIsReal
PROPERTY LinkUnlessOverlapped
SYMMETRY AdminSymmetry
