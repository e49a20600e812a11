CONSTANTS
  c1 = c1
  c2 = c2
  Checker <- TwoCheckers
  Day = 1
  Week = 2
  Retention = 2
  MaxCheckTime = 2
  MaxTime = 4
  MaxResults = 3
  MaxRollbacks = 1
SPECIFICATION Spec
INVARIANTS HistoryTypeOK RetentionKept RatioIsTrue LastCheckNearlyNewest SpanNearlySound
SYMMETRY CheckerSymmetry
CHECK_DEADLOCK FALSE
