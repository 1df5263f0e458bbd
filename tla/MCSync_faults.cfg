SPECIFICATION Spec
CONSTANTS
  none = none
  Tabs = {a, b}
  NoTab = none
  Staleness = 1
  MaxWait = 2
  MaxTips = 1
  InitiallyDone = FALSE
  Faults = {"stall", "crash", "lateRefresh", "stop", "fail"}
  a = a
  b = b
SYMMETRY Symmetry
INVARIANTS TypeOK
PROPERTIES ImplementsLease
