SPECIFICATION Spec
CONSTANTS
  none = none
  Tabs = {a, b}
  NoTab = none
  Staleness = 2
  MaxWait = 3
  MaxTips = 2
  InitiallyDone = FALSE
  Faults = {"lateRefresh"}
  a = a
  b = b
INVARIANTS OneSyncer
