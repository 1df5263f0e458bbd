SPECIFICATION Spec
CONSTANTS
  none = none
  Tabs = {a, b, c}
  NoTab = none
  Staleness = 2
  MaxWait = 3
  MaxTips = 2
  InitiallyDone = FALSE
  Faults = {"crash"}
  a = a
  b = b
  c = c
SYMMETRY Symmetry
INVARIANTS OneSyncer
