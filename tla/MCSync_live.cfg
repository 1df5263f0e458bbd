SPECIFICATION FairSpec
CONSTANTS
  none = none
  Tabs = {a, b}
  NoTab = none
  Staleness = 1
  MaxWait = 2
  MaxTips = 1
  InitiallyDone = FALSE
  Faults = {"lateRefresh", "crash"}
  a = a
  b = b
PROPERTIES InitialSyncEnds MistakenOwnerFindsOut SomeoneSyncs
