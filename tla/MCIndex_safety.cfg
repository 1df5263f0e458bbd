SPECIFICATION Spec
CONSTANTS
  p = p
  q = q
  c = c
  u = u
  Txs = {p, q, c}
  Own = {p, q}
  Genesis = {u}
  Input <- MCInput
  LastValid <- MCLastValid
  Start = 1
  MaxHeight = 5
  MaxForks = 1
  ForkDepth = 1
  t1 = t1
  t2 = t2
  Tabs = {t1, t2}
  CatchupThreshold = 1
  SlowFirstSync = FALSE
  Grace = 2
  ProvisionalDepth = 1
  MaxLag = 2
  MaxRise = 1
  MaxTxs = 2
  MaxTrouble = 2
  MaxMishaps = 1
SYMMETRY Symmetry
INVARIANTS TypeOK NoSilentGap SpentNotOffered LandedNotRolledBack RollbackComplete NoOrphanedConfirmation
PROPERTIES OnlyForksUnconfirm
CHECK_DEADLOCK FALSE
