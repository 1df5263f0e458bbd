SPECIFICATION Spec
CONSTANTS
  p = p
  q = q
  c = c
  u = u
  Txs = {p, q, c}
  Own = {p, q}
  Genesis = {u}
  Input <- MCInput
  LastValid <- MCLastValid
  Start = 2
  MaxHeight = 4
  MaxForks = 1
  ForkDepth = 1
  t1 = t1
  t2 = t2
  Tabs = {t1, t2}
  CatchupThreshold = 1
  SlowFirstSync = FALSE
  Grace = 1
  ProvisionalDepth = 1
  MaxLag = 2
  MaxRise = 0
  MaxTxs = 0
  MaxTrouble = 1
  MaxMishaps = 0
SYMMETRY Symmetry
INVARIANTS CursorKept
CHECK_DEADLOCK FALSE
