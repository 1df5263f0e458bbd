SPECIFICATION Spec
CONSTANTS
  a1 = a1
  a2 = a2
  b1 = b1
  Writers = {a1, a2, b1}
  TabOf <- MCTabOf
  StaleAge = 1
  Requests = {r1, r2, r3}
  BaseRate = 20
  MinRate = 8
  MaxBurst = 20
  MaxRejections = 3
  Compilers = {k1, k2, k3}
  Stale = 1
  Patience = 1
  bf = bf
  og = og
  BatchTxs = {x1, x2}
  SubmitterSeq <- MCSubmitterSeq
  MaxBatches = 2
  Upgraders = {o1}
  Installers = {o1, o2}
  PolicySeq <- MCPolicySeq
  Settings = "settings"
  MaxRuns = 2
INVARIANTS ServicesTypeOK RowExclusive HoldHasOwner OneCompiles NoLockLeft LiveTrackersSurvive ChainBuilderKept ConfirmedMeansConfirmed TrackerFollows CloseButtonWorks RunsRecover
PROPERTIES WriterGetsIn RateComesBack RequestsAnswered EveryCompileEnds PoliciesKept
CHECK_DEADLOCK FALSE
