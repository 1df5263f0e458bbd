SPECIFICATION Spec
CONSTANTS
  SoftConfirmations = 1
  MaxConfirmationFailures = 1
  BadUtxoAttempts = 1
  MaxRescueAttempts = 2
  Submitters = {"getTx", "hasUtxo"}
  ServiceTimeouts = TRUE
  OtherProblems = 1
  Resubmits = 1
  MaxReleased = 2
  MaxDiagnoses = 1
INVARIANTS StrandedOnlyByTheft BadByVerdictOrReport ActivitiesNeverClash FailedForCause HardConfirmEarned
PROPERTIES BadTxNotResubmitted DestroyedIsInert
CHECK_DEADLOCK FALSE
