SPECIFICATION Spec
CONSTANTS
  SoftConfirmations = 1
  MaxConfirmationFailures = 1
  BadUtxoAttempts = 1
  MaxRescueAttempts = 2
  Submitters = {"getTx"}
  ServiceTimeouts = TRUE
  OtherProblems = 0
  Resubmits = 0
  MaxReleased = 2
  MaxDiagnoses = 1
INVARIANT NeverStranded
CHECK_DEADLOCK FALSE
