SPECIFICATION Spec
CONSTANTS
  SoftConfirmations = 1
  MaxConfirmationFailures = 1
  BadUtxoAttempts = 1
  MaxRescueAttempts = 2
  Submitters = {"getTx"}
  ServiceTimeouts = FALSE
  OtherProblems = 1
  Resubmits = 0
  MaxReleased = 2
  MaxDiagnoses = 1
INVARIANT BadByVerdict
CHECK_DEADLOCK FALSE
