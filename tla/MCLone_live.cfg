SPECIFICATION FairSpec
CONSTANTS
  SoftConfirmations = 1
  MaxConfirmationFailures = 1
  BadUtxoAttempts = 1
  MaxRescueAttempts = 2
  Submitters = {"getTx"}
  ServiceTimeouts = FALSE
  OtherProblems = 0
  Resubmits = 1
  MaxReleased = 2
  MaxDiagnoses = 1
INVARIANTS TypeOK NeverStranded
PROPERTIES BadTxComesToRest LandedTxSettles
CHECK_DEADLOCK FALSE
