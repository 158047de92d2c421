CONSTANTS
  Dirs = {"A->B"}
  Capacity = 1
  CapacityRecords = 2
  MaxAuthLookahead = 2
  VerifyAttemptLimit = 1
  FailureThreshold = 3
  Lengths = {1}
  Witnessed = TRUE
  Tears = {"torn"}
  Restores = {"both"}
  MaxCrashes = 1
  MaxRestores = 2
  MaxBackups = 2
SPECIFICATION Spec
INVARIANTS VerificationsBounded
CHECK_DEADLOCK FALSE
