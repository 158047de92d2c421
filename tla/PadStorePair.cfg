CONSTANTS
  Dirs = {"A->B", "B->A"}
  Capacity = 1
  CapacityRecords = 1
  MaxAuthLookahead = 1
  VerifyAttemptLimit = 1
  FailureThreshold = 1
  Lengths = {0, 1}
  Witnessed = TRUE
  Tears = {"torn", "unterminated"}
  Restores = {"head", "journal", "both"}
  MaxCrashes = 1
  MaxRestores = 1
  MaxBackups = 1
SPECIFICATION FairSpec
INVARIANTS MaterialUsedOnce WitnessCovers
PROPERTIES LockEventuallyFree
CHECK_DEADLOCK FALSE
