CONSTANTS
  Dirs = {"A->B"}
  Capacity = 1
  CapacityRecords = 1
  MaxAuthLookahead = 1
  VerifyAttemptLimit = 2
  FailureThreshold = 2
  Lengths = {1}
  Witnessed = FALSE
  Tears = {"torn", "unterminated"}
  Restores = {}
  MaxCrashes = 2
  MaxRestores = 0
  MaxBackups = 0
SPECIFICATION Spec
INVARIANTS AttemptsNeverUndercounted
CHECK_DEADLOCK FALSE
