CONSTANTS
  Dirs = {"A->B"}
  Capacity = 1
  CapacityRecords = 3
  MaxAuthLookahead = 2
  VerifyAttemptLimit = 1
  FailureThreshold = 2
  Lengths = {0, 1}
  Witnessed = FALSE
  Tears = {"torn"}
  Restores = {"head"}
  MaxCrashes = 2
  MaxRestores = 1
  MaxBackups = 1
SPECIFICATION Spec
INVARIANTS TypeOK CrashNeverRegresses FreezeBounds VerificationsBounded
PROPERTY RefinesOneTimePad
CHECK_DEADLOCK FALSE
