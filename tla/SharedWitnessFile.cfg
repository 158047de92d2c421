CONSTANTS
  Pairs = {alice, bob}
  NoPair = NoPair
  Inits = {init1}
  MaxPosition = 3
  MaxCrashes = 2
  MaxRestores = 2
  MaxReplacements = 0
  MaxMistakes = 0
SPECIFICATION Spec
INVARIANTS NothingShownTwice OneLossPerStaleLock
PROPERTIES EntriesNeverFall
CHECK_DEADLOCK FALSE
