CONSTANTS
  None = None
  Torn = Torn
  Dirs = {ab}
  CapacityRecords = 2
  Capacity = 2
  VerifyAttemptLimit = 2
  MaxAuthLookahead = 2
  FreezeThreshold = 2
  Lengths = {1}
  MaxFaults = 1
  MaxRestores = 1
  Bundles <- MCBundles
  Defective <- MCDefective
  TopCounter = 1
  MaxCuts = 2
  keptPair = keptPair
  otherPair = otherPair
  TpmPairs <- MCPairs
  StatePaths = {state1, state2}
  FirstPath = state1
  Home = Home
  Stranger = Stranger
  MaxStore = 1
  Levels <- MCLevels
  Budget <- MCBudget
  CopiesAreSettled = TRUE
  Media = {medium1, medium2}
  FirstMedium = medium1
  Trials <- MCTrials
  Sides = {sideAB, sideBA}
  FirstSide = sideAB
  PadSize = 2
  MaxLines = 3
  MaxBreaks = 1
  MaxOldPages = 1
  Signed <- MCSigned
  Maker = alice
  Recipient = bob
  PadRecords = 2
  PadBytes = 2
  MessageSizes = {1}
  Ahead = 2
  MaxSaves = 1
  MaxRetires = 1
SPECIFICATION MCSpec
INVARIANTS
  ComponentsTypeOK ReleasedIsInWitness TriesBounded LoadsUnlessCut ActiveIsWhole ImportRecovers
  PlatformUsedOnce AttestedKnowsAll CrashIsNoRollback
  EligibleIsEarned AGoodCopyStays AlgorithmsAgree
  ReadAsWritten
PROPERTIES EveryStoreIsAPad DestroyedForGood CopiesPromise
CHECK_DEADLOCK FALSE
