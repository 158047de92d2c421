CONSTANTS
  None = None
  Torn = Torn
  keptPair = keptPair
  otherPair = otherPair
  TpmPairs <- MCPairs
  StatePaths = {state1}
  FirstPath = state1
  Home = Home
  Stranger = Stranger
  MaxStore = 1
  Levels <- MCLevels
  Budget <- MCBudgetPrepared
  CopiesAreSettled = FALSE
SPECIFICATION PlatformSpec
INVARIANTS AttestedKnowsAll
CHECK_DEADLOCK FALSE
