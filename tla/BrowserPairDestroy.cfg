CONSTANTS
  None = None
  Torn = Torn
  Bundles <- MCBundles
  Defective <- MCDefective
  TopCounter = 1
  MaxCuts = 1
SPECIFICATION PairSpec
INVARIANTS DestroyedLeavesNoMaterial
CHECK_DEADLOCK FALSE
