CONSTANTS
  Gens = {gen1, gen2}
  Destroys = {destroy1, destroy2, destroy3}
  Verbs = {verb1}
  None = None
  MaxCrashes = 2
  MaxFailures = 2
SPECIFICATION FairSpec
INVARIANTS UsedPairIsWhole DestroyedIsGone
PROPERTIES DestroyConverges
CHECK_DEADLOCK FALSE
