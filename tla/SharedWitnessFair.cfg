CONSTANTS
  Pairs = {alice, bob}
  NoPair = NoPair
  Inits = {init1}
  MaxPosition = 1
  MaxCrashes = 2
  MaxRestores = 0
  MaxReplacements = 2
  MaxMistakes = 1
SPECIFICATION FairSpec
INVARIANTS OthersStayLocked
PROPERTIES KnowledgeKept VerbEnds
CHECK_DEADLOCK FALSE
