CONSTANTS
  RetryFirst = 1
  Inputs <- Three
  RetryMax = 1
  RoundInterval = 1
  Fallible = {2}
  LinkDrops = FALSE
SPECIFICATION FairSpec
PROPERTIES DeepTurnComes
