CONSTANTS
  RetryFirst = 1
  Inputs <- Mixed
  RetryMax = 3
  RoundInterval = 1
  Fallible = {1, 2}
  LinkDrops = TRUE
SPECIFICATION FairSpec
INVARIANTS ProbeAlone ReadOncePerRound
PROPERTIES ProbeWhenDue RoundsRecur Recovers DeepTurnComesIfAllAnswer
