CONSTANTS
  Setups <- Both
  RetryFirst = 2
  RetryMax = 3
  OnceRetry = 3
  Ceiling = 2
  MaxLate = 2
  Fallible = {1}
  LinkDrops = TRUE
SPECIFICATION FairSpec
INVARIANTS OnePollPerTimer NoOversleep SeriesStaggered
PROPERTIES ProbesSpaced ReadAgain OnceSettles
