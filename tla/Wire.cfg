CONSTANTS
  Ids = {1, 2, 3}
  Match <- Polls
  Refusable = {3}
  Syncs = {TRUE, FALSE}
  Lens = {2, 3, 4}
  MaxLate = 1
SPECIFICATION FairSpec
INVARIANTS AnswerFits
PROPERTIES OwnAnswerKept InStepAgain
