CONSTANTS
  MaxReq = 4
  NTimers = 2
  FrameDelay = TRUE
  CallerPolls = TRUE
  CallbackPosts = TRUE
  ResetPosts = FALSE
SPECIFICATION FairSpec
INVARIANTS ReportedOnce WritesAheadOfPolls FinishedInOrder RawSlotQueued
PROPERTIES ServesRequests EventuallyReported GapHoldsRequest
