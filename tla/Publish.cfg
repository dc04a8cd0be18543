CONSTANTS
  NotAvailable = NotAvailable
  RuleSet <- Channels
  Readings <- Values
  MaxTime = 8
SPECIFICATION Spec
INVARIANTS PictureCurrent HeartbeatKept
PROPERTIES PaceKept
