CONSTANTS
  NotAvailable = NotAvailable
  MaxCmd = 2
  Entries = {1, 2}
  Topic <- Shared
  Ack <- FirstAcks
  Polled = {p}
  Once = {}
SPECIFICATION FairSpec
INVARIANTS AckTrue PendingMatches NoStaleWrite BelievedIsHeld
PROPERTIES AckSettles BrokerCatchesUp
