CONSTANTS
  NotAvailable = NotAvailable
  MaxCmd = 0
  Entries = {1, 2}
  Topic <- Shared
  Ack <- FirstAcks
  Polled = {p}
  Once = {o}
SPECIFICATION FairSpec
PROPERTIES OnceCatchesUp
