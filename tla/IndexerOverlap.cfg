\* One browser that posts a transaction while a poll applies it.
SPECIFICATION Spec
CONSTANTS
  Poller = Poller
  Ingesters = {i1}
  Ids = {1}
  None = None
  MaxRange = 1
  Confirmations = 1
  Habits <- Overlapping
  MaxBlocks = 4
  MaxDisturbances = 2
INVARIANTS
  TotalsExact
