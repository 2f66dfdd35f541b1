\* Polls that die, rewinds, reorganisations and careful browsers.
SPECIFICATION Spec
CONSTANTS
  Poller = Poller
  Ingesters = {i1}
  Ids = {1, 2}
  None = None
  MaxRange = 1
  Confirmations = 1
  Habits <- Careful
  MaxBlocks = 5
  MaxDisturbances = 4
INVARIANTS
  EventsReal
  TotalsExact
