\* Browsers that post anything at any time, two at once, and a repair of the totals.
SPECIFICATION RepairSpec
CONSTANTS
  Poller = Poller
  Ingesters = {i1, i2}
  Ids = {1}
  None = None
  MaxRange = 1
  Confirmations = 1
  Habits <- AllHabits
  MaxBlocks = 3
  MaxDisturbances = 3
INVARIANTS
  CursorSafe
  RepairExact
PROPERTIES
  Indexed
