\* A position's life, and another's, while passes mark them and a request reads D1.
SPECIFICATION Spec
CONSTANTS
  Positions = {p1, p2}
  Deposits <- MCDeposits
  Fee <- MCFee
  Turns = {1}
  PerfPercent = 50
  Bucket = 3
  Limit = 9
  None = None
  MaxVerbs = 3
  MaxTrades = 1
  MaxPasses = 2
SYMMETRY Symmetry
CONSTRAINT Bounded
INVARIANTS
  TypeOK
  PnlAsEarned
  BookAddsUp
CHECK_DEADLOCK FALSE
