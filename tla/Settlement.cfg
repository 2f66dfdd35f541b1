\* Two accounts trade the treasury role while a verb of up to two bins runs.
SPECIFICATION Spec
CONSTANTS
  Accounts = {a1, a2}
  Nobody = Nobody
  NoOp = NoOp
  Ops <- MCOps
  BinOutcomes <- MCBinOutcomes
  SwapOutcomes <- MCSwapOutcomes
  Gifts <- MCGifts
  PerfFeeBps = 2000
  SimpleFeeBps = 1000
SYMMETRY AccountSymmetry
INVARIANTS
  WithinBounds
  PaidExactly
  ReportedAsPaid
