\* Two positions of up to two bins with fees, and a third of one-unit bins.
SPECIFICATION Spec
CONSTANTS
  Accounts = {a1, a2}
  Nobody = Nobody
  NoTx = NoTx
  MaxBins = 2
  MaxLiquidity = 2
  MaxFees = 1
  FirstId = 1
  LastId = 3
SYMMETRY AccountSymmetry
CONSTRAINT LastIsPlain
INVARIANTS
  OwnerListsConsistent
  RecordMatchesPool
  NothingStranded
  CallbackNeverRejected
  FeesAllReported
PROPERTIES
  ImplementsBook
\* Once LastId is issued and every position is closed nothing is left to do.
CHECK_DEADLOCK FALSE
