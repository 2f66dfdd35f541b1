\* Three events while passes mark two positions.
SPECIFICATION Spec
CONSTANTS
  Owners = {"o1"}
  Positions <- MCPositions
  OwnerOf <- MCOwnerOf
  Bins = {1, 2}
  MaxLiquidity = 1
  Wrap = 4
  KeepSimple = 100
  KeepShaped = 50
  None = None
  MaxEvents = 3
INVARIANTS
  TypeOK
  FeesAsOwed
  NavComplete
CHECK_DEADLOCK FALSE
