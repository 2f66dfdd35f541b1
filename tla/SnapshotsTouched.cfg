\* A verb between the two reads of a mark.
SPECIFICATION Spec
CONSTANTS
  Owners = {"o1"}
  Positions = {"p1"}
  OwnerOf <- MCOwnerOfOne
  Bins = {1, 2}
  MaxLiquidity = 1
  Wrap = 16
  KeepSimple = 100
  KeepShaped = 50
  None = None
  MaxEvents = 2
INVARIANTS
  FeesNeverWrap
CHECK_DEADLOCK FALSE
