SPECIFICATION Spec
CONSTANTS
  r1 = r1
  r2 = r2
  r3 = r3
  p1 = p1
  p2 = p2
  p3 = p3
  None = None
  Requests <- TwoRequests
  Kind <- UnitOrder
  Proj <- OwnProject
  MaxNodes = 4
  MaxProcs = 3
  Outside = 1
  Tries = 1
  MaxSlaves = 2
  Overlap = TRUE
  MaxDeaths = 0
INVARIANTS TypeOK ReachableWhenIdle AddressesDistinct
CHECK_DEADLOCK FALSE
