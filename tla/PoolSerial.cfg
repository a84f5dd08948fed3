SPECIFICATION Spec
CONSTANTS
  r1 = r1
  r2 = r2
  r3 = r3
  p1 = p1
  p2 = p2
  p3 = p3
  None = None
  Requests <- ThreeRequests
  Kind <- AllUnit
  Proj <- OwnProjects
  MaxNodes = 3
  MaxProcs = 3
  Outside = 0
  Tries = 1
  MaxSlaves = 2
  Overlap = FALSE
  MaxDeaths = 0
INVARIANTS OneProcessPerNode QuotaKept PortsDistinct
CHECK_DEADLOCK FALSE
