SPECIFICATION FairSpec
CONSTANTS
  r1 = r1
  r2 = r2
  r3 = r3
  p1 = p1
  p2 = p2
  p3 = p3
  None = None
  Requests <- OneRequest
  Kind <- PlainOne
  Proj <- OneProject
  MaxNodes = 5
  MaxProcs = 2
  Outside = 1
  Tries = 2
  MaxSlaves = 2
  Overlap = FALSE
  MaxDeaths = 1
PROPERTIES EveryRequestServed EveryProcessRegistered
CHECK_DEADLOCK FALSE
