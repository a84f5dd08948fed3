SPECIFICATION FairRefreshSpec
CONSTANTS
  r1 = r1
  p1 = p1
  None = None
  Requests <- OneRequest
  Kind <- PlainOne
  Proj <- OneProject
  MaxNodes = 2
  MaxProcs = 2
  Outside = 1
  Tries = 1
  MaxSlaves = 2
  Overlap = TRUE
  MaxDeaths = 1
  Stoppable = {1}
  Aging = {1}
  Known = 1
INVARIANTS RefreshTypeOK
PROPERTIES DeadArchived IdleFreed GhostsKilled
CHECK_DEADLOCK FALSE
