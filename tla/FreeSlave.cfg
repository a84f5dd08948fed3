CONSTANTS
  f1 = f1
  f2 = f2
  r1 = r1
  r2 = r2
  p1 = p1
  p2 = p2
  None = None
  Flows = {f1, f2}
  Regs = {}
  Kind <- AdoptProjectKind
  Batch <- BatchTwoOne
  MaxBatch = 2
  Projects = {p1, p2}
  Proj <- TwoProjects
  Creator = None
  Assigned = None
  SpawnsLocally = FALSE
  OrmBindsEngine = FALSE
  Spare = FALSE
  MayFail = TRUE
  MaxRuns = 2
SPECIFICATION Spec
INVARIANT QueueOrdered
INVARIANT TakenInOrder
CHECK_DEADLOCK FALSE
