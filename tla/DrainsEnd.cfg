CONSTANTS
  f1 = f1
  f2 = f2
  r1 = r1
  r2 = r2
  p1 = p1
  p2 = p2
  None = None
  Flows = {f1, f2}
  Regs = {r1}
  Kind <- OpenBundleKind
  Batch <- BatchTwoOne
  MaxBatch = 2
  Projects = {p1}
  Proj <- SameProject
  Creator = f1
  Assigned = p1
  SpawnsLocally = TRUE
  OrmBindsEngine = TRUE
  Spare = FALSE
  MayFail = FALSE
  MaxRuns = 2
SPECIFICATION FairSpec
INVARIANT TypeOK
PROPERTY DrainsEnd
PROPERTY OpenAnswered
CHECK_DEADLOCK FALSE
