SPECIFICATION FairSpec
CONSTANTS
  f1 = f1
  f2 = f2
  x1 = x1
  x2 = x2
  x3 = x3
  None = None
  Files = {f1}
  Order <- OneFile
  Name <- Names1
  Flows = {x1, x2, x3}
  Kind <- LoopLoopFunc
  Cmds <- DisassThree
  Outcomes = {"whole", "cut", "text", "bad"}
  MaxFaults = 1
INVARIANT PipesConsistent
PROPERTIES EmptyIfToldAnother EveryFlowEnds
CHECK_DEADLOCK FALSE
