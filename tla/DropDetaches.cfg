SPECIFICATION Spec
CONSTANTS
  r1 = r1
  r2 = r2
  a1 = a1
  a2 = a2
  a3 = a3
  None = None
  Accounts = {a1, a2}
  Settled = {a1}
  Requests = {r1, r2}
  May <- OneCreator
  ServerAdmin = FALSE
  MaxStarts = 6
  MaxStops = 0
INVARIANT DropDetaches
CHECK_DEADLOCK FALSE
