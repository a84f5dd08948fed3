SPECIFICATION Spec
CONSTANTS
  b1 = b1
  b2 = b2
  a1 = a1
  a2 = a2
  a3 = a3
  s1 = s1
  x1 = x1
  app = app
  NoPlan = NoPlan
  Buys <- TwoBuys
  Acts <- ThreeActs
  Scans <- OneScan
  Products = {x1}
  Apps = {app}
  Product <- TheProduct
  Type <- TheType
  App <- TheApp
  Qty <- TheQty
  Credit = 2
  Life = 1
  MaxTime = 2
INVARIANTS Funded Balanced PaidOnce NoLoss
PROPERTIES AtomicWhenAlone
CHECK_DEADLOCK FALSE
