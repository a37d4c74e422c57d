CONSTANTS
  s1 = s1
  s2 = s2
  s3 = s3
  s4 = s4
  x = x
  y = y
  z = z
  Slots = {s1, s2, s3}
  Kind <- ExtremeKinds
  Total = 4
  Baseline = 0
  Safety = 1
  MaxParallel = 1
  Window = 60
  Step = 30
  MaxReorder = 2
  MaxOrders = 0
SPECIFICATION PolicyFairSpec
PROPERTIES EveryJobStarts
