CONSTANTS
  w = w
  n = n
  p = p
  m = m
  Jobs = {w, n, m}
  WslJobs = {w}
  Tenants = {p}
  Conflicting = {n, p}
  Used <- MCUsed
  Tolerance = 1
  MaxParallel = 2
  ScanInterval = 2
  MaxMishaps = 1
  NoTouch = 1
  ProbeInterval = 1
  ActiveInterval = 1
  Pause = 1
  Backoff1 = 1
  Backoff2 = 1
  Backoff3 = 1
  RecoverySamples = 2
  StableSamples = 2
  StableScans = 2
  Forever = 9
SPECIFICATION HandoffFairSpec
INVARIANTS HandoffTypeOK
PROPERTIES GuardImplemented VramReturned ConflictNoticed HandoffEnds
