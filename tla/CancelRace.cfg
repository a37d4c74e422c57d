CONSTANTS
  j1 = j1
  j2 = j2
  j3 = j3
  Jobs = {j1, j2}
  MaxBoots = 1
  NoTouch = 1
  HighNoTouch = 2
  ProbeInterval = 1
  ActiveInterval = 1
  Pause = 1
  Backoff1 = 1
  Backoff2 = 2
  Backoff3 = 3
  RecoverySamples = 2
  StableSamples = 2
  StableScans = 2
  Forever = 9
  MaxParallel = 1
  Capacity = 3
  Need <- MCNeed
  BoundaryJobs = {}
  CleanupJobs = {}
  WslJobs = {}
  WslForce = FALSE
  Stubborn = {}
  Overdue = {}
  Cancelable = {j1}
  Rearmers = {}
  ProbeOnStartup = FALSE
  Mishaps = {}
  MaxMishaps = 1
SPECIFICATION Spec
INVARIANTS StrictSerialization
