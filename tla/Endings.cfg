CONSTANTS
  j1 = j1
  j2 = j2
  j3 = j3
  Jobs = {j1, j2}
  MaxBoots = 1
  NoTouch = 2
  HighNoTouch = 3
  ProbeInterval = 1
  ActiveInterval = 1
  Pause = 1
  Backoff1 = 1
  Backoff2 = 2
  Backoff3 = 3
  RecoverySamples = 2
  StableSamples = 2
  StableScans = 2
  Forever = 9
  MaxParallel = 2
  Capacity = 3
  Need <- MCNeed
  BoundaryJobs = {}
  CleanupJobs = {j1, j2}
  WslJobs = {j1}
  WslForce = FALSE
  Stubborn = {}
  Overdue = {j2}
  Cancelable = {j1}
  Rearmers = {}
  ProbeOnStartup = FALSE
  Mishaps = {"transient", "timeout", "censusChanged", "censusError", "busy", "dbReap"}
  MaxMishaps = 2
SPECIFICATION Spec
INVARIANTS CleanupOnce NoTouchAfterEnd
