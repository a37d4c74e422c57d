CONSTANTS
  j1 = j1
  j2 = j2
  j3 = j3
  Jobs = {j1, j2}
  MaxBoots = 2
  NoTouch = 1
  HighNoTouch = 1
  ProbeInterval = 1
  ActiveInterval = 1
  Pause = 1
  Backoff1 = 1
  Backoff2 = 2
  Backoff3 = 3
  RecoverySamples = 2
  StableSamples = 1
  StableScans = 1
  Forever = 9
  MaxParallel = 1
  Capacity = 3
  Need <- MCNeed
  BoundaryJobs = {j1}
  CleanupJobs = {j1}
  WslJobs = {}
  WslForce = FALSE
  Stubborn = {}
  Overdue = {j1}
  Cancelable = {j1}
  Rearmers = {r1}
  ProbeOnStartup = TRUE
  Mishaps = {"transient", "timeout", "fatal", "censusError", "censusTimeout", "censusFatal", "censusChanged", "busy", "external", "windowsCuda", "dbReap", "dbQueue", "dbState", "dbFinish", "dbMark", "disk", "popen", "cwd", "unread", "shutdown", "signal", "crash", "reboot"}
  MaxMishaps = 2
SPECIFICATION Spec
INVARIANTS TypeOK LaunchOnlyWhenReady
CHECK_DEADLOCK FALSE
