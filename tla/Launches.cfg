CONSTANTS
  j1 = j1
  j2 = j2
  j3 = j3
  Jobs = {j1, j2, j3}
  MaxBoots = 1
  NoTouch = 0
  HighNoTouch = 0
  ProbeInterval = 0
  ActiveInterval = 0
  Pause = 0
  Backoff1 = 1
  Backoff2 = 1
  Backoff3 = 1
  RecoverySamples = 1
  StableSamples = 1
  StableScans = 1
  Forever = 9
  MaxParallel = 2
  Capacity = 3
  Need <- MCNeed
  BoundaryJobs = {}
  CleanupJobs = {}
  WslJobs = {j2}
  WslForce = FALSE
  Stubborn = {}
  Overdue = {}
  Cancelable = {j1}
  Rearmers = {}
  ProbeOnStartup = FALSE
  Mishaps = {"external", "transient", "windowsCuda", "dbQueue", "popen", "cwd", "dbFinish", "fatal", "censusFatal", "disk"}
  MaxMishaps = 2
SPECIFICATION Spec
INVARIANTS ReservationsFit StartedOnce FaultLatchHolds
PROPERTIES RowsFollowTable NoResurrection
