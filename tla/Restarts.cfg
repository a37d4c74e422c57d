CONSTANTS
  j1 = j1
  j2 = j2
  j3 = j3
  Jobs = {j1, j2}
  MaxBoots = 3
  NoTouch = 1
  HighNoTouch = 2
  ProbeInterval = 1
  ActiveInterval = 1
  Pause = 1
  Backoff1 = 1
  Backoff2 = 2
  Backoff3 = 3
  RecoverySamples = 2
  StableSamples = 2
  StableScans = 2
  Forever = 9
  MaxParallel = 1
  Capacity = 3
  Need <- MCNeed
  BoundaryJobs = {j1}
  CleanupJobs = {}
  WslJobs = {}
  WslForce = FALSE
  Stubborn = {}
  Overdue = {}
  Cancelable = {j1}
  Rearmers = {r1}
  ProbeOnStartup = FALSE
  Mishaps = {"crash", "reboot", "timeout", "transient", "dbReap", "fatal", "censusFatal", "shutdown"}
  MaxMishaps = 3
SPECIFICATION Spec
INVARIANTS WithinLimit BoundaryHolds NoTouchSurvivesRestart GateSurvivesRestart FaultLatchHolds RearmNeedsReboot
PROPERTIES OutcomeFinal
