CONSTANTS
  Containers = {c}
  Hosts = {}
  Models = {m1, m2}
  MaxRows = 2
  Requests = {r1}
  ScanInterval = 2
  MaxLoads = 2
  MaxMishaps = 2
SPECIFICATION ExternalFairSpec
INVARIANTS ExternalTypeOK ListMeansUnloaded
PROPERTIES Converges
