CONSTANTS
  DockerTries = 2
  PortTries = 2
  MigrateTries = 1
  FirstDelay = 1
  MaxDelay = 4
  TaskRestarts = 1
  Minute = 4
  MinBoot = 7
  MaxSkew = 1
  MaxBoots = 2
  MaxMishaps = 2
SPECIFICATION HostFairSpec
INVARIANTS HostTypeOK OutageBounded LaterBootSeen
PROPERTIES PromptRestart ComesBack
