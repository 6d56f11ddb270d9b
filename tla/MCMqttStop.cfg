CONSTANTS
  Retries = 2
  MaxClients = 3
  MaxFaults = 3
SPECIFICATION FairSpec
PROPERTIES StopReleases
CHECK_DEADLOCK FALSE
