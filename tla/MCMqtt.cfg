CONSTANTS
  Retries = 2
  MaxClients = 3
  MaxFaults = 3
SPECIFICATION FairSpec
INVARIANTS TypeOK OneClientIfEnded ConnectedListens
PROPERTIES Recovers
CHECK_DEADLOCK FALSE
