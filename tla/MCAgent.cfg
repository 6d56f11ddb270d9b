CONSTANTS
  k1 = k1  k2 = k2  s1 = s1  s2 = s2
  Text <- MCText
  Key = {k1, k2}
  Device = {d1}
  Signal = {s1, s2}
  File = {"pem"}
  Scenario <- MCScenario
  Groups <- MCGroups
  MaxChanges = 1
SPECIFICATION FairSpec
INVARIANTS TypeOK EnvironmentOverFile ReadyMeansServing GracefulExit PollingAgrees
PROPERTIES EventuallyExits
CHECK_DEADLOCK FALSE
