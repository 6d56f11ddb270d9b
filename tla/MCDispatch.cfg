SPECIFICATION FairSpec
CONSTANTS
  u = u
  n = n
  Request = {u, n}
  Origin <- BothOrigins
  Size <- BothSizes
  Transports = {"HTTP", "MQTT", "none"}
INVARIANTS TypeOK InOrder RouteAgrees
PROPERTIES EventuallyAnswered ImplementsSeries
CHECK_DEADLOCK FALSE
