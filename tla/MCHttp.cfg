SPECIFICATION FairSpec
CONSTANTS
  r = r
  a = a
  b = b
  c = c
  Request = {r}
  Command = {a, b, c}
  LibraryError = {0, 404, 500}
  EndpointStatus = {200, 204, 503}
INVARIANTS TypeOK SuccessMeansDone
PROPERTIES AnsweredOnce EventuallyAnswered
CHECK_DEADLOCK FALSE
