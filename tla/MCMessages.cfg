CONSTANTS
  m1 = m1  m2 = m2
  Message = {m1, m2}
  MaxSize = 2
  MaxLength = 2
  MaxDepth = 3
  HashField = "k"
  Document <- MCDocument
  Inputs <- MCInputs
  Default = "HTTP"
  ErrorCode = {0, 302, 500}
SPECIFICATION FairSpec
INVARIANTS TypeOK MeasuresAsSent ResultsInOrder ArgoTruthful FirstFieldHashed
PROPERTIES EventuallySettled
CHECK_DEADLOCK FALSE
