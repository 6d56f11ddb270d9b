CONSTANTS
  c1 = c1  c2 = c2
  n1 = n1  n2 = n2
  p1 = p1  p2 = p2
  Command <- TwoCommands
  Name <- TwoNames
  NameOf <- SharedName
  Blank <- SecondBlank
  Poll <- TwoPolls
  RemovesAll = TRUE
  MaxFaults = 1
SPECIFICATION FairSpec
INVARIANTS NameCovered
PROPERTIES EventuallyRemoved
