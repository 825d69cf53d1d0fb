SPECIFICATION FairSpec
CONSTANTS
  c1 = c1
  c2 = c2
  Callers = {c1}
  NumCpus = 3
  Faults = {"map"}
  MaxCalls = 2
CHECK_DEADLOCK FALSE
PROPERTIES
  EveryCallReturns
