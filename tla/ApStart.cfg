SPECIFICATION FairSpec
CONSTANTS
  c1 = c1
  c2 = c2
  Callers = {c1, c2}
  NumCpus = 4
  Faults = {"dead", "init", "memory", "map"}
  MaxCalls = 3
CHECK_DEADLOCK FALSE
INVARIANTS
  TypeOK
  OwnState
  EnabledRuns
  VectorRestored
  OkMeansUp
PROPERTIES
  CallsReturn
