SPECIFICATION Spec
CONSTANTS
  c1 = c1
  c2 = c2
  Callers = {c1, c2}
  NumCpus = 3
  Faults = {"late"}
  MaxCalls = 3
CHECK_DEADLOCK FALSE
INVARIANTS
  OwnState
