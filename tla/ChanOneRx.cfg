SPECIFICATION Spec
CONSTANTS
  t1 = t1
  t2 = t2
  Tasks = {t1, t2}
  NoOne = NoOne
  Rates = {"r1"}
  FifoSize = 2
  Calls = {"kprintf"}
  IerBoot = {}
  MaxChars = 2
  MaxRx = 2
  MaxModem = 0
  MaxCalls = 2
CHECK_DEADLOCK FALSE
SYMMETRY TaskSymmetry
INVARIANTS
  OneRxJob
