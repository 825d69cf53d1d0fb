SPECIFICATION Spec
CONSTANTS
  t1 = t1
  t2 = t2
  Tasks = {t1, t2}
  NoOne = NoOne
  Rates = {"r1"}
  FifoSize = 2
  Calls = {"opts"}
  IerBoot = {}
  MaxChars = 1
  MaxRx = 1
  MaxModem = 0
  MaxCalls = 2
CHECK_DEADLOCK FALSE
SYMMETRY TaskSymmetry
INVARIANTS
  ReceiverOff
