SPECIFICATION Spec
CONSTANTS
  t1 = t1
  t2 = t2
  Tasks = {t1, t2}
  NoOne = NoOne
  Rates = {"r1"}
  FifoSize = 2
  Calls = {"opts", "hup", "baud", "kprintf"}
  IerBoot = {}
  MaxChars = 2
  MaxRx = 0
  MaxModem = 2
  MaxCalls = 2
CHECK_DEADLOCK FALSE
SYMMETRY TaskSymmetry
INVARIANTS
  TxWakeup
