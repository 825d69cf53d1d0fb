SPECIFICATION FairSpec
CONSTANTS
  t1 = t1
  t2 = t2
  Tasks = {t1}
  NoOne = NoOne
  Rates = {"r1"}
  FifoSize = 2
  Calls = {"opts", "kprintf"}
  IerBoot = {}
  MaxChars = 1
  MaxRx = 2
  MaxModem = 2
  MaxCalls = 1
CHECK_DEADLOCK FALSE
PROPERTIES
  OutputDrained
  InputTaken
