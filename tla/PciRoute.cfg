SPECIFICATION FairSpec
CONSTANTS
  Machines <- BridgeMachines
  IoBaseId = 8
  IoApics = 2
  RedEntries = 24
  Firmware = 255
  MaxFails = 1
  MaxCalls = 2
CHECK_DEADLOCK FALSE
INVARIANTS
  TypeOK
  LineRouted
  PirqRouted
PROPERTIES
  CallsEnd
