SPECIFICATION Spec
CONSTANTS
  PageSize = 2
  Space = 16
  Static <- MCStatic
  Slots = 7
  Behind <- MCBehind
  TopEntry = 4
  LocalMem = 4
  MemTop = 9
  MinSegment = 4
  Segments <- MCSegments
  Devices <- MCDevices
  MaxAdds = 4
CHECK_DEADLOCK FALSE
INVARIANTS
  TypeOK
  RegionMapped
  ErrorHasReason
PROPERTIES
  MappingsKept
