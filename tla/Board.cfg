SPECIFICATION BoardSpec
CONSTANTS
  BootBuilds <- MCBootBuilds
  BootLoaders <- MCBootLoaders
  BootPage = 4
  BootPhysTops = {65}
  BootLocalTop = 61
  BootImages = {7}
  BootEbda = 9
  BootRamLow = 20
  BootPm = 3
  SioMachines <- MCSioMachines
  SioRates <- MCSioRates
  SioLateInstall = FALSE
  SioMaxFails = 1
  SioMaxInstalls = 1
  IrqMachines <- MCIrqMachines
  UsbUsers = {"u1", "u2", "u3"}
  UsbFunc <- MCUsbFunc
  UsbLines = {16, 30, 300}
  UsbSerial = TRUE
  WmMachines <- MCWmMachines
  WmMaxDev = 3
  WmMaxGets = 1
  WmMaxShares = 1
  SdBoards <- MCSdBoards
  SdTargets = 2
  SdMaxTarget = 1
  SdSmp = FALSE
  SdMaxMoves = 2
  NvTasks = {"n1", "n2"}
  NvSize = 2
  NvIntMax = 1000
  NvStrings <- MCNvStrings
  NvOffsets <- MCNvOffsets
  NvMaxSets = 2
  NvMaxFaults = 1
INVARIANTS
  BoardTypeOK
  BootCallReady
  BootImageSafe
  SioOwnUart
  SioNumbersUnique
  SioGotIsConnected
  SioCallbackSound
  SioRateNearest
  UsbLineServed
  UsbFailsWithoutLine
  WmOneOwner
  WmRightFunction
  NvAcknowledged
PROPERTIES
  SdRemoved
  SdCardServed
CHECK_DEADLOCK FALSE
