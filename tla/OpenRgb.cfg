SPECIFICATION Spec
CONSTANTS
  MaxDevices = 2
  CheckEvery = 2
  Retries = 3
INVARIANT WorkerInv
PROPERTIES
  Reconnects
  HotPlugIsSeen
  StopReturns
