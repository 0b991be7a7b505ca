CONSTANTS
  CommandLines <- Lines
  Files <- HcdFiles
  Records <- Firmware
  Confirmation <- Ready
  MaxPending = 7
SPECIFICATION Spec
INVARIANTS TypeOK InStep
PROPERTY Returns
CHECK_DEADLOCK FALSE
