CONSTANTS
  Sky <- SkyId
  Broadcasts <- OnAir
SPECIFICATION Spec
INVARIANTS TypeOK FileComplete NeverWrong
PROPERTY ScanEnds
CHECK_DEADLOCK FALSE
