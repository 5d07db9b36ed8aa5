SPECIFICATION NicFairSpec
CONSTANTS
  Pkt = {1, 2, 3, 4}
  Ctrl = {1, 2, 3}
  Task = {t1}
  Reader = reader
  Flusher = flusher
  NoFrame = noframe
  CtrlCap = 1
  MaxList = 2
  InitialBackoff = 1
  MaxBackoff = 2
  Grace = 4
  WarnInterval = 1
  MaxClock = 2
INVARIANTS
  RefsExact
  FramesIntact
  GraceHonoured
PROPERTIES
  DispatchReturns
  DeafNodeStops
CHECK_DEADLOCK FALSE
