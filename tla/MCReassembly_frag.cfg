SPECIFICATION MCSpec
CONSTANTS
  Dgram = {"ping", "even", "long", "error"}
  Size <- Sizes
  Echo = {"ping", "even", "long"}
  Mtu = 64
  Copies = 2
  MaxReassemblies = 2
  MaxFragments = 3
  MaxBytes = 64
  MaxAge = 1
  MaxTime = 2
INVARIANTS ReassembledIntact BufferExact CompleteDelivered
PROPERTY Expires
CHECK_DEADLOCK FALSE
