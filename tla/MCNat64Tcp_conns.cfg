SPECIFICATION MCSpec
CONSTANTS
  c1 = c1
  c2 = c2
  c3 = c3
  s1 = s1
  None = None
  Conn <- ThreeConns
  Src <- OneSrc
  SrcOf <- Clients
  Capacity = 1
  Settings <- Reloadable
  Handlers = 2
  MaxTime = 2
  MayStop = TRUE
INVARIANTS SlotsExact SourcesExact SourceOvershoot
PROPERTIES HalfClosePreserved IdleReleased TrackedSwept
