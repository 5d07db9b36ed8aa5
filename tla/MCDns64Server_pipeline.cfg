SPECIFICATION FairSpec
CONSTANTS
  Query = {q1}
  Conn = {c1}
  Msg = {m1, m2, m3}
  MaxQueries = 1
  InFlight = 2
  Free = free
INVARIANTS QuerySemExact NoWriteAfterFailure
PROPERTIES ClosedConnReleased
CHECK_DEADLOCK FALSE
