SPECIFICATION MCSpec
CONSTANTS
  f1 = f1
  f2 = f2
  c1 = c1
  c2 = c2
  t1 = t1
  t2 = t2
  Nic = Nic
  None = None
  Flow <- TwoFlows
  Sock <- TwoSocks
  Tuple <- TwoTuples
  Src <- OneSrc
  Addr <- OneAddr
  SrcOf <- SameSrc
  AddrOf <- SameAddr
  Settings <- Evicting
  AdmitAttempts = 1
  Stride = 2
  MaxTime = 2
  MaxFatal = 1
  MayStop = TRUE
INVARIANTS EndpointIndependentMapping FlowIsolation CountNeverOver ReplyReachesSession
PROPERTIES ClosedSessionRemoved IdleMappingReleased ImplementsNatMapping
