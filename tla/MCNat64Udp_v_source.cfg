SPECIFICATION Spec
CONSTANTS
  f1 = f1
  f2 = f2
  c1 = c1
  c2 = c2
  t1 = t1
  t2 = t2
  Nic = Nic
  None = None
  Flow <- TwoFlows
  Sock <- OneSock
  Tuple <- TwoTuples
  Src <- OneSrc
  Addr <- OneAddr
  SrcOf <- SameSrc
  AddrOf <- SameAddr
  Settings <- LimitOne
  AdmitAttempts = 1
  Stride = 2
  MaxTime = 2
  MaxFatal = 0
  MayStop = FALSE
INVARIANTS SourceCountNotOver
