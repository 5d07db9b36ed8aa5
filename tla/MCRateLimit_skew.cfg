SPECIFICATION MCSpec
CONSTANTS
  Src = {s1, s2}
  Caller = {c1, c2, c3}
  Rates = {0, 1, 2}
  MaxRate = 2
  Scale = 1
  MinBurst = 2
  MaxBuckets = 1
  IdleTicks = 9
  Skew = 1
  MaxReloads = 2
  MaxTime = 11
  Busy = 2
SYMMETRY Symmetry
INVARIANTS RateBounded EvictionInvisible
