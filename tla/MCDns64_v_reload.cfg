SPECIFICATION Spec
CONSTANTS
  Client = {c1, c2}
  Name <- MCName
  Key <- MCName
  Arpa <- MCArpa
  RR <- MCRR
  Configs <- Swap
  UpAAAA <- MCUpAAAA
  UpA <- MCUpA
  ArpaIPs = {a1}
  Unspecified = unspecified
  None = none
  V6 = v6
  V4 = v4
  Pool = pool
  Alias = alias
  Second = 1
  MaxTime = 2
INVARIANT PolicyAfterReload
