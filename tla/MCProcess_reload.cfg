SPECIFICATION ProcessFairSpec
CONSTANTS
  P1 = p1
  P2 = p2
  PKey = pkey
  DerivedPrefix = pkey
  Prefix <- MCPrefix
  Bad = bad
  Nil = nil
  Files <- MCFiles
  EnvSources <- MCEnvSources
  MaxEdits = 2
INVARIANTS
  ServicesAgree
  EnvSourcesKept
PROPERTIES
  AnnouncedApplied
  ShutdownCompletes
