CONSTANTS
  BHands = {p1, p2, p3}
  NBUF = 2
  Blocks = {k1, k2, k3}
  BData = {0, 1}
  LogMax = 1
  NoB = NoB
  FProcs = {1, 2}
  NFILE = 3
  NOFILE = 2
  PipePages = {1}
SPECIFICATION TSpec
SYMMETRY TPerms
INVARIANTS CacheIsRegisters FilesCounted
