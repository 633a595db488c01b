CONSTANTS
  Procs = {p1, p2, p3}
  Byte = {0}
  PIPESIZE = 1
  UINT = 2
  MaxN = 2
  NoProc = NoProc
  Readers = {r1, r2}
  INPUT_BUF = 2
  CUINT = 4
  MaxRead = 2
  COLS = 2
  ROWS = 3
  NoReader = NoReader
  MProcs = {1, 2, 3}
  Pages = {1, 2, 3, 4, 5, 6, 7, 8, 9, 10, 11, 12, 13}
  PGSIZE = 2
  KERNBASE = 8
  MUINT = 16
  NPTENTRIES = 2
  NKPT = 1
  CPUs = {c1, c2}
  KThreads = {k1, k2}
  Locks = {2, 3}
  PtableLock = 2
  NoCPU = NoCPU
SPECIFICATION KSpec
SYMMETRY KPerms
INVARIANTS NoLostWakeup NoUseAfterFree ConsoleKeepsLines MemoryIsOwned LocksExclude
  InterruptsAsBefore
PROPERTIES EofOnlyAfterLastWriter
CHECK_DEADLOCK FALSE
