CONSTANTS
  IProcs = {p1, p2}
  NINODES = 4
  NINODE = 3
  na = na
  nb = nb
  Calls <- FsCalls
  MaxCalls = 3
  NoProc = NoProc
  Inums = {1, 2}
  OFiles = {o1, o2}
  DataBlocks = {1, 2, 3, 4, 5, 6, 7, 8}
  BSIZE = 2
  NDIRECT = 1
  MAXOPBLOCKS = 6
  BPB = 1
  Words = {1, 2}
  MaxN = 3
  MaxWrites = 3
  MkBSIZE = 2
  MkNDIRECT = 1
  MkNBlocks = 9
  MkMaxFiles = 3
  MkMaxSize = 7
SPECIFICATION FsSpec
SYMMETRY FsPerms
INVARIANTS CacheCountsInodes UsedStaysAllocated FileIsBytes BlocksAreOwned
  ChunkFitsReservation ImageIsMountable
CHECK_DEADLOCK FALSE
