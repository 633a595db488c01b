CONSTANTS
  Ops = {o1, o2, o3}
  Block = {b1, b2, b3, b4, b5}
  Val = {0}
  MAXOPBLOCKS = 2
  LOGSIZE = 4
  NLOG = 5
  OpBlocks = 2
  NoBlock = NoBlock
SPECIFICATION FairSpec
INVARIANTS LogFits
PROPERTIES SleepersWake RecoveryCompletes
