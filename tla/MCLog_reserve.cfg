CONSTANTS
  Ops = {o1, o2, o3}
  Block = {b1, b2, b3}
  Val = {0}
  MAXOPBLOCKS = 1
  LOGSIZE = 3
  NLOG = 3
  OpBlocks = 1
  NoBlock = NoBlock
SPECIFICATION Spec
INVARIANTS NeverTooBig
