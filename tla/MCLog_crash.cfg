CONSTANTS
  Ops = {o1, o2}
  Block = {b1, b2, b3}
  Val = {0, 1}
  MAXOPBLOCKS = 2
  LOGSIZE = 6
  NLOG = 7
  OpBlocks = 2
  NoBlock = NoBlock
SPECIFICATION Spec
SYMMETRY Perms
INVARIANTS QuiescentIsDurable
PROPERTIES ImplementsAtomicDisk
