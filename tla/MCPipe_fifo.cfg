CONSTANTS
  Procs = {p1, p2}
  Byte = {0, 1}
  PIPESIZE = 2
  UINT = 4
  MaxN = 2
  NoProc = NoProc
SPECIFICATION FairSpec
PROPERTIES ImplementsByteQueue ReturnsAfterClose
CHECK_DEADLOCK FALSE
