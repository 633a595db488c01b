CONSTANTS
  MAXARGS = 3
  Lines <- ShLines
  SimPairs <- SimRefs
  MAX_PROCESOS = 3
  VIRTUAL = 4
  FISICA = 3
  SWAP = 4
  MaxLru = 8
  MaxBlind = 3
  NoPage = NoPage
  Requests = {1, 3, 8}
  Header = 2
  MinCore = 4
  MaxBrk = 14
  Patterns <- GrepPatterns
  Texts <- GrepTexts
  GBUF = 4
  Size = 2
  Items = 5
  Junk = Junk
  MAX_THREAD = 8
  NumThreads = {0, 1, 3, 6, 7, 8}
  NumExecs = {0, 1, 2}
  WProcs = {p1, p2}
  ITEMS = 3
  MAX_WORD = 3
  WWords = {1, 2, 4}
  NoW = NoW
  MaxLoops = 4
  NThreads = 2
  MaxItems = 3
  MemLen = 5
  LDIRSIZ = 3
  NAMELEN = 4
  Names <- LibcNames
  INTBITS = 8
  Formats <- LibcFormats
  Inputs <- LibcInputs
  MaxGets = {1, 2, 3, 6}
SPECIFICATION PSpec
INVARIANTS LineRunsAsTyped RunsAsXv6 SimIsIdeal HeapIsSound GrepIsRight ReadsInOrder
  ThreadsTakeTurns WordsAreStack RacesAreBounded CallsAreRight
PROPERTIES ProgramsEnd
CHECK_DEADLOCK FALSE
