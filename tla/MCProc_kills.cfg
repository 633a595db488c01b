CONSTANTS
  NPROC = 3
  NCPU = 2
  MaxPid = 4
  TICKS = 1
  Calls = {"fork", "exit", "wait", "kill"}
  KillPids = {2, 3}
  SleepFor = {0}
SPECIFICATION Spec
INVARIANTS KilledWasAsked
