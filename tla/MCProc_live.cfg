CONSTANTS
  NPROC = 3
  NCPU = 1
  MaxPid = 3
  TICKS = 1
  Calls = {"fork", "exit", "wait", "kill"}
  KillPids = {1, 2}
  SleepFor = {0}
SPECIFICATION FairSpec
PROPERTIES NoStarvation KilledDies OrphansReaped
