CONSTANTS
  NPROC = 3
  NCPU = 2
  MaxPid = 3
  TICKS = 3
  Calls = {"fork", "exit", "wait", "kill", "sleep", "getppid"}
  KillPids = {2}
  SleepFor = {2}
SPECIFICATION Spec
INVARIANTS SwtchIsSafe FamilyTree NoOversleep
PROPERTIES LegalSteps
