SPECIFICATION FairSpec
CONSTANTS
  NPROC = 3
  NCPU = 1
  MaxPid = 3
  KillPids = {2, 3}
  NoMemory = TRUE
PROPERTIES
  RunnableRuns
  KilledDies
  ZombieReaped
