SPECIFICATION KernelSpec
CONSTANTS
  NPROC = 3
  NCPU = 2
  MaxPid = 3
  KillPids = {2, 3}
  NoMemory = FALSE
  Readers = {r1, r2}
  Typed = {"a", "b", "nl", "^D", "^U", "^H"}
  INPUT_BUF = 2
  UintSize = 8
  CrtCols = 2
  CrtRows = 2
  MaxTyped = 5
  MaxWant = 2
  Scenes <- AllScenes
  ClickTicks = 1
  DblTicks = 1
  MaxTick = 1
INVARIANTS
  StackInUse
  ParentsLive
  NoLostWakeup
  ConsoleLines
  MouseMessages
  NoStuckModifier
