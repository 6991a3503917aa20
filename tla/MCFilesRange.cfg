SPECIFICATION HistorySpec
CONSTANTS
  Procs = {p1, p2}
  NoProc = noproc
  Inums = {1, 2, 3}
  NINODE = 4
  NFILE = 3
  NOFILE = 2
  NBlocks = 8
  BPB = 4
  NDIRECT = 1
  NINDIRECT = 2
  UPB = 2
  AfterCache = 0
  Programs <- LinkProgram
  MaxCalls = 5
  MaxCrashes = 0
SYMMETRY FileSymmetry
INVARIANT BlocksInRange
CHECK_DEADLOCK FALSE
