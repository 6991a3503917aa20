SPECIFICATION HistorySpec
CONSTANTS
  Procs = {p1}
  NoProc = noproc
  Inums = {1, 2, 3}
  NINODE = 4
  NFILE = 3
  NOFILE = 2
  NBlocks = 8
  BPB = 4
  NDIRECT = 1
  NINDIRECT = 2
  UPB = 2
  AfterCache = 0
  Programs <- LeaveProgram
  MaxCalls = 7
  MaxCrashes = 0
INVARIANT InodesHaveType
CHECK_DEADLOCK FALSE
