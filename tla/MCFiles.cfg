SPECIFICATION HistorySpec
CONSTANTS
  Procs = {p1, p2}
  NoProc = noproc
  Inums = {1, 2, 3}
  NINODE = 4
  NFILE = 3
  NOFILE = 2
  NBlocks = 8
  BPB = 4
  NDIRECT = 1
  NINDIRECT = 2
  UPB = 2
  AfterCache = 0
  Programs <- AllPrograms
  MaxCalls = 5
  MaxCrashes = 1
SYMMETRY FileSymmetry
INVARIANTS
  CacheCoherent
  RefsCount
  NamedInodesLive
  BlocksOwnedOnce
  AssertionsHold
CHECK_DEADLOCK FALSE
