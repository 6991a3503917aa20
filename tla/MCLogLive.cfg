SPECIFICATION FairSpec
CONSTANTS
  Procs = {p1, p2, p3}
  Blocks = {b1, b2}
  Vals = {v1}
  Torn = Torn
  NoBuf = NoBuf
  LOGSIZE = 7
  MAXOPBLOCKS = 3
  NLOG = 7
  OpWrites = 1
INVARIANTS
  CommitAlone
  LogSpace
  NoPanic
PROPERTIES
  SleeperWoken
