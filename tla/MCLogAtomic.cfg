SPECIFICATION Spec
CONSTANTS
  Procs = {p1, p2}
  Blocks = {b1, b2, b3}
  Vals = {v1, v2}
  Torn = Torn
  NoBuf = NoBuf
  LOGSIZE = 8
  MAXOPBLOCKS = 4
  NLOG = 8
  OpWrites = 2
SYMMETRY LogSymmetry
INVARIANTS
  PinnedUntilHome
  NothingTorn
  LogInv
PROPERTIES
  AtomicDisk
