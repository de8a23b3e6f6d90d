CONSTANTS
  b1 = b1
  b2 = b2
  b3 = b3
  b4 = b4
  v1 = v1
  v2 = v2
  Procs = {p1, p2}
  Blocks = {b1, b2, b3, b4}
  Vals = {v1, v2}
  None = None
  MAXOPBLOCKS = 2
  LOGBLOCKS = 4
  OpBlocks = 2
SPECIFICATION MCSpec
INVARIANTS Inv NoPanic
PROPERTIES WriteAhead ImplementsAtomicDisk SleepersWake
