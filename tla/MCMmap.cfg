CONSTANTS
  f1 = f1
  Procs = {p1, p2}
  InitProc = p1
  Pages = {g1, g2, g3}
  Files = {f1}
  Writable = {}
  None = None
  HeapPages = 2
  MmapPages = 2
  NMMAPAREA = 3
SPECIFICATION MCSpec
SYMMETRY Symmetry
INVARIANTS MmapInv ForkCloseNotLast PanicOnlyMisplaced
PROPERTY ForkShares
CHECK_DEADLOCK FALSE
