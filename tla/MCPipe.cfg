CONSTANTS
  Readers = {r1, r2}
  Writers = {w1}
  None = None
  PIPESIZE = 2
  Word = 4
  MaxN = 3
  MaxBytes = 5
  SMP = FALSE
SPECIFICATION FairSpec
INVARIANTS PipeInv
PROPERTIES BlockedReturn
CHECK_DEADLOCK FALSE
