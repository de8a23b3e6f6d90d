CONSTANTS
  NPROC = 3
  Weights = {1, 2}
  DefaultWeight = 1
  TickWork = 2
  BASE_SLICE = 2
  Word = 1048576
  Workloads = {{"sleep", "exit", "fork", "setnice"}}
  MaxLag = 4
SPECIFICATION Spec
INVARIANTS NeverFurthestAhead
