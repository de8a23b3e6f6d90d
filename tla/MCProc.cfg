CONSTANTS
  NPROC = 3
  CPUs = {c1, c2}
  None = None
  MaxPid = 4
  KillPids = {3}
  WaitPids = {2}
SPECIFICATION Spec
SYMMETRY Symmetry
INVARIANTS ProcInv NoLostExit KillHitsTarget NoSpinDeadlock
