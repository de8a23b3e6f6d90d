\* One CPU, as the Makefile's default.
CONSTANTS
  NPROC = 3
  CPUs = {c1}
  None = None
  MaxPid = 3
  KillPids = {2}
  WaitPids = {}
SPECIFICATION FairSpec
PROPERTIES KilledExits OrphansReaped
