CONSTANTS
  Procs = {p1, p2}
  None = None
  Zero = Zero
  NINODES = 6
  NINODE = 6
  FirstBlock = 1
  FSSIZE = 10
  BSIZE = 2
  NDIRECT = 1
  Word = 64
  MaxChunk = 2
  NDEV = 2
  Scripts <- MCScripts
  Images <- MCImages
SYMMETRY Perms
SPECIFICATION Spec
INVARIANTS FsInv LinksExact  OrphansReclaimed
