CONSTANTS
  p1 = p1
  p2 = p2
  p3 = p3
  k1 = k1
  k2 = k2
  k3 = k3
  v1 = v1
  v2 = v2
  Procs = {p1, p2, p3}
  Blocks = {k1, k2, k3}
  Values = {v1, v2}
  None = None
  NBUF = 2
  NUMs = {4, 6}
SPECIFICATION MCSpec
INVARIANTS CacheInv DriverInv
PROPERTIES ImplementsBufCache RequestsReturn
