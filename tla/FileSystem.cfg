SPECIFICATION Spec
CONSTANTS
  p1 = p1
  p2 = p2
  t1 = t1
  t2 = t2
  nl = nl
  v1 = v1
  v2 = v2
  Paths = {p1, p2}
  Threads = {t1, t2}
  NBlocks = 3
  BlockSize = 2
  Newline = nl
  Sizes = {1, 3}
  Writes <- MCWrites
  Lengths = {3}
  MaxRequests = 4
  MaxFaults = 1
  Absent = Absent
  Blank = Blank
SYMMETRY Symmetry
VIEW View
INVARIANTS SoleOwner NoBlockLost MapSaved
PROPERTY StoreImplemented
CHECK_DEADLOCK FALSE
