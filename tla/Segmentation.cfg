SPECIFICATION Spec
CONSTANTS
    DTBs = {d1, d2}
    Workers = {w1, w2}
    Lines = 3
    MaxFile = 2
    MaxFiles = 2
    MaxKills = 1
    Nobody = nobody
SYMMETRY Symmetry
VIEW View
CHECK_DEADLOCK FALSE
INVARIANTS OneOwner ListCompacted ContentsKept AddressesUnique FlushesItsOwn CompactionMerges
