CONSTANTS
    DTBs = {d1, d2}
    Workers = {w1, w2}
    Nobody = nobody
    NFrames = 2
    FrameLines = 1
    MaxLines = 2
    MaxFiles = 2
    MaxKills = 1
SPECIFICATION Spec
SYMMETRY Symmetry
CONSTRAINT PagesAreTold
CHECK_DEADLOCK FALSE
INVARIANTS FrameOwner ContentsKept HandsItsOwn EntriesStand
