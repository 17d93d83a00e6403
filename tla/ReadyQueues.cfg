SPECIFICATION FairSpec
CONSTANTS
    DTBs = {d1, d2}
    None = None
    CPUs = 1
    Files <- Patient
    Watched = {d1}
    MaxEdits = 2
    MaxIO = 1
INVARIANTS ReadyOnce NobodyStranded
PROPERTIES EverybodyRuns PolicyKept
CHECK_DEADLOCK FALSE
