SPECIFICATION Spec
CONSTANTS
    DTBs = {d1, d2}
    None = None
    CPUs = 1
    Files <- AnyPolicy
    Watched = {d1}
    MaxEdits = 2
    MaxIO = 1
INVARIANT OldListIsEmpty
CHECK_DEADLOCK FALSE
