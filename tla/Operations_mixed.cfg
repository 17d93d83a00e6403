SPECIFICATION Spec
CONSTANTS
    DTBs = {d1, d2}
    None = None
    CPUs = {c1}
    Paths = {p}
    Script = script
    Threads = 2
    Quantum = 2
    TransferSize = 2
    Sizes = {3}
    Lines = 3
    MaxKills = 0
    Preempted = TRUE
INVARIANT MessagesDoNotMix
CHECK_DEADLOCK FALSE
