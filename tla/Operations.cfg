SPECIFICATION FairSpec
CONSTANTS
    DTBs = {d1, d2}
    None = None
    CPUs = {c1}
    Paths = {p}
    Script = script
    Threads = 2
    Quantum = 2
    TransferSize = 2
    Sizes = {3}
    Lines = 3
    MaxKills = 1
    Preempted = FALSE
INVARIANTS OneReport TablesAgree ToldBeforeAsked FallsAreProvoked EndedIsReleased TransfersAreWhole
 
CHECK_DEADLOCK FALSE
