SPECIFICATION Spec
CONSTANTS
    c1 = c1
    c2 = c2
    CPUs = {c1}
    InitialCPUs = {c1}
    FaultyCPUs = {c1}
    NoCPU = NoCPU
    Degree = 1
    MaxDTB = 2
    MaxBursts = 0
    MaxFinalizar = 1
    Overtaking = TRUE
INVARIANTS OnePlace EveryTaskHasItsDatum NoDoubleBooking
PROPERTY ImplementsLifecycle
CHECK_DEADLOCK FALSE
