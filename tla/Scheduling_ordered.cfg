SPECIFICATION FairSpec
CONSTANTS
    c1 = c1
    c2 = c2
    CPUs = {c1, c2}
    InitialCPUs = {c1, c2}
    FaultyCPUs = {}
    NoCPU = NoCPU
    Degree = 2
    MaxDTB = 2
    MaxBursts = 1
    MaxFinalizar = 0
    Overtaking = FALSE
INVARIANTS DummyLoadsOne EmptyIsNotFull TargetsAreFound NoLostAdmission NoLostDispatch
PROPERTY EveryScriptEnds
CHECK_DEADLOCK FALSE
