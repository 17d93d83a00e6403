SPECIFICATION Spec
CONSTANTS
    DTBs = {1, 2}
    Names = {"A"}
    Known = {"A"}
    MaxOps <- Lengths21
    MaxFinalizar = 0
    Balanced = TRUE
INVARIANT NoLostWakeup
CHECK_DEADLOCK FALSE
