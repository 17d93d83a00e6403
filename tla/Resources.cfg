SPECIFICATION Spec
CONSTANTS
    DTBs = {1, 2}
    Names = {"A", "B"}
    Known = {"A"}
    MaxOps <- Lengths21
    MaxFinalizar = 1
    Balanced = FALSE
INVARIANTS Ledger WaitsOnce
CHECK_DEADLOCK FALSE
