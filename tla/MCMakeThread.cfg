CONSTANTS
    NFiles = 3
    Kinds = {"count", "return", "serial"}
    Faults <- AllFaults
SPECIFICATION Spec
INVARIANTS
    EveryWaiterHasAChild CountIsSuccesses LinkAfterCompiles ZeroHasSuccess
    SerialStopsAtFailure
PROPERTY MainEnds
CHECK_DEADLOCK FALSE
