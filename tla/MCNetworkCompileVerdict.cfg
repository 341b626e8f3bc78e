\* The server's child may run out of memory.
CONSTANTS
    NConn = 2
    Faults = {"malloc"}
    ClientFaults = {}
SPECIFICATION Spec
INVARIANTS
    ReturnsVerdict
CHECK_DEADLOCK FALSE
