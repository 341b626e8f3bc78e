\* Two files, every fault.
CONSTANTS
    NConn = 2
    Faults <- AllFaults
    ClientFaults <- AllClientFaults
SPECIFICATION Spec
INVARIANTS
    LinkNeedsVerdicts
    ReadsALaterSlot
PROPERTIES
    ClientEnds
CHECK_DEADLOCK FALSE
