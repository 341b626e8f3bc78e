\* Two connections, every fault.
CONSTANTS
    NConn = 2
    Faults <- AllFaults
SPECIFICATION ServerSpec
INVARIANTS
    AnswersWithVerdict
    ParentHoldsNone
PROPERTIES
    EveryoneIsAccepted
    ServesCompiles
\* The server waits for a connection when there are none left.
CHECK_DEADLOCK FALSE
