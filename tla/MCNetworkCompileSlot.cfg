\* No fault: the threads share one conn_para.
CONSTANTS
    NConn = 2
    Faults = {}
    ClientFaults = {}
SPECIFICATION Spec
INVARIANTS
    SendsNamedFile
CHECK_DEADLOCK FALSE
