SPECIFICATION Spec
CONSTANTS
    Streams <- MCStreams
    Functions = {"r_read", "readline", "waitfdtimed", "readtimed", "readblock", "readwriteblock", "r_close"}
    Sizes = {1, 2, 3}
    Seconds <- MCSeconds
    MILLION = 3
    MaxCalls = 2
    MaxSignals = 2
INVARIANTS
    OnTime
    Copied
PROPERTIES
    Implements
    EveryCallReturns
\* The process makes no more calls.
CHECK_DEADLOCK FALSE
