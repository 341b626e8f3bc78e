CONSTANTS
    Algorithms = {"fcfs"}
    MaxIndex = 2
    Quanta = {1}
SPECIFICATION Spec
INVARIANT StringsTerminated
CHECK_DEADLOCK FALSE
