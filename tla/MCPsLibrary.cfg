CONSTANTS
    Algorithms = {"fcfs", "sjf", "psjf", "rr"}
    MaxIndex = 3
    Quanta = {1, 2}
SPECIFICATION Spec
INVARIANTS
    SharesProcessor EnoughSpace BurstsAccounted FollowsPolicy StringsTellSchedule
PROPERTIES DoneIsFinal CpuSpec
CHECK_DEADLOCK FALSE
