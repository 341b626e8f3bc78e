\* Up to five numbers, the halves of two and three, with equal ones.
CONSTANTS
    Values <- SomeValues
    MaxArgs = 5
    Faults = {"create"}
SPECIFICATION Spec
INVARIANTS
    MergeSafe
    PrintsSorted
    PrintsArguments
PROPERTIES
    Returns
\* main ends.
CHECK_DEADLOCK FALSE
