SPECIFICATION CompilerSpec
CONSTANTS
    Half = 8
    Programs <- MCPrograms
    Inputs <- MCInputs
    Garbage = {5}
    MaxOut = 6
    Sources <- MCSources
    NoTree <- NoSuchTree
    Fuel = 40
INVARIANTS
    FindsTokens
    ParsesTree
    ChecksTypes
    SlotsRight
    ComputesMeaning
PROPERTIES
    ImplementsIloc
    Halts
\* A program that has exited, or waits for input, does nothing more.
CHECK_DEADLOCK FALSE
