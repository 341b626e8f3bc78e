SPECIFICATION CompilerSpec
CONSTANTS
    Half = 8
    Programs <- MCPrograms
    Inputs <- MCInputs
    Garbage = {5}
    MaxOut = 6
    Sources <- MCSources
    NoTree <- NoSuchTree
    Fuel = 40
INVARIANT CommentsAreLeftOut
CHECK_DEADLOCK FALSE
