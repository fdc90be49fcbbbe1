CONSTANTS
    Sources <- MCSources
    TriedValues <- MCValues
    SizeTWidth = 12
    MaxLutSources = 6
    SmallLutSize = 4
    CarryChainWidth = 1
    LogicRegisterRatio = 4
    CarrySelect = TRUE
    MaxSelectInputs = 2
    Blocks <- MCBlocks
    FifoWidthAlignment = 3
    FifoDepthAlignment = 4
    FifoFixedCost = 2
    FifoBitsPerRegister = 2
    FifoMergeDistance = 1
    LutBasedShiftRegister = FALSE
    StallablePipelines = FALSE
    MaxWorkListSize = 12
    WordBits = 5
    SizeMax = 1000000
    Undefined = Undefined
SPECIFICATION MCSpec
CHECK_DEADLOCK FALSE
INVARIANTS PassesSeeValidIR PropagationsOptimal ReadsSameValue
PROPERTIES SemanticsPreserved CompilerTerminates
