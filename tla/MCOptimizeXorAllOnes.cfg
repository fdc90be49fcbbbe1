CONSTANTS
    Sources <- XorAllOnesSources
    TriedValues <- MCValues
    SizeTWidth = 12
    MaxLutSources = 6
    SmallLutSize = 4
    CarryChainWidth = 1
    LogicRegisterRatio = 4
    CarrySelect = TRUE
    MaxSelectInputs = 2
SPECIFICATION Spec
CHECK_DEADLOCK FALSE
PROPERTIES SemanticsPreserved
