SPECIFICATION MCSpec
CONSTANTS
    DEPTH = 4
    LOG_DEPTH = 2
    ALMOST_FULL_MARGIN = 0
    ALMOST_EMPTY_MARGIN = 0
    MaxThreads = 4
    WRITE_DELAY = 3
    LoopFifoDepth = 2
    LoopThreads = 3
    MaxTrips = 2
    NUM_OUTPUT_PORTS = 2
    MatchWidth = 2
    MaxCalls = 4
    Tag = 2
    None = None
    DELAY_CYCLES = 3
    HOLD_CYCLES = 4
    ADDTIONAL_LATENCY = 1
    RamAddress = {a1, a2}
    RamDatum = {d1, d2}
    NoItem = NoItem
    Item = {i1, i2}
    ReadBufferDepth = 3
INVARIANTS ShowsYoungestWrite FlagShownIsCurrent LeavesInOrder RoutedToCaller ResetWindowExact
PROPERTIES LeavesInOrderAndDone EveryoneLeaves AllImplementFifo RegistersKeepMoving
