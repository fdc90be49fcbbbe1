SPECIFICATION FairSpec
CONSTANTS
    COUNTER_WIDTH = 2
    RETURN_ELEMENT_COUNT = 3
    MAX_THREADS = 2
    NoResult = NoResult
INVARIANTS ReturnsOwnResults PendingExact
PROPERTIES EveryCallReturns
