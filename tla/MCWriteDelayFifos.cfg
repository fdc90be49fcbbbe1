SPECIFICATION MCSpec
CONSTANTS
    Data = {d1}
    NoItem = NoItem
    DEPTH = 5
    LOG_DEPTH = 3
    ALMOSTFULL_ENTRIES = 0
    ALMOSTEMPTY_VAL = 0
    WRITE_DELAY = 1
    FORWARD_DELAY = 1
    BACKWARD_DELAY = 1
    IS_TRANSACTIONAL = TRUE
    TRANSACTION_SIZE = 2
    RESET_LATENCY = 1
    BYPASS_SLOTS = 2
    MaxResets = 1
INVARIANTS NoUnderflow NeverStallsInside TransactionsExact
PROPERTIES BothImplementFifo NothingStuck
