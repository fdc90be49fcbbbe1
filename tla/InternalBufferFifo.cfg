SPECIFICATION FairBufferSpec
CONSTANTS
    Data = {d1, d2}
    NoItem = NoItem
    DEPTH = 4
    LOG_DEPTH = 2
    ALMOSTFULL_ENTRIES = 1
    ALMOSTEMPTY_VAL = 0
    WRITE_DELAY = 1
    FORWARD_DELAY = 1
    BACKWARD_DELAY = 1
    IS_TRANSACTIONAL = FALSE
    TRANSACTION_SIZE = 1
    RESET_LATENCY = 1
    BYPASS_SLOTS = 2
    MaxResets = 1
INVARIANTS NoOverflow DrainedByReset
PROPERTIES BufferImplementsFifo ReachesConsumer
