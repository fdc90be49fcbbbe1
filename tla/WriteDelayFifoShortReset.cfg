SPECIFICATION Spec
CONSTANTS
    Data = {d1}
    NoItem = NoItem
    DEPTH = 16
    LOG_DEPTH = 4
    ALMOSTFULL_ENTRIES = 1
    ALMOSTEMPTY_VAL = 0
    WRITE_DELAY = 7
    FORWARD_DELAY = 7
    BACKWARD_DELAY = 7
    IS_TRANSACTIONAL = FALSE
    TRANSACTION_SIZE = 1
    RESET_LATENCY = 1
    BYPASS_SLOTS = 2
    MaxResets = 1
INVARIANTS DrainedByReset
