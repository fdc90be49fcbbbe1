SPECIFICATION MCSpec
CONSTANTS
    t1 = t1
    Tag = {t1}
    NoItem = NoItem
    N = 3
    BusyN = 4
    IS_TRANSACTIONAL = TRUE
    TRANSACTION_SIZE = 2
INVARIANTS BoundedOvertaking FairShare
PROPERTIES ImplementsMerger NoStarvation
