SPECIFICATION FairSpec
CONSTANTS
    MAX_VALUE = 6
    SEM_DELAY = 2
    LOG_DEPTH = 3
INVARIANTS TypeOK ThreadLimit NoUnderflow CountExact
PROPERTIES ReopensAgain
