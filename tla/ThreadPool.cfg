SPECIFICATION FairSpec
CONSTANTS
    Worker = {w1, w2}
    MaxCount = 4
    MaxCalls = 2
INVARIANTS QuietOnReturn ErrorReported MapToListExact
PROPERTIES WaitReturns DestructorEnds
