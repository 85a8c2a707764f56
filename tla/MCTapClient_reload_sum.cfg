\* The operator reloads the table while a client queries.
CONSTANTS
    Times = {1, 2}
    Types = {1, 2}
    Rows <- MCRows
    FullRange <- MCFullRange
    Ranges <- EpochRanges
    MaxThreads = 2
    CallKinds = {"InitializeSqlTable"}
    MaxCalls = 1
    LookupRows <- MCLookupRows
    SumRanges <- MCSumRanges
SPECIFICATION Spec
INVARIANTS
    SumIsCommitted
