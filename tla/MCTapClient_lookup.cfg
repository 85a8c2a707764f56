\* A client looks rows up while the operator adds them.
CONSTANTS
    Times = {1, 2}
    Types = {1, 2}
    Rows <- MCRows
    FullRange <- MCFullRange
    Ranges <- EpochRanges
    MaxThreads = 2
    CallKinds = {"AddToSqlTable", "AddToTree"}
    MaxCalls = 2
    LookupRows <- MCLookupRows
    SumRanges <- MCSumRanges
SPECIFICATION Spec
INVARIANTS
    NotFoundIsUncommitted
