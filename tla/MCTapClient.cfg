\* A client queries while the operator inserts rows and adds epochs, the server
\* crashes and is initialised anew, and the tree is rebuilt, but not under sums.
CONSTANTS
    Times = {1, 2}
    Types = {1}
    Rows <- MCRowsOneType
    FullRange <- MCFullRange
    Ranges <- EpochRanges
    MaxThreads = 2
    CallKinds = {"AddToSqlTable", "AddToTree", "InitializeTree",
                 "Crash", "Restart"}
    MaxCalls = 3
    LookupRows <- MCLookupRows
    SumRanges <- MCSumRanges
SPECIFICATION SteadySpec
CHECK_DEADLOCK FALSE
INVARIANTS
    SumIsCommitted
    FoundIsCommitted
    TypeOK
    UndisturbedIsAnswered
PROPERTIES
    Transparent
