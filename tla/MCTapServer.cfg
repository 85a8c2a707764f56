\* The writer side alone, with every kind of call, with crashes and
\* restarts, and its progress.
CONSTANTS
    Times = {1, 2}
    Types = {1, 2}
    Rows <- MCRows
    FullRange <- MCFullRange
    Ranges <- EpochRanges
    MaxThreads = 3
    CallKinds = {"AddToSqlTable", "InitializeSqlTable", "AddToTree", "InitializeTree",
                 "Crash", "Restart"}
    MaxCalls = 3
SPECIFICATION ServerFairSpec
CHECK_DEADLOCK FALSE
INVARIANTS
    ServerTypeOK
    AddedInFull
    ListsAgreeWithTree
    EveryLeafIsListed
PROPERTIES
    InsertedIsPublished
    CallsReturn
