\* Audits while the operator inserts rows, adds overlapping ranges to the
\* tree and rebuilds it.
CONSTANTS
    Times = {1, 2}
    Types = {1}
    Rows <- MCRows
    FullRange <- MCFullRange
    Ranges <- OverlappingRanges
    MaxThreads = 2
    CallKinds = {"AddToSqlTable", "AddToTree", "InitializeTree",
                 "Crash", "Restart"}
    MaxCalls = 2
    BPMax = 5
SPECIFICATION ASpec
INVARIANTS
    AuditTypeOK
    QuietTreeAuditPasses
    QuietSumTreeAuditPasses
    ValidMeansInTable
