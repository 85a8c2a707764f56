\* Lists of up to three leaves are audited, with all of the Bulletproofs.
CONSTANTS
    Order = 1009
    RangeEnd = 16
    BPMax = 6
    N = 4
    DUMMY = 10
    Tables <- MCTables
    Hash <- MCHash
    Randoms <- MCRandoms
SPECIFICATION BPSpec
CHECK_DEADLOCK FALSE
INVARIANTS
    PassedIsSorted
    RejectedIsUnsorted
    LeafProofsAgree
PROPERTIES
    ImplementsRangeProof
