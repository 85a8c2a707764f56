\* Every query on real sum trees while rows are inserted, some of them again,
\* and the table is dropped, refilled and replaced.
SPECIFICATION Spec
CONSTANTS
    N_MOMENTS = 3
    Tables <- AllTables
    NewRows <- OtherRows
    Kinds <- AllKinds
    Changes = {"insert", "drop", "reload"}
    MaxChanges = 2
    BP_MAX = 16
INVARIANTS TypeOK AnswersAreRight UndisturbedIsAccepted
