\* Third quartiles of tables that do not change.
SPECIFICATION Spec
CONSTANTS
    N_MOMENTS = 3
    Tables <- SomeTables
    NewRows <- OtherRows
    Kinds <- ThirdQuartiles
    Changes = {}
    MaxChanges = 0
    BP_MAX = 16
INVARIANTS UndisturbedIsAccepted
