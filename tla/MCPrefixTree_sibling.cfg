\* A copath is put together while a node on it is split.
CONSTANTS
    FieldBits = 2
    Keys <- ThreeKeys
    v1 = v1
    v2 = v2
    Values = {v1, v2}
    SetRanges = {}
    MaxAppends = 3
SYMMETRY ValueSymmetry
SPECIFICATION Spec
INVARIANTS
    SiblingIsThere
