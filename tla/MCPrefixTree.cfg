\* Clients request proofs while prefixes are appended.
CONSTANTS
    FieldBits = 2
    Keys <- ThreeKeys
    v1 = v1
    v2 = v2
    Values = {v1, v2}
    SetRanges <- MCRanges
    MaxAppends = 3
SYMMETRY ValueSymmetry
SPECIFICATION Spec
INVARIANTS
    TypeOK
    NoPanic
    StaysTrie
    VerifiedMembership
    VerifiedSet
    UndisturbedIsRight
PROPERTIES
    NilOnlyInSplit
