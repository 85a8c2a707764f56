\* Prefixes are appended in every order, and some of them again.
CONSTANTS
    FieldBits = 2
    Keys <- FiveKeys
    v1 = v1
    v2 = v2
    Values = {v1, v2}
    SetRanges = {}
    MaxAppends = 5
SPECIFICATION WriterSpec
CHECK_DEADLOCK FALSE
INVARIANTS
    HashIsCanonical
PROPERTIES
    ActsAsMap
