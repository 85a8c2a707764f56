\* Files are loaded, loads fail and are repeated, and the tree is built.
CONSTANTS
    MaxThreads = 3
    MaxEntriesPerInsert = 2
    Files <- MCFiles
    Schemas <- MCSchemas
    TimeRanges <- MCRanges
    MaxLoads = 2
SPECIFICATION LSpec
INVARIANTS
    LinesAreInsertedOnce
    PrefixesSpellTheirEntries
    EveryRowIsFiled
CHECK_DEADLOCK FALSE
