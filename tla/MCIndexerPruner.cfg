SPECIFICATION FairSpec
CONSTANTS
    FirstCheckpoint = 0
    LastCheckpoint = 3
    RowsOf <- OneRowEach
    MaxLag = 1
    Retention = 1
    MaxChunkSize = 2
    MaxReads = 2
    MaxFailures = 2
    MaxRestarts = 1
INVARIANTS
    ReadsFindTheirRows
    NoRangePrunedTwice
    NothingLeftBelowPrunerHi
PROPERTIES
    EverythingBelowReaderLoIsPruned
CHECK_DEADLOCK FALSE
