SPECIFICATION FairSpec
CONSTANTS
    FirstCheckpoint = 0
    LastCheckpoint = 2
    RowsOf <- ThreeCheckpoints
    MaxLag = 0
    Fanout = 2
    MinEagerRows = 2
    MaxPendingRows = 2
    MaxWatermarkUpdates = 2
    MaxChunkRows = 1
    WriteConcurrency = 3
    ChannelSize = 1
    MaxFailures = 2
    MaxRestarts = 2
INVARIANTS
    RowsAccountedFor
PROPERTIES
    ImplementsTable
    EverythingIsWatermarked
CHECK_DEADLOCK FALSE
