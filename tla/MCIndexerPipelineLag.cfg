SPECIFICATION FairSpec
CONSTANTS
    FirstCheckpoint = 0
    LastCheckpoint = 2
    RowsOf <- LaggedCheckpoints
    MaxLag = 1
    Fanout = 2
    MinEagerRows = 2
    MaxPendingRows = 2
    MaxWatermarkUpdates = 2
    MaxChunkRows = 1
    WriteConcurrency = 2
    ChannelSize = 1
    MaxFailures = 0
    MaxRestarts = 1
PROPERTIES
    EverythingIsWatermarked
CHECK_DEADLOCK FALSE
