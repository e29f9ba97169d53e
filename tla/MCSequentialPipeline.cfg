SPECIFICATION FairSpec
CONSTANTS
    EndCp = 3
    Concurrency = 2
    CatchupThreshold = 1
    InitialBackoff = 1
    MaxBackoff = 2
    MaxStreams = 2
    RowsOf <- ThreeCheckpoints
    MaxLag = 1
    Fanout = 2
    MinEagerRows = 2
    MaxPendingRows = 2
    MaxBatchCheckpoints = 2
    PipelineDepth = 1
    MaxFailures = 1
    MaxRestarts = 1
INVARIANTS
    EachCheckpointOnce
    CommittedWithoutGaps
    PendingRowsAreCounted
PROPERTIES
    EverythingIsCommitted
CHECK_DEADLOCK FALSE
