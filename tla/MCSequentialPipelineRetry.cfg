SPECIFICATION Spec
CONSTANTS
    EndCp = 3
    Concurrency = 2
    CatchupThreshold = 1
    InitialBackoff = 1
    MaxBackoff = 2
    MaxStreams = 0
    RowsOf <- ThreeCheckpoints
    MaxLag = 0
    Fanout = 2
    MinEagerRows = 2
    MaxPendingRows = 2
    MaxBatchCheckpoints = 2
    PipelineDepth = 1
    MaxFailures = 1
    MaxRestarts = 0
INVARIANTS
    ExactlyOnceAndInOrder
CHECK_DEADLOCK FALSE
