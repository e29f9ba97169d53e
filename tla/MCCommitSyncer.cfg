CONSTANTS
    BatchSize = 3
    BatchesAhead = 2
    ParallelFetches = 2
    MaxCommit = 7
SPECIFICATION FairSpec
CHECK_DEADLOCK FALSE
INVARIANTS
    CertifiedCommitsAreContiguous
    NoScheduledCommitLost
    NoDuplicateFetch
    SyncedIsCommitted
PROPERTIES
    CatchesUp
