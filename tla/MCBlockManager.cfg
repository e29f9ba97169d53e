SPECIFICATION FairSpec
CONSTANTS
    Blocks <- MCBlocks
    Round <- MCRound
    Ancestors <- MCAncestors
    GcDepth = 1
INVARIANTS
    NeverPanics
    DagIsCausallyComplete
    SuspendedForAReason
    SuspendedIsBeingFetched
PROPERTIES
    SuspendedIsAccepted
CHECK_DEADLOCK FALSE
