SPECIFICATION Spec
CONSTANTS
    Authorities <- MCAuthorities
    Stake <- MCStake
    committee <- MCCommittee
    Byzantine = {"e"}
    Blocks <- MCBlocks
    Round <- MCRound
    Author <- MCAuthor
    Ancestors <- MCAncestors
    Past <- MCPast
    Validators = {v}
    Schedules = {"s1", "s2"}
    Allowed <- MCAllowed
    Rank <- MCRank
    ScheduleAfter <- MCScheduleAfter
    GcDepth = 1
    MaxCrashes = 1
    Skip = Skip
    Undecided = Undecided
INVARIANTS
    NeverPanics
    DecisionsAgree
    CommitsAgree
    CommittedInCausalOrder
PROPERTIES
    ImplementsCommitLog
CHECK_DEADLOCK FALSE
