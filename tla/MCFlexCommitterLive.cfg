SPECIFICATION FairSpec
CONSTANTS
    Authorities <- SmallAuthorities
    Stake <- SmallStake
    committee <- SmallCommittee
    Byzantine = {}
    Blocks <- LiveBlocks
    Round <- LiveRound
    Author <- LiveAuthor
    Ancestors <- LiveAncestors
    Past <- LivePast
    Validators = {v, w}
    Schedules = {"s1", "s2"}
    Allowed <- LiveAllowed
    Rank <- LiveRank
    ScheduleAfter <- LiveScheduleAfter
    GcDepth = 1
    MaxCrashes = 0
    Skip = Skip
    Undecided = Undecided
PROPERTIES
    CommitsConverge
CHECK_DEADLOCK FALSE
