SPECIFICATION FairSpec
CONSTANTS
    Authorities <- MCAuthorities
    Stake <- MCStake
    committee <- MCCommittee
    Byzantine = {"e"}
    Blocks <- MCBlocks
    Round <- MCRound
    Author <- MCAuthor
    Ancestors <- MCAncestors
    Past <- MCPast
    GcDepth = 1
    Genesis <- MCGenesis
    Validators = {v}
    Schedules = {"s1", "s2"}
    Leader <- MCLeader
    ScheduleAfter <- MCScheduleAfter
    num_commits_per_schedule = 2
    MaxCrashes = 1
    Skip = Skip
    Undecided = Undecided
INVARIANTS
    NeverPanics
    DecisionsAgree
PROPERTIES
    ImplementsCommitLog
    CommitsConverge
CHECK_DEADLOCK FALSE
