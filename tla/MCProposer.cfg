SPECIFICATION Spec
CONSTANTS
    Authorities <- MCAuthorities
    Stake <- MCStake
    committee <- MCCommittee
    Up = {"a", "b"}
    Leaders <- MCLeaders
    LowScoring = {"a", "b"}
    enable_v3 = TRUE
    SyncOwnBlock = {"b"}
    MaxRound = 2
    Timed = {"a", "b"}
    Faulty = {"b"}
    Amnesiac = {"b"}
    MaxFaults = 1
    None = None
INVARIANTS
    NeverPanics
    OneBlockPerRound
    ClockFollowsTheDag
    NobodyGetsStuck
CHECK_DEADLOCK FALSE
