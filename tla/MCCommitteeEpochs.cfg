SPECIFICATION EpochSpec
CONSTANTS
    Authorities <- MCAuthorities
    Stake <- MCStake
    Totals <- MCTotals
    Budgets <- MCBudgets
INVARIANTS
    ThresholdsIntersect
    BudgetIsTolerated
