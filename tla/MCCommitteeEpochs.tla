------------------------- MODULE MCCommitteeEpochs --------------------------
(* Every total stake up to 40 with every pair of nominal budgets up to 4.   *)
EXTENDS CommitteeEpochs

MCAuthorities == {"a"}

MCStake == [A \in SUBSET MCAuthorities |-> IF A = {} THEN 0 ELSE 1]

MCTotals == 1 .. 40

MCBudgets == 0 .. 4
=============================================================================
