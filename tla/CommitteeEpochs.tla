-------------------------- MODULE CommitteeEpochs ---------------------------
(***************************************************************************)
(* The committee of every epoch. At the start of an epoch the thresholds   *)
(* are computed from the voting power of the new committee and, for        *)
(* consensus v3, from the fault budgets the operator configured.           *)
(***************************************************************************)
EXTENDS Committee

CONSTANTS Totals,    \* the total stakes a committee may have
          Budgets    \* the nominal fault budgets that may be configured

ASSUME EpochsAssumption ==
    /\ Totals \subseteq Nat \ {0}
    /\ Budgets \subseteq Nat

VARIABLES thresholds,  \* the committee of the epoch
          version      \* the constructor used for it

epochVars == <<thresholds, version>>

NewEpoch ==
    \E total \in Totals :
        /\ version' = "v2"
        /\ thresholds' = new(total)

NewEpochV3 ==
    \E total \in Totals, malicious_stake, crash_stake \in Budgets :
        /\ version' = "v3"
        /\ thresholds' = new_v3(total, malicious_stake, crash_stake)

EpochInit ==
    \E total \in Totals : version = "v2" /\ thresholds = new(total)

EpochNext == NewEpoch \/ NewEpochV3

EpochSpec == EpochInit /\ [][EpochNext]_epochVars

\* No committee fails an assertion of its constructor, whatever its stake and
\* the configured budgets.
ThresholdsIntersect ==
    /\ QuorumsShareHonestStake(thresholds)
    /\ CertificateMeetsQuorum(thresholds)
    /\ version = "v3" => CertificateSurvivesQuorum(thresholds)

\* Faults within the budget neither reach a threshold by themselves nor keep
\* the other members from a quorum.
BudgetIsTolerated ==
    QuorumOfTheCorrect(thresholds) /\ ThresholdsArePositive(thresholds)
=============================================================================
