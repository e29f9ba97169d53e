----------------------------- MODULE Committee ------------------------------
(***************************************************************************)
(* The stake thresholds of a committee (consensus/config/src/committee.rs) *)
(* and the stake of a set of authorities as StakeAggregator counts it.     *)
(*                                                                         *)
(* Stake gives every SET of authorities its stake. An aggregator holds a   *)
(* set of authorities, so adding one of them twice changes nothing: all    *)
(* that the votes of a set of blocks amount to is the stake of the set of  *)
(* their authors.                                                          *)
(***************************************************************************)
EXTENDS Integers

CONSTANTS Authorities,  \* the members of the committee
          Stake         \* the stake of each set of members

\* The stake of a set is the sum of its members' stakes, and the total is not
\* zero.
ASSUME StakeAssumption ==
    /\ Stake \in [SUBSET Authorities -> Nat]
    /\ Stake[{}] = 0
    /\ Stake[Authorities] > 0
    /\ \A A, B \in SUBSET Authorities :
           Stake[A \cup B] + Stake[A \cap B] = Stake[A] + Stake[B]

\* A committee of the given total stake that survives f stake of Byzantine
\* members. "crash" is the stake that may stop on top of that.
Thresholds(total, f, crash, certification, quorum) ==
    [total |-> total, f |-> f, crash |-> crash, validity |-> f + 1,
     certification |-> certification, quorum |-> quorum]

\* Committee::new, of consensus v1 and v2.
new_rounded_up(total) ==
    LET f == (total + 1) \div 3
    IN  Thresholds(total, f, 0, total - f, total - f)
new(total) ==
    LET f == (total - 1) \div 3
    IN  Thresholds(total, f, 0, total - f, total - f)

\* The share of a nominal fault budget that this committee's stake affords.
scale(nominal, total, base) ==
    IF base > 0 THEN (nominal * (total - 1)) \div base ELSE 0

\* Committee::new_v3, of consensus v3.
new_v3_quorum_without_crashes(total, malicious_stake, crash_stake) ==
    LET base == 5 * malicious_stake + 3 * crash_stake
        f == scale(malicious_stake, total, base)
        c == scale(crash_stake, total, base)
    IN  Thresholds(total, f, c, 2 * f + c + 1, total - f)
new_v3(total, malicious_stake, crash_stake) ==
    LET base == 5 * malicious_stake + 3 * crash_stake
        f == scale(malicious_stake, total, base)
        c == scale(crash_stake, total, base)
    IN  Thresholds(total, f, c, 2 * f + c + 1, total - f - c)

-----------------------------------------------------------------------------

\* The assertion of Committee::new: two quorums share more stake than the
\* Byzantine members have.
QuorumsShareHonestStake(c) == 2 * c.quorum - c.f > c.total

\* The first assertion of Committee::new_v3: a certificate and a quorum share
\* more than the Byzantine stake.
CertificateMeetsQuorum(c) == c.certification + c.quorum >= c.total + c.f + 1

\* The second: what two quorums share holds a certificate of honest members.
CertificateSurvivesQuorum(c) == c.quorum * 2 >= c.total + c.f + c.certification

\* What remains when the Byzantine and the crashed members are silent is a
\* quorum, so that those who are left can make progress.
QuorumOfTheCorrect(c) == c.total - c.f - c.crash >= c.quorum

\* Thresholds with which a set of no members, or of Byzantine members only,
\* reaches none of them.
ThresholdsArePositive(c) ==
    /\ c.quorum > c.f
    /\ c.certification > c.f
    /\ c.validity > c.f
=============================================================================
