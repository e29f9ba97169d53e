----------------------------- MODULE MCProposer -----------------------------
(* Three authorities with four votes, of which a has two: a quorum is three  *)
(* votes, f + 1 is two. c never runs, b leads every round, and a and b may   *)
(* be excluded as ancestors.                                                 *)
EXTENDS Proposer

MCAuthorities == {"a", "b", "c"}

Votes == [a |-> 2, b |-> 1, c |-> 1]

Sum[A \in SUBSET MCAuthorities] ==
    IF A = {} THEN 0 ELSE LET x == CHOOSE x \in A : TRUE IN Votes[x] + Sum[A \ {x}]

MCStake == [A \in SUBSET MCAuthorities |-> Sum[A]]

MCCommittee == new(MCStake[MCAuthorities])

MCLeaders == [r \in 0 .. MaxRound |-> {"b"}]
=============================================================================
