-------------------------- MODULE MCFlexCommitter ---------------------------
(* Four authorities with six votes, one of them Byzantine: a quorum is five  *)
(* votes, a certificate three. Authority e fills its slot of round 1 twice,  *)
(* with e1 and f1, and each can be certified: an anchor with c2 in its past  *)
(* sees the three votes of e1, one with e2 those of f1. b3 is of the first   *)
(* kind, e3 of the second. e3 precedes b3, and is committed directly by the  *)
(* last of its votes only.                                                   *)
EXTENDS FlexCommitter

MCAuthorities == {"a", "b", "c", "e"}

Votes == [a |-> 2, b |-> 2, c |-> 1, e |-> 1]

Sum[A \in SUBSET MCAuthorities] ==
    IF A = {} THEN 0 ELSE LET x == CHOOSE x \in A : TRUE IN Votes[x] + Sum[A \ {x}]

MCStake == [A \in SUBSET MCAuthorities |-> Sum[A]]

MCCommittee == new_v3(MCStake[MCAuthorities], 1, 0)

MCAncestors ==
    [a1 |-> {}, b1 |-> {}, e1 |-> {}, f1 |-> {}, a2 |-> {"a1", "b1", "e1"},
     b2 |-> {"a1", "b1", "f1"}, c2 |-> {"a1", "b1", "e1"}, e2 |-> {"a1", "b1", "f1"},
     a3 |-> {"a2", "b2", "c2"}, b3 |-> {"a2", "b2", "c2"}, c3 |-> {"a2", "b2", "c2"},
     e3 |-> {"a2", "b2", "e2"}, a4 |-> {"a3", "b3", "c3", "e3"},
     b4 |-> {"a3", "b3", "c3", "e3"}, c4 |-> {"a3", "b3", "c3", "e3"},
     e4 |-> {"a3", "b3", "c3", "e2"}]

MCBlocks == DOMAIN MCAncestors

MCRound ==
    [a1 |-> 1, b1 |-> 1, e1 |-> 1, f1 |-> 1, a2 |-> 2, b2 |-> 2, c2 |-> 2, e2 |-> 2,
     a3 |-> 3, b3 |-> 3, c3 |-> 3, e3 |-> 3, a4 |-> 4, b4 |-> 4, c4 |-> 4, e4 |-> 4]

MCAuthor ==
    [a1 |-> "a", b1 |-> "b", e1 |-> "e", f1 |-> "e", a2 |-> "a", b2 |-> "b", c2 |-> "c",
     e2 |-> "e", a3 |-> "a", b3 |-> "b", c3 |-> "c", e3 |-> "e", a4 |-> "a", b4 |-> "b",
     c4 |-> "c", e4 |-> "e"]

MCReach[b \in MCBlocks] == {b} \cup UNION {MCReach[a] : a \in MCAncestors[b]}

MCPast == [b \in MCBlocks |-> {x \in MCBlocks : x \in MCReach[b]}]

\* Two schedules, the second one in force from the second commit on.
MCAllowed == [s1 |-> {"b", "e"}, s2 |-> {"e"}]

MCOrder == [slot \in (1 .. 4) \X MCAuthorities |-> [e |-> 0, a |-> 1, b |-> 2, c |-> 3][slot[2]]]

MCRank == [s1 |-> MCOrder, s2 |-> MCOrder]

MCScheduleAfter == [L \in SUBSET MCBlocks |-> IF L = {} THEN "s1" ELSE "s2"]

\* A DAG of a, b and c, of which none is Byzantine: a quorum is a and one
\* more, a certificate a alone or the others together.
SmallAuthorities == {"a", "b", "c"}

SmallStake == [A \in SUBSET SmallAuthorities |->
                  (IF "a" \in A THEN 2 ELSE 0) + (IF "b" \in A THEN 1 ELSE 0)
                  + (IF "c" \in A THEN 1 ELSE 0)]

SmallCommittee == new_v3(SmallStake[SmallAuthorities], 0, 1)

SmallOrder ==
    [slot \in (1 .. 4) \X SmallAuthorities |-> [a |-> 1, b |-> 2, c |-> 3][slot[2]]]

\* Liveness: c stops after its first block. c1 and b1 are decided indirectly,
\* by b3.
LiveAncestors ==
    [a1 |-> {}, b1 |-> {}, c1 |-> {}, a2 |-> {"a1", "c1"}, b2 |-> {"a1", "b1"},
     a3 |-> {"a2", "b2"}, b3 |-> {"a2", "b2"}, a4 |-> {"a3", "b3"}, b4 |-> {"a3", "b3"}]

LiveBlocks == DOMAIN LiveAncestors

LiveRound ==
    [a1 |-> 1, b1 |-> 1, c1 |-> 1, a2 |-> 2, b2 |-> 2, a3 |-> 3, b3 |-> 3, a4 |-> 4, b4 |-> 4]

LiveAuthor ==
    [a1 |-> "a", b1 |-> "b", c1 |-> "c", a2 |-> "a", b2 |-> "b", a3 |-> "a", b3 |-> "b",
     a4 |-> "a", b4 |-> "b"]

LiveReach[b \in LiveBlocks] == {b} \cup UNION {LiveReach[a] : a \in LiveAncestors[b]}

LivePast == [b \in LiveBlocks |-> {x \in LiveBlocks : x \in LiveReach[b]}]

LiveAllowed == [s1 |-> {"b", "c"}, s2 |-> {"a", "c"}]

LiveRank == [s1 |-> SmallOrder, s2 |-> SmallOrder]

LiveScheduleAfter == [L \in SUBSET LiveBlocks |-> IF L = {} THEN "s1" ELSE "s2"]
=============================================================================
