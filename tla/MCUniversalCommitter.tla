------------------------ MODULE MCUniversalCommitter ------------------------
(* Three authorities of which e is Byzantine. a has two votes of four and a  *)
(* quorum is three. e fills its slot of round 1 twice. e1 has the votes of a *)
(* quorum, a2 and e2, but no certificate: it waits for the anchor a4, when   *)
(* a2 is decided already. Nobody refers to e2, which may come at any time.   *)
EXTENDS UniversalCommitter

MCAuthorities == {"a", "b", "e"}

MCStake == [A \in SUBSET MCAuthorities |-> Cardinality(A) + (IF "a" \in A THEN 1 ELSE 0)]

MCCommittee == new(4)

MCAncestors ==
    [a1 |-> {}, e1 |-> {}, f1 |-> {},
     a2 |-> {"a1", "e1"}, b2 |-> {"a1", "f1"}, e2 |-> {"a1", "e1"},
     a3 |-> {"a2", "b2"}, b3 |-> {"a2", "b2"}, a4 |-> {"a3", "b3"}, b4 |-> {"a3", "b3"},
     a5 |-> {"a4", "b4"}, b5 |-> {"a4", "b4"}, a6 |-> {"a5", "b5"}, b6 |-> {"a5", "b5"}]

MCBlocks == DOMAIN MCAncestors

MCRound == [a1 |-> 1, e1 |-> 1, f1 |-> 1, a2 |-> 2, b2 |-> 2, e2 |-> 2, a3 |-> 3, b3 |-> 3,
            a4 |-> 4, b4 |-> 4, a5 |-> 5, b5 |-> 5, a6 |-> 6, b6 |-> 6]

MCAuthor == [a1 |-> "a", e1 |-> "e", f1 |-> "e", a2 |-> "a", b2 |-> "b", e2 |-> "e",
             a3 |-> "a", b3 |-> "b", a4 |-> "a", b4 |-> "b",
             a5 |-> "a", b5 |-> "b", a6 |-> "a", b6 |-> "b"]

Reach[b \in MCBlocks] == {b} \cup UNION {Reach[a] : a \in MCAncestors[b]}

MCPast == [b \in MCBlocks |-> {x \in MCBlocks : x \in Reach[b]}]

\* Who has no block to refer to yet refers to the own genesis block.
MCGenesis == [b \in MCBlocks |-> {MCAuthor[b]} \ {MCAuthor[a] : a \in MCAncestors[b]}]

MCLeader == [s1 |-> <<"e", "a", "a", "a", "a", "a">>, s2 |-> <<"e", "e", "b", "b", "b", "b">>]

\* The second schedule is in force once two leaders have been scored.
MCScheduleAfter == [L \in SUBSET MCBlocks |-> IF L = {} THEN "s1" ELSE "s2"]
=============================================================================
