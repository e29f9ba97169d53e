--------------------------- MODULE MCBlockManager ---------------------------
(* Two authorities over four rounds. a4 also has an ancestor two rounds      *)
(* below it, so that its ancestors are released by different                 *)
(* garbage-collection rounds.                                                *)
EXTENDS BlockManager

MCRound == [a1 |-> 1, b1 |-> 1, a2 |-> 2, b2 |-> 2, a3 |-> 3, a4 |-> 4]

MCBlocks == DOMAIN MCRound

MCAncestors ==
    [a1 |-> {}, b1 |-> {}, a2 |-> {"a1", "b1"}, b2 |-> {"b1"}, a3 |-> {"a2", "b2"},
     a4 |-> {"a3", "b2"}]
=============================================================================
