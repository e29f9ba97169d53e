------------------------------ MODULE CommitLog ------------------------------
(***************************************************************************)
(* What the commit rules of consensus promise: the validators hold copies  *)
(* of the beginning of one log of commits, which only grows.               *)
(*                                                                         *)
(* An entry of the log is made once, by whoever gets there first. Everyone *)
(* else takes it over. A restart may cut a copy back, never change it.     *)
(***************************************************************************)
EXTENDS Naturals, Sequences

CONSTANT Validators

VARIABLES
    log,     \* the entries <<index, commit>> made so far
    copies   \* the commits that each validator has

logVars == <<log, copies>>

LogInit ==
    /\ log = {}
    /\ copies = [v \in Validators |-> <<>>]

\* The next entry of the validator's copy: of the log, or new to the log.
Extend(v) ==
    LET next == Len(copies[v]) + 1
        commit == copies'[v][next]
    IN  /\ next \in DOMAIN copies'[v]
        /\ copies' = [copies EXCEPT ![v] = Append(@, commit)]
        /\ \A e \in log : e[1] = next => e[2] = commit
        /\ log' = log \cup {<<next, commit>>}

\* The validator starts again from what of its copy was stored.
CutBack(v) ==
    \E n \in 0 .. Len(copies[v]) :
        /\ copies' = [copies EXCEPT ![v] = SubSeq(@, 1, n)]
        /\ log' = log

LogNext == \E v \in Validators : Extend(v) \/ CutBack(v)

LogSpec == LogInit /\ [][LogNext]_logVars
=============================================================================
