----------------------------- MODULE MCLineage -----------------------------
(* Five papers: the root 1, two that it cites, and two behind them. *)
EXTENDS Lineage

Rel(i, s, d, t, v) == [id |-> i, src |-> s, dst |-> d, type |-> t, status |-> v]

\* Two relations of the root with one paper, a cycle back to the root and one of two
\* papers, ways of different length to the far papers, and a relation no lineage follows.
MCPool == {Rel(1, 1, 2, 1, "UNVERIFIED"), Rel(2, 1, 2, 2, "HUMAN_VERIFIED"), Rel(3, 1, 3, 1, "UNVERIFIED"),
           Rel(4, 2, 3, 1, "UNVERIFIED"), Rel(5, 3, 2, 1, "UNVERIFIED"), Rel(9, 2, 4, 1, "UNVERIFIED"),
           Rel(6, 3, 4, 1, "UNVERIFIED"), Rel(7, 4, 5, 2, "UNVERIFIED"), Rel(8, 4, 1, 1, "UNVERIFIED"),
           Rel(11, 2, 5, 1, "UNVERIFIED")}
MCNever == {Rel(10, 1, 4, 1, "REJECTED"), Rel(12, 1, 5, 3, "UNVERIFIED")}

MCCorpora == {c \cup MCNever : c \in SUBSET MCPool}
MCCalendars == {[p \in 1 .. 5 |-> 2],
                [p \in 1 .. 5 |-> IF p = 3 THEN NoDate ELSE 3 - (p + 1) \div 2],
                [p \in 1 .. 5 |-> IF p = 4 THEN NoDate ELSE IF p = 5 THEN 3 ELSE 2],
                [p \in 1 .. 5 |-> IF p = 1 THEN 3 ELSE 1]}

Bound(d, n, e) == [depth |-> d, nodes |-> n, edges |-> e]
MCBuilt == {Bound(3, 5, 9), Bound(2, 4, 4), Bound(3, 4, 3)}
MCRequested == {Bound(3, 5, 9), Bound(1, 3, 3), Bound(3, 3, 2)}
=============================================================================
