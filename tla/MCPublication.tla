--------------------------- MODULE MCPublication ---------------------------
(* Small instances of Publication.                                         *)
EXTENDS Publication, TLC

OneConcept  == [v \in Versions |-> {10}]
SecondOnFirst == [v \in Versions |-> IF v = 2 THEN {1} ELSE {}]

\* Runs 1 and 2 are standalone on two dates, run 3 revises the first date.
TwoDates    == [r \in Runs |-> IF r = 2 THEN 2 ELSE 1]
Standalone  == [r \in Runs |-> IF r = 3 THEN 3 ELSE 0]
FirstOrSecond == [r \in Runs |-> IF r = 3 THEN {2} ELSE {1}]
Nothing     == [r \in Runs |-> {}]
SecondFails == [r \in Runs |-> IF r = 1 THEN {2} ELSE {}]

AnyWorker == Permutations(Workers)
=============================================================================
