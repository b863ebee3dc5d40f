---------------------------- MODULE MCIngestion ----------------------------
(***************************************************************************)
(* Instances of Ingestion for TLC.  A day has one or two ticks; the first  *)
(* window reaches back to time 0.                                          *)
(***************************************************************************)
EXTENDS Ingestion, TLC

AnyWorker == Permutations(Workers)

\* Paper 1 is cross-listed, paper 2 is not.
CrossListed == [p \in Papers |-> IF p = 1 THEN 1 .. NumCategories ELSE {NumCategories}]
Alone == [p \in Papers |-> {1}]

\* The last scope does not accept paper 2.
MatchesAll == [s \in Scopes |-> Papers]
MatchesSome == [s \in Scopes |-> IF s = 1 THEN Papers ELSE Papers \ {2}]

\* Runs 1 and 2 are the scheduled runs of two dates; run 3 reprocesses the first.
Modes == [r \in Runs |-> IF r = 3 THEN "REPROCESS" ELSE "NORMAL"]
DateOfRun == [r \in Runs |-> IF r = 2 THEN 2 ELSE 1]
EndOfRun == [r \in Runs |-> StartTime + 1]

\* After the first date there is either a second one, for which one process at a
\* time works under one configuration and keeps its lock, or a reprocess of the
\* first, which begins when that is published.
SecondDate ==
    now > StartTime + 1 \/ run[2].status # "ABSENT" \/ \E w \in Workers : job[w] = 2

Reprocesses == losses > 0 \/ \E w \in Workers : job[w] = 3

OneAfterTheOther ==
    IF SecondDate
    THEN /\ ~ Reprocesses /\ published[1] = {} /\ run[3].status = "ABSENT"
         /\ \A w \in Workers : view[w].scope = 1
         /\ Cardinality({w \in Workers : pc[w] # "idle"}) <= 1
    ELSE Reprocesses => published[1] # {}
=============================================================================
