-------------------------- MODULE MCDailyPipeline --------------------------
(***************************************************************************)
(* Instances of DailyPipeline for TLC.                                     *)
(***************************************************************************)
EXTENDS DailyPipeline, TLC

\* The first execution is the scheduled one, the others are reprocesses.
OneScheduled == [e \in Executions |-> IF e = 1 THEN "NORMAL" ELSE "REPROCESS"]
AllScheduled == [e \in Executions |-> "NORMAL"]
SameDate == [e \in Executions |-> 1]
AnyWorker == Permutations(Workers)
OwnDate  == [e \in Executions |-> e]
=============================================================================
