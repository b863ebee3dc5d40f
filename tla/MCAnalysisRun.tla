--------------------------- MODULE MCAnalysisRun ---------------------------
(***************************************************************************)
(* Instances of AnalysisRun for TLC.                                       *)
(***************************************************************************)
EXTENDS AnalysisRun

AllTargets == [r \in Runs |-> Versions]
Structured == [r \in Runs |-> "STRUCTURED"]
OwnExecution == [r \in Runs |-> r]
SameDate == [r \in Runs |-> 1]
OwnDate  == [r \in Runs |-> r]

\* A scheduled run and a reprocess.
Revisions == [r \in Runs |-> IF r = 1 THEN "NORMAL" ELSE "REPROCESS"]

\* A standalone command, and the historical analysis of a scheduled execution.
OtherModes == [r \in Runs |-> IF r = 1 THEN "STANDALONE" ELSE "NORMAL"]
OtherOperations == [r \in Runs |-> IF r = 1 THEN "STRUCTURED" ELSE "HISTORICAL"]
=============================================================================
