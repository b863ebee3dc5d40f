---------------------------- MODULE DailyPipeline ----------------------------
(***************************************************************************)
(* execute_daily_pipeline: executions of the whole workflow, from arXiv    *)
(* ingestion to the published report of a date.                            *)
(*                                                                         *)
(* Workers (jobs, operators) attempt executions.  The children of an       *)
(* execution, their items and the analyses are rows that survive the       *)
(* attempt; the inside of ingestion and analysis is in Ingestion and       *)
(* AnalysisRun, here each is one step.  The program may be deployed anew   *)
(* between attempts, a process may die anywhere, and every write may fail. *)
(*                                                                         *)
(* The lock of an execution is held by whoever works on it; the lock of a  *)
(* date is held inside ingestion, analysis and publication.  Versions are  *)
(* numbers in the order of their ranking, and belong to distinct papers.   *)
(***************************************************************************)
EXTENDS Integers, FiniteSets

CONSTANTS
    Executions,     \* NORMAL and REPROCESS executions: positive numbers
    Mode,           \* NORMAL or REPROCESS
    Date,           \* the logical date of each execution
    Versions,       \* relevant paper versions: numbers, best first
    Limit,          \* the selection limit
    Workers,
    None,
    Contracts,      \* deployed model, prompt and parser identities: 1, 2, ...
    StagingMayDie,  \* whether an attempt may end without settling its product run
    MaxFaults, MaxExpiries     \* bounds

ASSUME ExecutionsAssumption ==
    /\ Executions \subseteq Nat \ {0} /\ Executions # {}
    /\ Mode \in [Executions -> {"NORMAL", "REPROCESS"}]
    /\ DOMAIN Date = Executions
ASSUME VersionsAssumption == Versions \subseteq Nat /\ IsFiniteSet(Versions) /\ Limit \in Nat \ {0}
ASSUME NoneIsNoValue ==
    /\ None \notin Executions
    /\ \A S \in SUBSET Versions : None # S
    /\ None \notin [cards : SUBSET Versions, ready : SUBSET Versions,
                     status : {"COMPLETE", "PARTIAL"}]
ASSUME BoundsAssumption ==
    /\ Contracts \in Nat \ {0}
    /\ StagingMayDie \in BOOLEAN
    /\ MaxFaults \in Nat
    /\ MaxExpiries \in Nat

VARIABLES
    deployed,    \* the contract new attempts run under
    faults, expiries,
    exec,        \* row of each execution: status, contract, whether its deadline passed
    candidates,  \* items of its completed ingestion run
    decision,    \* the persisted selection among them
    analysis,    \* its structured analysis: status, completed items, analyses then stored
    stored,      \* stored analyses: version, contract, revision
    backfilled,  \* dates with a historical backfill row
    product,     \* its product run: status, snapshot of inputs
    starts,      \* pairs of executions whose publications started in this order
    pc, job, view     \* each worker: where it is, its execution, the selection it made

vars == <<deployed, faults, expiries, exec, candidates, decision, analysis, stored,
          backfilled, product, starts, pc, job, view>>

Dates == {Date[e] : e \in Executions}

\* Analyses of a REPROCESS carry its id, the others none.
Canonical == 0
Revision(e) == IF Mode[e] = "REPROCESS" THEN e ELSE Canonical

Identities == [version : Versions, contract : 1 .. Contracts, revision : {Canonical} \cup Executions]

Finished == {"COMPLETE", "PARTIAL"}
Statuses == {"ABSENT", "RUNNING", "FAILED"} \cup Finished

Steps == {"idle", "ingest", "select", "decide", "analyze", "backfill", "relate", "publish",
          "finish", "complete", "failing"}

AnyExecution == CHOOSE e \in Executions : TRUE

Init ==
    /\ deployed = 1
    /\ faults = 0
    /\ expiries = 0
    /\ exec = [e \in Executions |-> [status |-> "ABSENT", contract |-> 1, expired |-> FALSE]]
    /\ candidates = [e \in Executions |-> None]
    /\ decision = [e \in Executions |-> None]
    /\ analysis = [e \in Executions |-> [status |-> "ABSENT", done |-> {}, backed |-> {}]]
    /\ stored = {}
    /\ backfilled = {}
    /\ product = [e \in Executions |-> [status |-> "ABSENT", inputs |-> {}]]
    /\ starts = {}
    /\ pc = [w \in Workers |-> "idle"]
    /\ job = [w \in Workers |-> AnyExecution]
    /\ view = [w \in Workers |-> {}]

----------------------------------------------------------------------------
(* What the rows say *)

\* Executions whose product run has published its report.
Published == {e \in Executions : product[e].status \in Finished}

PublishedOn(d) == {e \in Published : Date[e] = d}

\* The papers a product run published with their analysis; the other selected
\* ones get a card that says what failed.
Ready(e) == {a.version : a \in product[e].inputs}

\* get_canonically_published_paper_version_ids: of every revision of every date.
PublishedVersions == UNION {Ready(e) : e \in Published}

\* The start of a run is the clock read before its publication; of those
\* readings only the order is kept: e no later than f.
StartedBy(e, f) == <<e, f>> \in starts

WiderFirst(e, f) ==
    LET Width(x) == Cardinality(decision[x]) IN
    \/ Width(e) > Width(f)
    \/ Width(e) = Width(f) /\ StartedBy(f, e)

\* get_reprocessing_baseline_paper_version_ids: all cards of the widest revision.
Baseline(d) ==
    UNION {decision[e] : e \in {x \in PublishedOn(d) :
                                    \A f \in PublishedOn(d) : WiderFirst(x, f)}}

\* The bounded prefix of the ranking.
Best(S) == {v \in S : Cardinality({u \in S : u < v}) < Limit}

\* What _pipeline_selection ranks.
Selectable(e) ==
    LET base == candidates[e] \cap Baseline(Date[e]) IN
    IF Mode[e] = "REPROCESS" /\ base # {} THEN base ELSE candidates[e] \ PublishedVersions

\* Mutant: analyses of any revision.
PublishableOfAnyRevision(e) ==
    {a \in analysis[e].backed : a.version \in analysis[e].done /\ a.contract = exec[e].contract}

\* The analyses get_product_publication_input finds: those of the contract the
\* execution now has, among those stored when the analysis run completed.
Publishable(e) ==
    {a \in analysis[e].backed :
        /\ a.version \in analysis[e].done
        /\ a.contract = exec[e].contract
        /\ a.revision = Revision(e)}

\* The revision readers of a date get: the newest by start.
ServedBy(d) ==
    IF PublishedOn(d) = {} THEN None
    ELSE CHOOSE e \in PublishedOn(d) :
            \A f \in PublishedOn(d) : StartedBy(f, e)

Working(e) == \E w \in Workers : pc[w] # "idle" /\ job[w] = e

\* Somebody is between the start and the end of a publication for the date.
Staging(d) == \E w \in Workers : pc[w] = "finish" /\ Date[job[w]] = d

Busy(w) == \E u \in Workers \ {w} : pc[u] # "idle" /\ Date[job[u]] = Date[job[w]]

----------------------------------------------------------------------------
(* Attempts *)

runs == <<candidates, decision, analysis, stored, backfilled, product, starts>>
budgets == <<deployed, faults, expiries>>

Goto(w, step) == pc' = [pc EXCEPT ![w] = step]

Proceed(w, step) == Goto(w, step) /\ UNCHANGED <<job, view>>

\* The error reaches the lifecycle of the execution.
Raise(w) ==
    /\ Goto(w, "failing")
    /\ view' = [view EXCEPT ![w] = {}]
    /\ UNCHANGED job

Leave(w) ==
    /\ Goto(w, "idle")
    /\ view' = [view EXCEPT ![w] = {}]
    /\ job' = [job EXCEPT ![w] = AnyExecution]

\* Mutant: a restart keeps the deadline that has passed.
RestartedLate(e) == [status |-> "RUNNING", contract |-> deployed, expired |-> exec[e].expired]

\* A running row keeps its deadline, a failed or new one gets another; each
\* attempt writes its contract into the row.
Started(e) == [status |-> "RUNNING", contract |-> deployed,
               expired |-> exec[e].status = "RUNNING" /\ exec[e].expired]

Attempt(w, e) ==
    /\ pc[w] = "idle"
    /\ ~Working(e)
    /\ exec[e].status \notin Finished
    /\ exec' = [exec EXCEPT ![e] = Started(e)]
    /\ Goto(w, "ingest")
    /\ job' = [job EXCEPT ![w] = e]
    /\ UNCHANGED <<budgets, runs, view>>

\* Checked before ingestion, before the backfill, and for each paper to relate;
\* once the product is published nothing is related.
TooLate(w) ==
    LET e == job[w] IN
    /\ exec[e].expired
    /\ \/ pc[w] \in {"ingest", "backfill"}
       \/ pc[w] = "relate" /\ Publishable(e) # {} /\ product[e].status \notin Finished

Late(w) ==
    /\ TooLate(w)
    /\ Raise(w)
    /\ UNCHANGED <<budgets, exec, runs>>

\* The lock of the date is not waited for.
Contended(w) ==
    /\ pc[w] \in {"ingest", "analyze", "relate", "publish"}
    /\ Busy(w)
    /\ Raise(w)
    /\ UNCHANGED <<budgets, exec, runs>>

\* IngestArxiv: a completed run is returned as it is.  A reprocess starts from
\* the cards of the widest revision.
Ingest(w) ==
    LET e == job[w] IN
    /\ pc[w] = "ingest"
    /\ ~TooLate(w)
    /\ ~Staging(Date[e])
    /\ IF candidates[e] # None THEN UNCHANGED candidates
       ELSE \E found \in SUBSET Versions :
              candidates' = [candidates EXCEPT ![e] =
                  found \cup (IF Mode[e] = "REPROCESS" THEN Baseline(Date[e]) ELSE {})]
    /\ Proceed(w, "select")
    /\ UNCHANGED <<budgets, exec, decision, analysis, stored, backfilled, product, starts>>

\* A persisted decision is taken over.
Select(w) ==
    LET e == job[w] IN
    /\ pc[w] = "select"
    /\ view' = [view EXCEPT ![w] =
                   IF decision[e] # None THEN decision[e] ELSE Best(Selectable(e))]
    /\ Goto(w, "decide")
    /\ UNCHANGED <<budgets, exec, runs, job>>

\* persist_ingestion_selection, in a transaction of its own.
Decide(w) ==
    /\ pc[w] = "decide"
    /\ decision' = [decision EXCEPT ![job[w]] = view[w]]
    /\ view' = [view EXCEPT ![w] = {}]
    /\ Goto(w, "analyze")
    /\ UNCHANGED <<budgets, exec, candidates, analysis, stored, backfilled, product, starts, job>>

\* AnalyzePapers stores the analyses of the papers that succeed; what an earlier
\* attempt completed stays.  Without papers there is no backfill.
Analyses(e, good) ==
    {[version |-> v, contract |-> exec[e].contract, revision |-> Revision(e)] : v \in good}

Analyze(w) ==
    LET e == job[w] IN
    /\ pc[w] = "analyze"
    /\ ~Staging(Date[e])
    /\ IF analysis[e].status \in Finished THEN UNCHANGED <<analysis, stored>>
       ELSE \E good \in SUBSET (decision[e] \ analysis[e].done) :
              LET done == analysis[e].done \cup good IN
              /\ stored' = stored \cup Analyses(e, good)
              /\ analysis' = [analysis EXCEPT ![e] =
                     [status |-> IF done = decision[e] THEN "COMPLETE" ELSE "PARTIAL",
                      done |-> done,
                      backed |-> {a \in stored' : a.version \in done}]]
    /\ IF decision[e] = {} THEN Goto(w, "relate") ELSE Goto(w, "backfill")
    /\ UNCHANGED <<budgets, exec, candidates, decision, backfilled, product, starts, job, view>>

\* Part of the papers were analysed when the attempt failed or died; FAILED
\* stands for RUNNING too, they restart alike.
AnalyzeInterrupted(w) ==
    LET e == job[w] IN
    /\ pc[w] = "analyze"
    /\ faults < MaxFaults
    /\ analysis[e].status \notin Finished
    /\ \E good \in SUBSET (decision[e] \ analysis[e].done) :
          /\ stored' = stored \cup Analyses(e, good)
          /\ analysis' = [analysis EXCEPT ![e].status = "FAILED", ![e].done = @ \cup good]
    /\ faults' = faults + 1
    /\ Raise(w) \/ Leave(w)
    /\ UNCHANGED <<deployed, expiries, exec, candidates, decision, backfilled, product, starts>>

\* A backfill that the provider, the embeddings, its deadline or an ambiguous
\* paper failed leaves its row as well and does not stop the pipeline.
Backfill(w) ==
    /\ pc[w] = "backfill"
    /\ ~TooLate(w)
    /\ backfilled' = backfilled \cup {Date[job[w]]}
    /\ Proceed(w, "relate")
    /\ UNCHANGED <<budgets, exec, candidates, decision, analysis, stored, product, starts>>

\* An error of the repository's integrity does, and so does one of the
\* configuration or of the credentials; the backfill's row may be there already.
BackfillRefused(w) ==
    /\ pc[w] = "backfill"
    /\ ~TooLate(w)
    /\ faults < MaxFaults
    /\ faults' = faults + 1
    /\ backfilled' = backfilled \cup {Date[job[w]]}
    /\ Raise(w)
    /\ UNCHANGED <<deployed, expiries, exec, candidates, decision, analysis, stored, product,
                   starts>>

\* The order of the starts when the publication of e starts, anew or for the
\* first time: all others started before.
StartsLast(e) ==
    LET others == {f \in Executions \ {e} : StartedBy(f, f)} IN
    (starts \cap (others \X others)) \cup {<<f, e>> : f \in others \cup {e}}

\* Historical analysis, search and comparison, where item failures are no
\* obstacle; then PublishProduct reads the clock before it takes the lock.  A
\* published run keeps its start.
Relate(w) ==
    LET e == job[w] IN
    /\ pc[w] = "relate"
    /\ ~TooLate(w)
    /\ starts' = IF e \in Published THEN starts ELSE StartsLast(e)
    /\ Proceed(w, "publish")
    /\ UNCHANGED <<budgets, exec, candidates, decision, analysis, stored, backfilled, product>>

----------------------------------------------------------------------------
(* Publication *)

\* restart_product_run demands the inputs of the failed attempt.
MayRestart(e) == product[e].status = "FAILED" /\ product[e].inputs = Publishable(e)

Stage(w) ==
    LET e == job[w] IN
    /\ pc[w] = "publish"
    /\ ~Staging(Date[e])
    /\ product[e].status = "ABSENT" \/ MayRestart(e)
    /\ product' = [product EXCEPT ![e] =
           [status |-> "RUNNING", inputs |-> Publishable(e)]]
    /\ Proceed(w, "finish")
    /\ UNCHANGED <<budgets, exec, candidates, decision, analysis, stored, backfilled, starts>>

\* A published run is returned.
AlreadyPublished(w) ==
    /\ pc[w] = "publish"
    /\ ~Staging(Date[job[w]])
    /\ product[job[w]].status \in Finished
    /\ Proceed(w, "complete")
    /\ UNCHANGED <<budgets, exec, runs>>

\* A running one is taken for somebody else's, a failed one with other inputs
\* cannot restart.
StageRefused(w) ==
    LET e == job[w] IN
    /\ pc[w] = "publish"
    /\ ~Staging(Date[e])
    /\ product[e].status \in {"RUNNING", "FAILED"}
    /\ ~MayRestart(e)
    /\ Raise(w)
    /\ UNCHANGED <<budgets, exec, runs>>

\* Mutant: the run gets the status of its items.
OutcomeOfItems(e) == "COMPLETED"

Outcome(e) == IF Ready(e) = decision[e] THEN "COMPLETE" ELSE "PARTIAL"

\* finalize_product_publication: report, items and status in one transaction.
Finalize(w) ==
    /\ product[job[w]].status = "RUNNING"
    /\ product' = [product EXCEPT ![job[w]].status = Outcome(job[w])]
    /\ UNCHANGED <<exec, candidates, decision, analysis, stored, backfilled, starts>>

Finish(w) ==
    /\ pc[w] = "finish"
    /\ Finalize(w)
    /\ Proceed(w, "complete")
    /\ UNCHANGED budgets

\* The commit succeeds and its answer is lost: fail_product_run refuses.
FinishAnswerLost(w) ==
    /\ pc[w] = "finish"
    /\ faults < MaxFaults
    /\ faults' = faults + 1
    /\ Finalize(w)
    /\ Raise(w)
    /\ UNCHANGED <<deployed, expiries>>

\* A write of the publication fails: fail_product_run discards what was staged.
PublicationFails(w) ==
    /\ pc[w] = "finish"
    /\ faults < MaxFaults
    /\ faults' = faults + 1
    /\ product' = [product EXCEPT ![job[w]].status = "FAILED"]
    /\ Raise(w)
    /\ UNCHANGED <<deployed, expiries, exec, candidates, decision, analysis, stored, backfilled,
                   starts>>

\* So does fail_product_run itself, or the error is of a kind that nobody turns
\* into a failed run.
PublicationAbandoned(w) ==
    /\ pc[w] = "finish"
    /\ StagingMayDie
    /\ faults < MaxFaults
    /\ faults' = faults + 1
    /\ Raise(w)
    /\ UNCHANGED <<deployed, expiries, exec, runs>>

----------------------------------------------------------------------------
(* The end of an attempt *)

SetStatus(e, status) == exec' = [exec EXCEPT ![e].status = status]

\* Mutant: an execution ends as its analysis did.
AnalysisResult(e) == analysis[e].status

\* DailyPipelineResult.status
Result(e) == product[e].status

Complete(w) ==
    /\ pc[w] = "complete"
    /\ SetStatus(job[w], Result(job[w]))
    /\ Leave(w)
    /\ UNCHANGED <<budgets, runs>>

\* Mutant: the lifecycle fails whatever it finds.
FailsAnyway(e) == TRUE

\* The lifecycle fails an execution only if it finds it running.
MayFail(e) == exec[e].status = "RUNNING"

CompleteAnswerLost(w) ==
    /\ pc[w] = "complete"
    /\ faults < MaxFaults
    /\ faults' = faults + 1
    /\ SetStatus(job[w], Result(job[w]))
    /\ Raise(w)
    /\ UNCHANGED <<deployed, expiries, runs>>

Fail(w) ==
    /\ pc[w] = "failing"
    /\ IF MayFail(job[w]) THEN SetStatus(job[w], "FAILED") ELSE UNCHANGED exec
    /\ Leave(w)
    /\ UNCHANGED <<budgets, runs>>

\* Any other step fails before it changes a row.
StepFails(w) ==
    /\ pc[w] \notin {"idle", "finish", "failing"}
    /\ faults < MaxFaults
    /\ faults' = faults + 1
    /\ Raise(w)
    /\ UNCHANGED <<deployed, expiries, exec, runs>>

\* The process dies, or the lifecycle cannot write that the execution failed.
Crash(w) ==
    /\ pc[w] # "idle"
    /\ pc[w] = "finish" => StagingMayDie
    /\ faults < MaxFaults
    /\ faults' = faults + 1
    /\ Leave(w)
    /\ UNCHANGED <<deployed, expiries, exec, runs>>

DeadlinePasses(e) ==
    /\ exec[e].status = "RUNNING"
    /\ ~exec[e].expired
    /\ expiries < MaxExpiries
    /\ expiries' = expiries + 1
    /\ exec' = [exec EXCEPT ![e].expired = TRUE]
    /\ UNCHANGED <<deployed, faults, runs, pc, job, view>>

\* New code for the attempts to come: jobs are single processes, so attempts
\* under way keep the old one.
Deploy ==
    /\ deployed < Contracts
    /\ deployed' = deployed + 1
    /\ UNCHANGED <<faults, expiries, exec, runs, pc, job, view>>

----------------------------------------------------------------------------
(* The specification *)

Stages(w) == Ingest(w) \/ Select(w) \/ Decide(w) \/ Analyze(w) \/ Backfill(w) \/ Relate(w)
Publication(w) == Stage(w) \/ AlreadyPublished(w) \/ StageRefused(w) \/ Finish(w)
End(w) == Late(w) \/ Complete(w) \/ Fail(w)

\* What a worker does by itself.
Step(w) == Stages(w) \/ Publication(w) \/ End(w)

Adversity(w) ==
    \/ Contended(w) \/ AnalyzeInterrupted(w) \/ BackfillRefused(w) \/ FinishAnswerLost(w)
    \/ PublicationFails(w) \/ PublicationAbandoned(w) \/ CompleteAnswerLost(w) \/ StepFails(w) \/ Crash(w)

Next ==
    \/ \E w \in Workers : Step(w) \/ Adversity(w)
    \/ \E w \in Workers, e \in Executions : Attempt(w, e)
    \/ \E e \in Executions : DeadlinePasses(e)
    \/ Deploy

Spec == Init /\ [][Next]_vars

\* Steps are bounded by timeouts, and an execution that failed is attempted
\* again, as the runbook asks of the operator.
Fairness ==
    /\ \A w \in Workers : WF_vars(Step(w))
    /\ \A e \in Executions : SF_vars(\E w \in Workers : Attempt(w, e))

FairSpec == Spec /\ Fairness

----------------------------------------------------------------------------
(* Properties *)

TypeOK ==
    /\ deployed \in 1 .. Contracts
    /\ faults \in Nat
    /\ expiries \in Nat
    /\ exec \in [Executions -> [status : Statuses, contract : 1 .. Contracts, expired : BOOLEAN]]
    /\ candidates \in [Executions -> (SUBSET Versions) \cup {None}]
    /\ decision \in [Executions -> (SUBSET Versions) \cup {None}]
    /\ analysis \in [Executions -> [status : Statuses, done : SUBSET Versions,
                                    backed : SUBSET Identities]]
    /\ stored \subseteq Identities
    /\ backfilled \subseteq Dates
    /\ product \in [Executions -> [status : Statuses, inputs : SUBSET Identities]]
    /\ starts \subseteq Executions \X Executions
    /\ pc \in [Workers -> Steps]
    /\ job \in [Workers -> Executions]
    /\ view \in [Workers -> SUBSET Versions]

\* What _terminal_pipeline_replay demands of the rows of a terminal execution.
ReplayEnvelope(e) ==
    /\ candidates[e] # None
    /\ analysis[e].status \in Finished
    /\ product[e].status \in Finished
    /\ decision[e] # {} => Date[e] \in backfilled

\* Whatever was lost, repeated or interrupted on the way, an execution that is
\* terminal can be replayed, and its status is the one of its report.
TerminalExecutionsReplay ==
    \A e \in Executions : exec[e].status \in Finished =>
        /\ ReplayEnvelope(e)
        /\ exec[e].status = product[e].status

\* A revision publishes analyses of one contract that its own analysis run
\* completed: a reprocess its own, a scheduled run no reprocess's.
RevisionsPublishTheirOwnAnalyses ==
    \A e \in Published :
        /\ Ready(e) \subseteq analysis[e].done
        /\ \A a, b \in product[e].inputs : a.contract = b.contract
        /\ \A a \in product[e].inputs : a.revision = Revision(e)

\* The rows as DailyPublication sees them.
Report(e) == [cards |-> decision[e], ready |-> Ready(e), status |-> product[e].status]
RevisionOf  == [e \in Executions |-> IF e \in Published THEN Report(e) ELSE None]
ServedOn    == [d \in Dates |-> ServedBy(d)]
OutcomeOf   == [e \in Executions |-> IF exec[e].status \in Finished
                                       THEN [Report(e) EXCEPT !.status = exec[e].status]
                                       ELSE None]

Publishing == INSTANCE DailyPublication
                WITH revision <- RevisionOf, served <- ServedOn, outcome <- OutcomeOf

\* The pipeline implements DailyPublication: neither retries, nor crashes, nor
\* concurrent revisions of a date change a published revision or take readers
\* back to an older one.
KeepsItsPromise == Publishing!Spec

\* Its product run was left RUNNING by an attempt that ended, or failed with
\* inputs of an older contract: Stage refuses both for ever.
Stuck(e) ==
    \/ product[e].status = "RUNNING" /\ ~\E w \in Workers : pc[w] = "finish" /\ job[w] = e
    \/ product[e].status = "FAILED" /\ \E a \in product[e].inputs : a.contract # deployed

\* Whatever fails, dies, expires or is deployed, at most MaxFaults times each, an
\* execution that is attempted again and again gets finished, unless its product
\* run is stuck.  (One whose backfill is refused at every attempt does not.)
ExecutionsFinish ==
    \A e \in Executions : exec[e].status # "ABSENT" ~> exec[e].status \in Finished \/ Stuck(e)
=============================================================================
