---------------------------- MODULE AnalysisRun ----------------------------
(***************************************************************************)
(* Structured analysis: the use case AnalyzePapers with the rows of its    *)
(* runs, their items and the analyses they persist.                        *)
(*                                                                         *)
(* A worker executes AnalyzePapers.execute: it opens or restarts a run,    *)
(* takes its targets one after another (reuse a stored analysis, else      *)
(* download, parse, ask the model, persist), and finalises the run.  One   *)
(* action is one transaction, except that persisting reads its item        *)
(* without a lock and writes it in a later statement: both are actions.    *)
(* Workers on different dates hold different locks and share analyses; a   *)
(* worker that loses the connection of its lock goes on working.           *)
(***************************************************************************)
EXTENDS Integers, FiniteSets

CONSTANTS
    Versions,     \* paper versions: numbers, targets are taken in order
    Runs,         \* analysis runs
    Targets,      \* the versions each run is asked for
    Operation,    \* STRUCTURED (the papers of the day) or HISTORICAL
    Mode,         \* execution mode of each run
    Execution,    \* pipeline execution that owns each run: a positive number
    LogicalDate,  \* the key of the lock of each run
    FullText,     \* scope: full text (download and parse) or abstract only
    Workers, Nobody,
    Contracts,    \* deployed model, prompt and parser identities: 1, 2, ...
    MaxFaults, MaxLockLosses     \* bounds

ASSUME VersionsAssumption ==
    /\ Versions \subseteq Nat
    /\ Targets \in [Runs -> SUBSET Versions]
    /\ \A r \in Runs : IsFiniteSet(Targets[r])
ASSUME RunsAssumption ==
    /\ Runs # {}
    /\ Operation \in [Runs -> {"STRUCTURED", "HISTORICAL"}]
    /\ Mode \in [Runs -> {"NORMAL", "REPROCESS", "STANDALONE"}]
    /\ Execution \in [Runs -> Nat \ {0}]
    /\ DOMAIN LogicalDate = Runs
ASSUME WorkersAssumption == Nobody \notin Workers
ASSUME BoundsAssumption ==
    /\ Contracts \in Nat \ {0}
    /\ MaxFaults \in Nat
    /\ MaxLockLosses \in Nat
    /\ FullText \in BOOLEAN

VARIABLES
    deployed,   \* the contract new attempts are started with
    faults,     \* failed database writes so far
    losses,     \* lost lock connections so far
    run,        \* row of each run: status and selected_count
    item,       \* rows of its items: status and stage
    report,     \* items listed as failed in the analysis report of each run
    analyses,   \* stored analyses: version, contract, revision
    holder,     \* owner of the advisory lock of each logical date
    pc, job, view   \* each worker: where it is, its run, its local state

vars == <<deployed, faults, losses, run, item, report, analyses, holder, pc, job, view>>

Dates == {LogicalDate[r] : r \in Runs}

\* Analyses of a REPROCESS execution carry it as their revision.
Canonical == 0
Revision(r) == IF Mode[r] = "REPROCESS" THEN Execution[r] ELSE Canonical

\* Mutant: a reprocess reuses like any other run.
AlwaysReuses(r) == TRUE

\* Structured analysis of a REPROCESS reuses nothing; historical analysis does.
Reuses(r) == Operation[r] = "HISTORICAL" \/ Mode[r] = "NORMAL"

NoReport == {-1}

Identities == [version : Versions, contract : 1 .. Contracts,
               revision : {Canonical} \cup {Execution[r] : r \in Runs}]

Stages == {"NONE", "SELECTED", "PDF_DOWNLOADED", "PARSED", "EVIDENCE_EXTRACTED"}
ItemRows == [status : {"ABSENT", "IN_PROGRESS", "COMPLETED", "FAILED"}, stage : Stages]

NoItem    == [status |-> "ABSENT", stage |-> "NONE"]
FreshItem == [status |-> "IN_PROGRESS", stage |-> "SELECTED"]
DoneItem  == [status |-> "COMPLETED", stage |-> "EVIDENCE_EXTRACTED"]

RunRows == [status : {"ABSENT", "RUNNING", "FAILED", "COMPLETE", "PARTIAL"}, selected : Nat]

\* An attempt keeps the contract it started with, the targets it has not come
\* to, whether it saw its analysis stored, and whether a failed item fails the run.
Views == [contract : 1 .. Contracts, todo : SUBSET Versions, known : BOOLEAN, fatal : BOOLEAN]

BlankView == [contract |-> 1, todo |-> {}, known |-> FALSE, fatal |-> FALSE]

Steps == {"idle", "open", "reload", "target", "download", "parse", "saveparsed",
          "analyze", "save", "failitem", "failrun", "failrow", "finalize"}

AnyRun == CHOOSE r \in Runs : TRUE

Init ==
    /\ deployed = 1
    /\ faults = 0
    /\ losses = 0
    /\ run = [r \in Runs |-> [status |-> "ABSENT", selected |-> 0]]
    /\ item = [r \in Runs |-> [v \in Versions |-> NoItem]]
    /\ report = [r \in Runs |-> NoReport]
    /\ analyses = {}
    /\ holder = [d \in Dates |-> Nobody]
    /\ pc = [w \in Workers |-> "idle"]
    /\ job = [w \in Workers |-> AnyRun]
    /\ view = [w \in Workers |-> BlankView]

Terminal(r) == run[r].status \in {"COMPLETE", "PARTIAL"}

ItemsIn(r, status) == {v \in Versions : item[r][v].status = status}

----------------------------------------------------------------------------
(* Steps of an attempt *)

rows == <<run, item, report, analyses>>
world == <<deployed, faults, losses>>

Goto(w, step) == pc' = [pc EXCEPT ![w] = step]

\* The attempt ends, normally or with an error; the lock goes with it.
Leave(w) ==
    /\ Goto(w, "idle")
    /\ view' = [view EXCEPT ![w] = BlankView]
    /\ holder' = [d \in Dates |-> IF holder[d] = w THEN Nobody ELSE holder[d]]
    /\ UNCHANGED job

\* An item that fails lets the others go on, or fails the run with it.
FailTarget(w, fatal) ==
    /\ Goto(w, "failitem")
    /\ view' = [view EXCEPT ![w].fatal = fatal]
    /\ UNCHANGED <<holder, job>>

Advance(w, step) == Goto(w, step) /\ UNCHANGED <<holder, job, view>>

\* The target in hand.
Current(w) == CHOOSE v \in view[w].todo : \A u \in view[w].todo : v <= u

NextTarget(w) ==
    /\ Goto(w, "target")
    /\ view' = [view EXCEPT ![w].todo = @ \ {Current(w)}, ![w].known = FALSE]
    /\ UNCHANGED <<holder, job>>

SetItem(w, row) == item' = [item EXCEPT ![job[w]][Current(w)] = row]

Row(w) == item[job[w]][Current(w)]

\* The stage an item is at when its analysis is persisted.
AnalysedFrom == IF FullText THEN "PARSED" ELSE "SELECTED"

\* The identity of the analysis the worker would store for its target.
Identity(w) == [version |-> Current(w), contract |-> view[w].contract,
                revision |-> Revision(job[w])]

FirstStep == IF FullText THEN "download" ELSE "analyze"

Begin(w, r) ==
    /\ pc[w] = "idle"
    /\ holder[LogicalDate[r]] = Nobody
    /\ holder' = [holder EXCEPT ![LogicalDate[r]] = w]
    /\ job' = [job EXCEPT ![w] = r]
    /\ view' = [view EXCEPT ![w] = [BlankView EXCEPT !.contract = deployed]]
    /\ Goto(w, "open")
    /\ UNCHANGED <<world, rows>>

\* start_analysis_run
StartRun(w) ==
    LET r == job[w] IN
    /\ pc[w] = "open"
    /\ run[r].status = "ABSENT"
    /\ run' = [run EXCEPT ![r] = [status |-> "RUNNING", selected |-> Cardinality(Targets[r])]]
    /\ item' = [item EXCEPT ![r] = [v \in Versions |->
                   IF v \in Targets[r] THEN FreshItem ELSE NoItem]]
    /\ Advance(w, "reload")
    /\ UNCHANGED <<world, report, analyses>>

\* A finished run is returned; a standalone command does not resume.
ReturnExisting(w) ==
    LET r == job[w] IN
    /\ pc[w] = "open"
    /\ run[r].status # "ABSENT"
    /\ Terminal(r) \/ Mode[r] = "STANDALONE"
    /\ Leave(w)
    /\ UNCHANGED <<world, rows>>

\* Mutant: a restart begins from nothing.
AllItemsRestarted(r) == [v \in Versions |-> IF v \in Targets[r] THEN FreshItem ELSE NoItem]

\* restart_analysis_run keeps the completed items and starts the others afresh.
RestartedItems(r) ==
    [v \in Versions |-> IF v \notin Targets[r] THEN NoItem
                        ELSE IF item[r][v].status = "COMPLETED" THEN item[r][v]
                        ELSE FreshItem]

\* Mutant: what a crash leaves running stays.
OnlyFailedRestart(r) == run[r].status = "FAILED"

\* Interrupted runs restart as failed ones do.
MayRestart(r) == run[r].status \in {"RUNNING", "FAILED"} /\ report[r] = NoReport

RestartRun(w) ==
    LET r == job[w] IN
    /\ pc[w] = "open"
    /\ Mode[r] # "STANDALONE"
    /\ MayRestart(r)
    /\ run' = [run EXCEPT ![r] = [status |-> "RUNNING", selected |-> Cardinality(Targets[r])]]
    /\ item' = [item EXCEPT ![r] = RestartedItems(r)]
    /\ Advance(w, "reload")
    /\ UNCHANGED <<world, report, analyses>>

\* The run is read back: its completed targets are skipped.
Reload(w) ==
    /\ pc[w] = "reload"
    /\ Goto(w, "target")
    /\ view' = [view EXCEPT ![w].todo = Targets[job[w]] \ ItemsIn(job[w], "COMPLETED")]
    /\ UNCHANGED <<world, rows, holder, job>>

EndOfTargets(w) ==
    /\ pc[w] = "target"
    /\ view[w].todo = {}
    /\ Advance(w, "finalize")
    /\ UNCHANGED <<world, rows>>

\* A target that cannot be reused goes through the steps of its own analysis.
WithoutReuse(w) ==
    /\ pc[w] = "target"
    /\ view[w].todo # {}
    /\ ~Reuses(job[w])
    /\ Advance(w, FirstStep)
    /\ UNCHANGED <<world, rows>>

\* Stored analyses of a version under a contract that belong to no revision:
\* the ones an attempt may attach, and the ones a comparison may use.
Reusable(v, c) ==
    {a \in analyses : a.version = v /\ a.contract = c /\ a.revision = Canonical}

\* attach_existing_analysis_to_run locks the run and the item.
Attach(w) ==
    LET r == job[w] IN
    /\ pc[w] = "target"
    /\ view[w].todo # {}
    /\ Reuses(r)
    /\ run[r].status = "RUNNING"
    /\ IF Row(w) = DoneItem
         THEN NextTarget(w) /\ UNCHANGED item
         ELSE IF Row(w) = FreshItem /\ Reusable(Current(w), view[w].contract) # {}
                THEN NextTarget(w) /\ SetItem(w, DoneItem)
                ELSE Advance(w, FirstStep) /\ UNCHANGED item
    /\ UNCHANGED <<world, run, report, analyses>>

\* The run was ended by another worker meanwhile: the error is not handled.
AttachRefused(w) ==
    /\ pc[w] = "target"
    /\ view[w].todo # {}
    /\ Reuses(job[w])
    /\ run[job[w]].status # "RUNNING"
    /\ Leave(w)
    /\ UNCHANGED <<world, rows>>

\* The PDF arrives and the item advances, provided it is where it should be.
Download(w) ==
    /\ pc[w] = "download"
    /\ IF Row(w) = FreshItem
         THEN /\ SetItem(w, [FreshItem EXCEPT !.stage = "PDF_DOWNLOADED"])
              /\ Advance(w, "parse")
         ELSE FailTarget(w, TRUE) /\ UNCHANGED item
    /\ UNCHANGED <<world, run, report, analyses>>

\* arXiv, the parser or the model fails on this paper alone, or the evidence is
\* not grounded: an item failure.
PaperFails(w) ==
    /\ pc[w] \in {"download", "parse", "analyze"}
    /\ FailTarget(w, FALSE)
    /\ UNCHANGED <<world, rows>>

\* Rejected credentials or configuration fail the run as well.
ConfigurationFails(w) ==
    /\ pc[w] \in {"parse", "analyze"}
    /\ faults < MaxFaults
    /\ faults' = faults + 1
    /\ FailTarget(w, TRUE)
    /\ UNCHANGED <<deployed, losses, rows>>

\* persist_parsed_paper reads the item without locking it ...
Parse(w) ==
    /\ pc[w] = "parse"
    /\ IF Row(w) = [status |-> "IN_PROGRESS", stage |-> "PDF_DOWNLOADED"]
         THEN Advance(w, "saveparsed")
         ELSE FailTarget(w, TRUE)
    /\ UNCHANGED <<world, rows>>

\* ... and writes its stage, whatever has become of it.
SaveParsed(w) ==
    /\ pc[w] = "saveparsed"
    /\ item' = [item EXCEPT ![job[w]][Current(w)].stage = "PARSED"]
    /\ Advance(w, "analyze")
    /\ UNCHANGED <<world, run, report, analyses>>

\* persist_analysis_bundle reads the item and the stored analysis unlocked ...
Analyze(w) ==
    /\ pc[w] = "analyze"
    /\ IF Row(w) = [status |-> "IN_PROGRESS", stage |-> AnalysedFrom]
         THEN /\ Goto(w, "save")
              /\ view' = [view EXCEPT ![w].known = Identity(w) \in analyses]
              /\ UNCHANGED <<holder, job>>
         ELSE FailTarget(w, TRUE)
    /\ UNCHANGED <<world, rows>>

\* Mutant: without the constraint a late write revives a failed item.
AcceptedWithoutConstraint(w) == view[w].known \/ Identity(w) \notin analyses

\* ... and the commit is rejected when another worker stored the analysis in
\* between, or when the item has failed: a row with failure metadata cannot be
\* COMPLETED (ck_run_items_failure_metadata).
Accepted(w) ==
    /\ view[w].known \/ Identity(w) \notin analyses
    /\ Row(w).status # "FAILED"

Save(w) ==
    /\ pc[w] = "save"
    /\ IF Accepted(w)
         THEN /\ analyses' = analyses \cup {Identity(w)}
              /\ SetItem(w, DoneItem)
              /\ NextTarget(w)
         ELSE FailTarget(w, TRUE) /\ UNCHANGED <<analyses, item>>
    /\ UNCHANGED <<world, run, report>>

----------------------------------------------------------------------------
(* Failure and the end of an attempt *)

\* fail_analysis_item only touches an item in progress.
FailItem(w) ==
    /\ pc[w] = "failitem"
    /\ IF Row(w).status = "IN_PROGRESS"
         THEN /\ SetItem(w, [Row(w) EXCEPT !.status = "FAILED"])
              /\ IF view[w].fatal THEN Advance(w, "failrun") ELSE NextTarget(w)
         ELSE Advance(w, "failrun") /\ UNCHANGED item
    /\ UNCHANGED <<world, run, report, analyses>>

MayFail(r) == run[r].status = "RUNNING"

MarkFailed(r) == run' = [run EXCEPT ![r].status = "FAILED"]

\* Mutant: fail_analysis_run leaves the items alone.
ItemsLeftInProgress(r) == item[r]

\* Mutant: the stage that failed overwrites the stage the item had reached.
ItemsFailedAtStage(r) ==
    [v \in Versions |-> IF item[r][v].status = "IN_PROGRESS"
                          THEN [status |-> "FAILED", stage |-> "ANALYZED"]
                          ELSE item[r][v]]

ItemsFailed(r) ==
    [v \in Versions |-> IF item[r][v].status = "IN_PROGRESS"
                          THEN [item[r][v] EXCEPT !.status = "FAILED"]
                          ELSE item[r][v]]

\* fail_analysis_run first fails the items in progress, which locks their rows
\* until the run's row is updated or the transaction rolls back.
FailRun(w) ==
    LET r == job[w] IN
    /\ pc[w] = "failrun"
    /\ ItemsIn(r, "IN_PROGRESS") # {}
    /\ IF MayFail(r)
         THEN MarkFailed(r) /\ item' = [item EXCEPT ![r] = ItemsFailed(r)]
         ELSE UNCHANGED <<run, item>>
    /\ Leave(w)
    /\ UNCHANGED <<world, report, analyses>>

\* With no item in progress its first statement locks nothing ...
FailNoItems(w) ==
    /\ pc[w] = "failrun"
    /\ ItemsIn(job[w], "IN_PROGRESS") = {}
    /\ Advance(w, "failrow")
    /\ UNCHANGED <<world, rows>>

\* ... and another worker may restart the run before the second.
FailRow(w) ==
    LET r == job[w] IN
    /\ pc[w] = "failrow"
    /\ IF MayFail(r) THEN MarkFailed(r) ELSE UNCHANGED run
    /\ Leave(w)
    /\ UNCHANGED <<world, item, report, analyses>>

Finalizable(r) ==
    /\ run[r].status = "RUNNING"
    /\ Cardinality(Versions \ ItemsIn(r, "ABSENT")) = run[r].selected
    /\ ItemsIn(r, "IN_PROGRESS") = {}

\* finalize_analysis_run: status and report in one transaction.
Publish(r) ==
    /\ Finalizable(r)
    /\ run' = [run EXCEPT ![r].status =
                  IF ItemsIn(r, "FAILED") = {} THEN "COMPLETE" ELSE "PARTIAL"]
    /\ report' = [report EXCEPT ![r] = ItemsIn(r, "FAILED")]
    /\ UNCHANGED <<item, analyses>>

Finalize(w) ==
    /\ pc[w] = "finalize"
    /\ Publish(job[w])
    /\ Leave(w)
    /\ UNCHANGED world

FinalizeRefused(w) ==
    /\ pc[w] = "finalize"
    /\ ~Finalizable(job[w])
    /\ Advance(w, "failrun")
    /\ UNCHANGED <<world, rows>>

\* The commit succeeds and its answer is lost: the attempt tries to fail the run.
FinalizeAnswerLost(w) ==
    /\ pc[w] = "finalize"
    /\ faults < MaxFaults
    /\ faults' = faults + 1
    /\ Publish(job[w])
    /\ Advance(w, "failrun")
    /\ UNCHANGED <<deployed, losses>>

\* A write fails and rolls back.
WriteFails(w) ==
    /\ faults < MaxFaults
    /\ faults' = faults + 1
    /\ \/ pc[w] \in {"download", "saveparsed", "save"} /\ FailTarget(w, TRUE)
       \/ pc[w] \in {"failitem", "finalize"} /\ Advance(w, "failrun")
    /\ UNCHANGED <<deployed, losses, rows>>

\* The process dies, or an error that nothing handles ends the attempt.
Crash(w) ==
    /\ pc[w] # "idle"
    /\ faults < MaxFaults
    /\ faults' = faults + 1
    /\ Leave(w)
    /\ UNCHANGED <<deployed, losses, rows>>

\* The connection of the lock drops; the process notices only when it leaves.
LoseLock(w) ==
    /\ losses < MaxLockLosses
    /\ \E d \in Dates :
          /\ holder[d] = w
          /\ holder' = [holder EXCEPT ![d] = Nobody]
    /\ losses' = losses + 1
    /\ UNCHANGED <<deployed, faults, rows, pc, job, view>>

\* A new version of the program: new model, prompts or parser.
Deploy ==
    /\ deployed < Contracts
    /\ deployed' = deployed + 1
    /\ UNCHANGED <<faults, losses, rows, holder, pc, job, view>>

----------------------------------------------------------------------------
(* The specification *)

Open(w) == StartRun(w) \/ ReturnExisting(w) \/ RestartRun(w)
TakeTarget(w) == EndOfTargets(w) \/ WithoutReuse(w) \/ Attach(w) \/ AttachRefused(w)
Work(w) == Download(w) \/ Parse(w) \/ SaveParsed(w) \/ Analyze(w) \/ Save(w)
End(w) == FailItem(w) \/ FailRun(w) \/ FailNoItems(w) \/ FailRow(w)
            \/ Finalize(w) \/ FinalizeRefused(w)
Adversity(w) == PaperFails(w) \/ ConfigurationFails(w) \/ FinalizeAnswerLost(w)
                  \/ WriteFails(w) \/ Crash(w) \/ LoseLock(w)

\* What a worker does by itself.
Step(w) == Open(w) \/ Reload(w) \/ TakeTarget(w) \/ Work(w) \/ End(w)

Next ==
    \/ \E w \in Workers : Step(w) \/ Adversity(w)
    \/ \E w \in Workers, r \in Runs : Begin(w, r)
    \/ Deploy

Spec == Init /\ [][Next]_vars

\* A worker goes on (external calls are bounded by timeouts), and a run that is
\* not finished is attempted again.
Fairness ==
    /\ \A w \in Workers : WF_vars(Step(w))
    /\ \A r \in Runs : SF_vars(\E w \in Workers : ~Terminal(r) /\ Begin(w, r))

FairSpec == Spec /\ Fairness

----------------------------------------------------------------------------
(* Properties *)

TypeOK ==
    /\ deployed \in 1 .. Contracts
    /\ faults \in Nat
    /\ losses \in Nat
    /\ run \in [Runs -> RunRows]
    /\ item \in [Runs -> [Versions -> ItemRows]]
    /\ report \in [Runs -> (SUBSET Versions) \cup {NoReport}]
    /\ analyses \subseteq Identities
    /\ holder \in [Dates -> Workers \cup {Nobody}]
    /\ pc \in [Workers -> Steps]
    /\ job \in [Workers -> Runs]
    /\ view \in [Workers -> Views]

\* A failed run leaves no item in progress for later attempts or reads to trip
\* over.  A worker without its lock can fail a run another has restarted.
FailedRunsAreSettled ==
    losses = 0 => \A r \in Runs : run[r].status = "FAILED" => ItemsIn(r, "IN_PROGRESS") = {}

\* A finished run, its items and its report tell one story, even when a worker
\* that lost its lock went on writing items: every target is settled, the report
\* lists exactly the failed ones, and the status says whether there are any.  A
\* run that failed as a whole is settled, too.
FinishedRunsAgree ==
    /\ \A r \in Runs : Terminal(r) =>
           /\ ItemsIn(r, "COMPLETED") \cup ItemsIn(r, "FAILED") = Targets[r]
           /\ report[r] = ItemsIn(r, "FAILED")
           /\ run[r].status = "PARTIAL" <=> report[r] # {}
    /\ FailedRunsAreSettled

\* Publication finds an analysis for every completed paper of the day: one of
\* this revision for a reprocess, a canonical one otherwise.
CompletedItemsAreBacked ==
    \A r \in Runs : Operation[r] = "STRUCTURED" =>
        \A v \in ItemsIn(r, "COMPLETED") :
            \E a \in analyses : a.version = v /\ a.revision = Revision(r)

\* Retries, crashes and strays never undo finished work: a completed item stays
\* completed, and a finished run keeps its status, its report and the outcome of
\* every item, whatever a process without its lock still writes.
FinishedWorkIsKept ==
    [][\A r \in Runs :
          /\ ItemsIn(r, "COMPLETED") \subseteq ItemsIn(r, "COMPLETED")'
          /\ Terminal(r) =>
                /\ run'[r] = run[r]
                /\ report'[r] = report[r]
                /\ \A v \in Versions : item'[r][v].status = item[r][v].status]_vars

\* A run of the pipeline whose attempts are repeated gets finished, also when a
\* worker on another date stores the same analysis first and fails the attempt.
RunsFinish ==
    \A r \in Runs : (Mode[r] # "STANDALONE" /\ run[r].status # "ABSENT") ~> Terminal(r)
=============================================================================
