----------------------------- MODULE Ingestion -----------------------------
(***************************************************************************)
(* Resumable arXiv discovery: the use case IngestArxiv, its rows in        *)
(* PostgreSQL (run, checkpoint, run items, topic cursor, current version   *)
(* of a paper) and the OAI-PMH service it harvests.                        *)
(*                                                                         *)
(* A worker is one process executing IngestArxiv.execute.  It holds the    *)
(* advisory lock of the topic and logical date, opens or resumes a run     *)
(* with a fixed window, walks the window one (UTC day, category) at a time *)
(* and commits each step together with its checkpoint.  Processes crash,   *)
(* lose the connection that carries their lock while they go on working,   *)
(* and are started again; papers are revised while they are harvested.     *)
(***************************************************************************)
EXTENDS Integers, FiniteSets

CONSTANTS
    Papers,         \* canonical arXiv identifiers: numbers, for pages are sorted
    NumCategories,  \* the topic's categories are 1 .. NumCategories
    ListedIn,       \* the categories each paper is (cross-)listed in
    Scopes,         \* configurations of the topic (its query)
    Matches,        \* the papers each scope's include and exclude terms accept
    Runs,           \* ingestion runs: one for each pipeline execution
    Mode,           \* execution mode of each run
    LogicalDate,    \* the logical date of each run: the key of the lock
    LogicalEnd,     \* the end of that date, as a time
    Workers, Nobody,
    BatchSize,      \* discovery.max_results: identifiers in a metadata lookup
    PageSize,       \* identifiers in a page of the OAI service
    MaxPages,       \* pages an invocation may list
    TicksPerDay, Lookback, Overlap,      \* times are ticks; a day has TicksPerDay
    StartTime, InitialStamps,            \* when the model starts; earlier changes
    MaxTime, MaxVersion, MaxRejections, MaxLockLosses, MaxPublications  \* bounds

ASSUME PapersAssumption == Papers \subseteq Nat /\ IsFiniteSet(Papers)
ASSUME CategoriesAssumption ==
    /\ NumCategories \in Nat \ {0}
    /\ ListedIn \in [Papers -> SUBSET (1 .. NumCategories)]
ASSUME ScopesAssumption == Scopes # {} /\ Matches \in [Scopes -> SUBSET Papers]
ASSUME RunsAssumption ==
    /\ Runs # {}
    /\ Mode \in [Runs -> {"NORMAL", "STANDALONE", "REPROCESS", "SMOKE"}]
    /\ LogicalEnd \in [Runs -> Nat]
    /\ DOMAIN LogicalDate = Runs
ASSUME WorkersAssumption == Nobody \notin Workers
ASSUME BoundsAssumption ==
    /\ {BatchSize, PageSize, MaxPages, TicksPerDay} \subseteq Nat \ {0}
    /\ {Lookback, Overlap, MaxTime, MaxRejections, MaxLockLosses, MaxPublications} \subseteq Nat
    /\ MaxVersion \in Nat \ {0}
    /\ InitialStamps \subseteq 0 .. StartTime
    /\ StartTime \in Nat
    /\ StartTime >= Lookback + Overlap
    /\ \A r \in Runs : LogicalEnd[r] >= Lookback + Overlap

VARIABLES
    now,        \* the clock
    stamp,      \* OAI datestamp of each paper: when its latest version appeared
    ver,        \* latest version of each paper at arXiv
    rejections, \* how often the service has refused a continuation token
    losses,     \* how often a process has lost the connection of its lock
    run,        \* row of each run: status and window
    progress,   \* checkpoint row of each run
    items,      \* run items of each run: <<paper, version>>
    watermark,  \* the topic's shared cursor
    current,    \* papers.current_version
    published,  \* versions published for each logical date
    holder,     \* owner of the advisory lock of each logical date
    pc, job, view   \* each worker: where it is, its run, its local state

environment == <<now, stamp, ver, rejections, losses, published>>
database    == <<run, progress, items, watermark, current>>
process     == <<holder, pc, job, view>>
vars        == <<environment, database, process>>

Dates      == {LogicalDate[r] : r \in Runs}
Items      == Papers \X (1 .. MaxVersion)
Times      == 0 .. MaxTime
NoWatermark == -1

\* The UTC date of a time.
DateOf(t) == t \div TicksPerDay

\* The n smallest identifiers of a set: pages and pending identifiers are kept
\* sorted, so a set stands for the tuple.
FirstOf(n, S) == {p \in S : Cardinality({q \in S : q < p}) < n}

AdvancesCursor(r) == Mode[r] \notin {"REPROCESS", "SMOKE"}

----------------------------------------------------------------------------
(* Types *)

Statuses == {"ABSENT", "RUNNING", "FAILED", "COMPLETE"}
RunRows  == [status : Statuses, from : Nat, to : Nat]

\* A continuation token stands for the identifiers already served; the empty
\* set is no token.  A row that is not saved does not exist.
Checkpoints == [saved : BOOLEAN, scope : Scopes, day : Nat,
                category : 1 .. NumCategories, token : SUBSET Papers,
                pending : SUBSET Papers, exhausted : BOOLEAN, complete : BOOLEAN]

Views == [fresh : BOOLEAN, scope : Scopes, from : Nat, to : Nat, prog : Checkpoints,
          accepted : SUBSET Items, missing : BOOLEAN, pages : Nat, restarts : Nat]

Steps == {"idle", "opened", "begun", "seed", "harvest", "save", "failing"}

FirstCheckpoint(scope, day) ==
    [saved |-> TRUE, scope |-> scope, day |-> day, category |-> 1, token |-> {},
     pending |-> {}, exhausted |-> FALSE, complete |-> FALSE]

NoCheckpoint == [FirstCheckpoint(CHOOSE s \in Scopes : TRUE, 0) EXCEPT !.saved = FALSE]

BlankView == [fresh |-> FALSE, scope |-> NoCheckpoint.scope, from |-> 0, to |-> 0,
              prog |-> NoCheckpoint, accepted |-> {}, missing |-> FALSE,
              pages |-> 0, restarts |-> 0]

\* An idle worker has no run; its job is then this one.
AnyRun == CHOOSE r \in Runs : TRUE

Init ==
    /\ now = StartTime
    /\ stamp \in [Papers -> InitialStamps]
    /\ ver = [p \in Papers |-> 1]
    /\ rejections = 0
    /\ losses = 0
    /\ run = [r \in Runs |-> [status |-> "ABSENT", from |-> 0, to |-> 0]]
    /\ progress = [r \in Runs |-> NoCheckpoint]
    /\ items = [r \in Runs |-> {}]
    /\ watermark = NoWatermark
    /\ current = [p \in Papers |-> 0]
    /\ published = [d \in Dates |-> {}]
    /\ holder = [d \in Dates |-> Nobody]
    /\ pc = [w \in Workers |-> "idle"]
    /\ job = [w \in Workers |-> AnyRun]
    /\ view = [w \in Workers |-> BlankView]

----------------------------------------------------------------------------
(* The world around the use case *)

Tick ==
    /\ now < MaxTime
    /\ now' = now + 1
    /\ UNCHANGED <<stamp, ver, rejections, losses, published, database, process>>

\* A new version appears: the paper moves to the OAI listing of today.
Revise(p) ==
    /\ ver[p] < MaxVersion
    /\ ver' = [ver EXCEPT ![p] = @ + 1]
    /\ stamp' = [stamp EXCEPT ![p] = now]
    /\ UNCHANGED <<now, rejections, losses, published, database, process>>

\* The rest of the pipeline publishes some of a completed run's papers.
Publish(r) ==
    /\ run[r].status = "COMPLETE"
    /\ published[LogicalDate[r]] = {}
    /\ Cardinality({d \in Dates : published[d] # {}}) < MaxPublications
    /\ \E S \in SUBSET items[r] :
          published' = [published EXCEPT ![LogicalDate[r]] = S]
    /\ UNCHANGED <<now, stamp, ver, rejections, losses, database, process>>

\* The identifiers the service lists for a day and category.
Listing(day, category) ==
    {p \in Papers : DateOf(stamp[p]) = day /\ category \in ListedIn[p]}

----------------------------------------------------------------------------
(* The advisory lock and the life of a process *)

Released(w) == [d \in Dates |-> IF holder[d] = w THEN Nobody ELSE holder[d]]

\* The process returns or raises; leaving the context releases the lock.
Exit(w) ==
    /\ pc' = [pc EXCEPT ![w] = "idle"]
    /\ view' = [view EXCEPT ![w] = BlankView]
    /\ holder' = Released(w)
    /\ job' = [job EXCEPT ![w] = AnyRun]

\* The process dies, or the database is unavailable to a statement: the
\* transaction rolls back and nothing marks the run failed.
Crash(w) ==
    /\ pc[w] # "idle"
    /\ Exit(w)
    /\ UNCHANGED <<environment, database>>

\* The connection that owns the session-level lock drops; the process only
\* notices when it releases the lock.
LoseLock(w) ==
    /\ losses < MaxLockLosses
    /\ losses' = losses + 1
    /\ \E d \in Dates :
          /\ holder[d] = w
          /\ holder' = [holder EXCEPT ![d] = Nobody]
    /\ UNCHANGED <<now, stamp, ver, rejections, published, database, pc, job, view>>

----------------------------------------------------------------------------
(* Opening, starting and resuming a run *)

\* Fault: the window starts from the clock, not from the cursor.
CurrentCursorWindowIgnoringCursor(r) == [from |-> now - Overlap, to |-> now]

CurrentCursorWindow(r) ==
    IF Mode[r] = "REPROCESS"
    THEN LET to == IF now < LogicalEnd[r] THEN now ELSE LogicalEnd[r]
         IN  [from |-> to - Lookback - Overlap, to |-> to]
    ELSE LET base == IF watermark = NoWatermark THEN now - Lookback ELSE watermark
         IN  [from |-> base - Overlap, to |-> now]

\* Takes the lock, reads the run and its checkpoint and fixes the window.
OpenRun(w, r) ==
    LET old    == run[r]
        window == IF old.status = "ABSENT" \/ (old.status = "FAILED" /\ ~progress[r].saved)
                  THEN CurrentCursorWindow(r)
                  ELSE [from |-> old.from, to |-> old.to]
    IN  /\ pc[w] = "idle"
        /\ holder[LogicalDate[r]] = Nobody
        /\ old.status = "ABSENT" \/ (old.status \in {"RUNNING", "FAILED"} /\ Mode[r] # "STANDALONE")
        /\ holder' = [holder EXCEPT ![LogicalDate[r]] = w]
        /\ pc' = [pc EXCEPT ![w] = "opened"]
        /\ job' = [job EXCEPT ![w] = r]
        /\ \E s \in Scopes :
              view' = [view EXCEPT ![w] = [BlankView EXCEPT
                  !.fresh = old.status = "ABSENT", !.scope = s,
                  !.from = window.from, !.to = window.to]]
        /\ UNCHANGED <<environment, database>>

Begin(w, r) ==
    /\ run' = [run EXCEPT ![r] =
                  [status |-> "RUNNING", from |-> view[w].from, to |-> view[w].to]]
    /\ pc' = [pc EXCEPT ![w] = "begun"]
    /\ view' = [view EXCEPT ![w].fresh = FALSE]
    /\ UNCHANGED <<environment, progress, items, watermark, current, holder, job>>

\* A second insert for the same execution breaks the unique constraint.
StartIngestionRun(w) ==
    LET r == job[w] IN
    /\ pc[w] = "opened"
    /\ view[w].fresh
    /\ IF run[r].status = "ABSENT"
       THEN Begin(w, r)
       ELSE Exit(w) /\ UNCHANGED <<environment, database>>

\* Fault: any window is accepted, whatever was already harvested under another.
MayRestartInAnyWindow(w, r) == run[r].status \in {"RUNNING", "FAILED"}

\* Fault: a run whose process died is not resumable.
MayRestartOnlyFailed(w, r) ==
    /\ run[r].status = "FAILED"
    /\ progress[r].saved => run[r].from = view[w].from /\ run[r].to = view[w].to

\* A run with a checkpoint keeps its window; a terminal run does not restart.
MayRestart(w, r) ==
    /\ run[r].status \in {"RUNNING", "FAILED"}
    /\ progress[r].saved => run[r].from = view[w].from /\ run[r].to = view[w].to
    /\ ~progress[r].saved => items[r] = {}

RestartIngestionRun(w) ==
    LET r == job[w] IN
    /\ pc[w] = "opened"
    /\ ~view[w].fresh
    /\ IF MayRestart(w, r)
       THEN Begin(w, r)
       ELSE Exit(w) /\ UNCHANGED <<environment, database>>

----------------------------------------------------------------------------
(* The harvest *)

\* persist_ingestion_progress admits a checkpoint of a running run, inside its
\* window, that does not change the scope of an earlier one or follow its end.
AdmitsCheckpoint(r, prog) ==
    /\ run[r].status = "RUNNING"
    /\ DateOf(run[r].from) <= prog.day
    /\ prog.day <= DateOf(run[r].to)
    /\ progress[r].saved => progress[r].scope = prog.scope /\ ~progress[r].complete

\* Fault: the version last written wins.
NewestIsLastWritten(records) ==
    [p \in Papers |-> IF \E v \in 1 .. MaxVersion : <<p, v>> \in records
                      THEN CHOOSE v \in 1 .. MaxVersion : <<p, v>> \in records
                      ELSE current[p]]

\* Papers keep their greatest version.
Newest(records) ==
    [p \in Papers |-> IF \E v \in 1 .. MaxVersion : <<p, v>> \in records /\ v > current[p]
                      THEN CHOOSE v \in 1 .. MaxVersion :
                              /\ <<p, v>> \in records
                              /\ \A u \in 1 .. MaxVersion : <<p, u>> \in records => u <= v
                      ELSE current[p]]

\* Commits records and checkpoint together; a refusal fails the run.
PersistIngestionProgress(w, prog, records, next, local) ==
    LET r == job[w] IN
    /\ IF AdmitsCheckpoint(r, prog)
       THEN /\ progress' = [progress EXCEPT ![r] = prog]
            /\ items' = [items EXCEPT ![r] = @ \cup records]
            /\ current' = Newest(records)
            /\ pc' = [pc EXCEPT ![w] = next]
       ELSE /\ pc' = [pc EXCEPT ![w] = "failing"]
            /\ UNCHANGED <<progress, items, current>>
    /\ view' = [view EXCEPT ![w] = local]
    /\ UNCHANGED <<run, watermark, holder, job>>

\* The first thing _harvest does: resume the checkpoint, or make the first one.
ReadProgress(w) ==
    LET r     == job[w]
        first == FirstCheckpoint(view[w].scope, DateOf(view[w].from))
    IN  /\ pc[w] = "begun"
        /\ IF ~progress[r].saved
           THEN /\ pc' = [pc EXCEPT ![w] = "seed"]
                /\ view' = [view EXCEPT ![w].prog = first]
           ELSE IF progress[r].scope # view[w].scope
           THEN /\ pc' = [pc EXCEPT ![w] = "failing"]
                /\ UNCHANGED view
           ELSE /\ pc' = [pc EXCEPT ![w] = "harvest"]
                /\ view' = [view EXCEPT ![w].prog = progress[r]]
        /\ UNCHANGED <<environment, database, holder, job>>

\* A reprocess carries the versions already published for its date.
Baseline(r) == IF Mode[r] = "REPROCESS" THEN published[LogicalDate[r]] ELSE {}

SeedProgress(w) ==
    /\ pc[w] = "seed"
    /\ PersistIngestionProgress(w, view[w].prog, Baseline(job[w]), "harvest", view[w])
    /\ UNCHANGED environment

\* The baseline lost a version, or PostgreSQL rejects the checkpoint: the run
\* fails without one.
SeedFails(w) ==
    /\ pc[w] = "seed"
    /\ pc' = [pc EXCEPT ![w] = "failing"]
    /\ UNCHANGED <<environment, database, holder, job, view>>

\* Fault: a reprocess takes whatever version arXiv has now.
AcceptedWithoutCutoff(w, returned) ==
    {<<p, ver[p]>> : p \in returned \cap Matches[view[w].scope]}

\* What the topic accepts of a metadata reply; a reprocess refuses versions
\* newer than its window.
Accepted(w, returned) ==
    {<<p, ver[p]>> : p \in {q \in returned \cap Matches[view[w].scope] :
                              Mode[job[w]] = "REPROCESS" => stamp[q] <= view[w].to}}

\* Fault: an identifier that was asked for counts as done.
StillPendingDropsOmitted(prog, returned) == prog.pending \ FirstOf(BatchSize, prog.pending)

\* The identifiers the reply omits stay pending.
StillPending(prog, returned) == prog.pending \ returned

GetPapersByIds(w, returned) ==
    LET prog  == view[w].prog
        batch == FirstOf(BatchSize, prog.pending)
    IN  /\ pc[w] = "harvest"
        /\ ~prog.complete
        /\ prog.pending # {}
        /\ returned \subseteq batch
        /\ view' = [view EXCEPT ![w].prog.pending = StillPending(prog, returned),
                                ![w].accepted = Accepted(w, returned),
                                ![w].missing = returned # batch]
        /\ pc' = [pc EXCEPT ![w] = "save"]
        /\ UNCHANGED <<environment, database, holder, job>>

SaveBatch(w) ==
    /\ pc[w] = "save"
    /\ PersistIngestionProgress(w, view[w].prog, view[w].accepted,
           IF view[w].missing THEN "failing" ELSE "harvest",
           [view[w] EXCEPT !.accepted = {}, !.missing = FALSE])
    /\ UNCHANGED environment

\* Fault: one category too many.
SuccessorPastLast(prog, to) ==
    IF prog.category <= NumCategories
    THEN [prog EXCEPT !.category = @ + 1, !.exhausted = FALSE]
    ELSE [prog EXCEPT !.complete = TRUE]

\* After the last page of a category: next category, next day, or the end.
Successor(prog, to) ==
    IF prog.category < NumCategories
    THEN [prog EXCEPT !.category = @ + 1, !.exhausted = FALSE]
    ELSE IF prog.day < DateOf(to)
    THEN [prog EXCEPT !.day = @ + 1, !.category = 1, !.exhausted = FALSE]
    ELSE [prog EXCEPT !.complete = TRUE]

NextPosition(w) ==
    LET prog == view[w].prog
        next == Successor(prog, view[w].to)
    IN  /\ pc[w] = "harvest"
        /\ ~prog.complete
        /\ prog.pending = {}
        /\ prog.exhausted
        /\ PersistIngestionProgress(w, next, {}, "harvest", [view[w] EXCEPT !.prog = next])
        /\ UNCHANGED environment

NeedsPage(w) ==
    /\ pc[w] = "harvest"
    /\ ~view[w].prog.complete
    /\ view[w].prog.pending = {}
    /\ ~view[w].prog.exhausted

MayList(w) == NeedsPage(w) /\ view[w].pages < MaxPages

\* The checkpoint after a page of what the token has not served yet.
Listed(prog) ==
    LET left == Listing(prog.day, prog.category) \ prog.token
        page == FirstOf(PageSize, left)
        more == left # page
    IN  [prog EXCEPT !.pending = page,
                     !.token = IF more THEN @ \cup page ELSE {},
                     !.exhausted = ~more]

ListUpdatedIdentifiers(w) ==
    LET next == Listed(view[w].prog) IN
    /\ MayList(w)
    /\ PersistIngestionProgress(w, next, {}, "harvest",
           [view[w] EXCEPT !.prog = next, !.pages = @ + 1])
    /\ UNCHANGED environment

MaxTokenRestarts == 2

\* The service refuses the token: replay the day and category from its start,
\* at most MaxTokenRestarts times in an invocation.
TokenExpired(w) ==
    LET next == [view[w].prog EXCEPT !.token = {}] IN
    /\ MayList(w)
    /\ view[w].prog.token # {}
    /\ rejections < MaxRejections
    /\ rejections' = rejections + 1
    /\ IF view[w].restarts >= MaxTokenRestarts
       THEN /\ pc' = [pc EXCEPT ![w] = "failing"]
            /\ UNCHANGED <<database, holder, job, view>>
       ELSE PersistIngestionProgress(w, next, {}, "harvest",
                [view[w] EXCEPT !.prog = next, !.pages = @ + 1, !.restarts = @ + 1])
    /\ UNCHANGED <<now, stamp, ver, losses, published>>

\* An ArxivPortError ends the harvest.
GiveUp(w) ==
    /\ pc' = [pc EXCEPT ![w] = "failing"]
    /\ UNCHANGED <<environment, database, holder, job, view>>

PageBudgetExhausted(w) == NeedsPage(w) /\ view[w].pages >= MaxPages /\ GiveUp(w)

\* The time budget ends, or a request fails or has an invalid reply.
ArxivFails(w) == pc[w] = "harvest" /\ ~view[w].prog.complete /\ GiveUp(w)

\* Fault: a late failure overwrites whatever state the run is in.
FailIngestionRunAnyway(w) ==
    /\ pc[w] = "failing"
    /\ run' = [run EXCEPT ![job[w]].status = "FAILED"]
    /\ Exit(w)
    /\ UNCHANGED <<environment, progress, items, watermark, current>>

\* Only a running run fails; either way the error propagates.
FailIngestionRun(w) ==
    LET r == job[w] IN
    /\ pc[w] = "failing"
    /\ run' = IF run[r].status = "RUNNING" THEN [run EXCEPT ![r].status = "FAILED"] ELSE run
    /\ Exit(w)
    /\ UNCHANGED <<environment, progress, items, watermark, current>>

\* Fault: the cursor takes the end of whichever window completes last.
AdvancedBackwards(r, to) == IF AdvancesCursor(r) THEN to ELSE watermark

Advanced(r, to) ==
    IF AdvancesCursor(r) /\ to > watermark THEN to ELSE watermark

\* The final transaction: the run completes and the shared cursor advances.
PersistArxivBatchAndComplete(w) ==
    LET r == job[w] IN
    /\ pc[w] = "harvest"
    /\ view[w].prog.complete
    /\ IF run[r].status # "RUNNING"
       THEN Exit(w) /\ UNCHANGED database
       ELSE IF progress[r].saved /\ ~progress[r].complete
       THEN /\ pc' = [pc EXCEPT ![w] = "failing"]
            /\ UNCHANGED <<database, holder, job, view>>
       ELSE /\ run' = [run EXCEPT ![r].status = "COMPLETE"]
            /\ watermark' = Advanced(r, view[w].to)
            /\ Exit(w)
            /\ UNCHANGED <<progress, items, current>>
    /\ UNCHANGED environment

----------------------------------------------------------------------------

Harvest(w) ==
    \/ ReadProgress(w)
    \/ SeedProgress(w)
    \/ SeedFails(w)
    \/ \E returned \in SUBSET view[w].prog.pending : GetPapersByIds(w, returned)
    \/ SaveBatch(w)
    \/ NextPosition(w)
    \/ ListUpdatedIdentifiers(w)
    \/ TokenExpired(w)
    \/ PageBudgetExhausted(w)
    \/ ArxivFails(w)

Execute(w) ==
    \/ \E r \in Runs : OpenRun(w, r)
    \/ StartIngestionRun(w)
    \/ RestartIngestionRun(w)
    \/ Harvest(w)
    \/ FailIngestionRun(w)
    \/ PersistArxivBatchAndComplete(w)

World ==
    \/ Tick
    \/ \E p \in Papers : Revise(p)
    \/ \E r \in Runs : Publish(r)

Next ==
    \/ World
    \/ \E w \in Workers : Execute(w) \/ Crash(w) \/ LoseLock(w)

Spec == Init /\ [][Next]_vars

\* What takes a run further: a checkpoint with its records, or its completion.
Commit(w) ==
    \/ SeedProgress(w)
    \/ ~view[w].missing /\ SaveBatch(w)
    \/ NextPosition(w)
    \/ ListUpdatedIdentifiers(w)
    \/ PersistArxivBatchAndComplete(w)

\* Failed and interrupted runs are retried, and of the attempts that get to open
\* the run, to read its checkpoint, to ask for metadata or to commit, some
\* succeed; the metadata reply is a whole one then.  Nobody stops in between.
Fairness ==
    /\ \A r \in Runs : SF_vars(\E w \in Workers : OpenRun(w, r))
    /\ \A w \in Workers :
          /\ SF_vars(StartIngestionRun(w) \/ RestartIngestionRun(w))
          /\ SF_vars(ReadProgress(w))
          /\ SF_vars(GetPapersByIds(w, FirstOf(BatchSize, view[w].prog.pending)))
          /\ SF_vars(Commit(w))
          /\ WF_vars(SaveBatch(w) \/ PageBudgetExhausted(w) \/ FailIngestionRun(w))

FairSpec == Spec /\ Fairness

----------------------------------------------------------------------------
(* What must hold *)

\* Every variable keeps its type.
TypeOK ==
    /\ now \in Nat /\ now >= StartTime
    /\ stamp \in [Papers -> Nat]
    /\ ver \in [Papers -> 1 .. MaxVersion]
    /\ rejections \in Nat /\ losses \in Nat
    /\ run \in [Runs -> RunRows]
    /\ progress \in [Runs -> Checkpoints]
    /\ items \in [Runs -> SUBSET Items]
    /\ watermark \in Nat \cup {NoWatermark}
    /\ watermark = NoWatermark \/ watermark >= StartTime
    /\ current \in [Papers -> 0 .. MaxVersion]
    /\ published \in [Dates -> SUBSET Items]
    /\ holder \in [Dates -> Workers \cup {Nobody}]
    /\ pc \in [Workers -> Steps]
    /\ job \in [Workers -> Runs]
    /\ view \in [Workers -> Views]

\* A run marked COMPLETE has saved the present version of every matching paper
\* whose last change falls on a day of its window that was over when the window
\* was closed, whatever crashed, expired, was omitted or resumed on the way.
WindowCovered ==
    \A r \in Runs : run[r].status = "COMPLETE" =>
        \A p \in Matches[progress[r].scope] :
            /\ ListedIn[p] # {}
            /\ DateOf(run[r].from) <= DateOf(stamp[p])
            /\ DateOf(stamp[p]) < DateOf(run[r].to)
            => <<p, ver[p]>> \in items[r]

Harvested == {r \in Runs : run[r].status = "COMPLETE" /\ AdvancesCursor(r)}

FromLookback == {r \in Harvested : run[r].from = run[r].to - Lookback - Overlap}

\* The shared cursor leaves no hole: whatever the order in which runs of
\* different dates open, fail and complete, a paper every scope accepts that
\* last changed after the first window opened and on a day before the cursor is
\* saved by a completed run, provided that runs opened before the topic had a
\* cursor are no further apart than the lookback.
NoGap ==
    (\A r, s \in FromLookback : run[s].to <= run[r].to + Lookback) =>
        \A p \in Papers :
            /\ \A s \in Scopes : p \in Matches[s]
            /\ ListedIn[p] # {}
            /\ \E r \in Harvested : DateOf(run[r].from) <= DateOf(stamp[p])
            /\ DateOf(stamp[p]) < DateOf(watermark)
            => \E r \in Harvested : <<p, ver[p]>> \in items[r]

\* The cursor stands exactly at the newest window end among the completed runs
\* that may move it: a late completion of an older window does not move it
\* back, and an incomplete, failed or reprocessing run does not move it at all.
WatermarkIsNewestHarvest ==
    /\ \A r \in Harvested : run[r].to <= watermark
    /\ watermark # NoWatermark => \E r \in Harvested : run[r].to = watermark

\* papers.current_version is the newest version any run has saved, even when a
\* slow process commits an old metadata reply after a newer one was saved.
CurrentVersionIsNewest ==
    \A p \in Papers :
        /\ \A r \in Runs, v \in 1 .. MaxVersion : <<p, v>> \in items[r] => v <= current[p]
        /\ current[p] # 0 => \E r \in Runs : <<p, current[p]>> \in items[r]

\* A reprocess does not relabel a later version as an earlier one: beyond the
\* published baseline of its date it saves nothing newer than its window, at
\* least as long as no lock was lost.
ReprocessStaysInWindow ==
    \A r \in Runs : Mode[r] = "REPROCESS" /\ losses = 0 =>
        \A p \in Papers :
            /\ <<p, ver[p]>> \in items[r]
            /\ <<p, ver[p]>> \notin published[LogicalDate[r]]
            => stamp[p] <= run[r].to

\* From its first checkpoint on a run keeps its window and its scope, and its
\* saved papers only grow.
FixedWindow ==
    [][\A r \in Runs : progress[r].saved =>
          /\ run'[r].from = run[r].from /\ run'[r].to = run[r].to
          /\ progress'[r].saved /\ progress'[r].scope = progress[r].scope
          /\ items[r] \subseteq items'[r]]_vars

\* Nothing changes a completed run, its checkpoint or its items, not even a
\* process that lost its lock and is still working on the run.
CompleteIsFinal ==
    [][\A r \in Runs : run[r].status = "COMPLETE" =>
          run'[r] = run[r] /\ progress'[r] = progress[r] /\ items'[r] = items[r]]_vars

\* A run that was opened is eventually complete, however often its processes
\* crash, meet an omitted identity or run out of pages or of token restarts.
EveryRunCompletes ==
    \A r \in Runs : (run[r].status # "ABSENT") ~> (run[r].status = "COMPLETE")

=============================================================================
