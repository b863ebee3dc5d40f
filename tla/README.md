# Domain-Specific Paper Harness: a verification project in TLA+

The program discovers arXiv papers for a topic, analyses the selected ones with
language models, relates them to earlier work and publishes one report per
topic and logical date.  Its processes are batch jobs, started by a scheduler or
by hand; they crash, run into their deadline, are retried, and work on the same
PostgreSQL rows.  All state that matters is in these rows, and what is hard is
what the processes do to them together.  This directory holds models of the
parts in which such interleavings can go wrong, the TLC runs that check them,
and TLAPS proofs about them.

Paths below are relative to `src/src/paper_harness/`; documents of the
repository are under `src/docs/`.

## 1. Inventory

| Part | State it keeps | Operations | Hard behaviour | What makes it correct |
| --- | --- | --- | --- | --- |
| **Discovery**: `application/ingest_arxiv.py`, discovery part of `adapters/postgres/repository.py`, `adapters/arxiv` | ingestion run and its fixed window, checkpoint, run items, the topic's cursor, `papers.current_version`, advisory lock of (topic, date) | open, start, restart, seed, list a page, look up a batch, next position, fail, complete | crash between two commits, partial replies, refused tokens, page budget, a window read before the run is started, a lost lock | a completed run missed nothing; windows of successive runs leave no hole; completed runs never change |
| **Execution**: `entrypoints/runtime.py`, `application/pipeline_budget.py`, `pipeline_accounting.py` | pipeline execution (status, contract, deadline), the persisted selection, its three child runs | attempt, select, run the stages, complete, replay, fail | lost answers to commits, deployment between attempts, deadlines, an operator and a scheduler at once | a finished execution is replayed, never redone; an unfinished one can be finished |
| **Selection**: `application/daily_selection.py` | none (the decision is stored with the run) | rank and take a prefix | published set read early and used late | no published paper twice, a reprocess keeps its cards |
| **Analysis**: `application/analyze_papers.py`, its part of `repository.py` | analysis run, items with their stages, stored analyses, analysis report | start, restart, reuse, download, parse, analyse, persist, fail an item, finalise, fail the run | item read without lock, a unique constraint shared by dates, a crash between items, a stray worker | items, counts and report agree; finished work is kept |
| **Publication**: `application/publish_product.py`, `report_inputs.py`, `reporting.py`, `domain/knowledge.py`, `adapters/postgres/product_repository.py` | product run, items, entities, mentions and edges of the shared graph, trends, lineages, report | start, restart, advance an item, store a graph, read the corpus, store the aggregates, finalise, discard | rows of the graph shared by dates, reads of a transaction that see different states, cascading deletion, the lost answer of the commit that publishes | one revision per execution, published at once, never changed; a failed one leaves nothing; published graphs stay whole |
| **Periodic reports**: `application/generate_periodic_report.py`, `domain/reports.py` | the report of a week or month | read the daily reports, read trends, plan, persist | a revision published between the reads, two drafts at once | each date counts once, by its served revision |
| **Lineages**: `domain/knowledge.py`, their queries in `product_repository.py` | the stored snapshot | build, store, answer a request with bounds of its own | cycles, ties, bounds that cut the walk, a walk over the result of another | exact distances, truncation that is told |
| **Related work**: `application/related_work.py`, `compare_papers.py`, `scholarly_mapping.py` | search session, actions, candidates, targets, comparisons | search the corpus, plan, call, expand, select, assign, compare, fail | budgets, a crash with a call under way, candidates in memory whose rows are re-keyed meanwhile | budgets hold, finished sessions are closed, decisions survive merges |
| **Historical corpus**: `application/historical_backfill.py`, `historical_ranking.py`, `historical_repository.py`, `domain/historical.py` | external papers with their identifiers, corpus entries with ranks, embeddings, backfill runs | start, store a page, choose representatives, finalise, fail, fetch representatives | one backfill worked on by executions of several dates, papers merged under it | no page skipped, no paper lost, one choice of representatives |
| **Gate and pool**: `adapters/postgres/arxiv_request_gate.py`, `database.py`, `adapters/http_retry.py` | an advisory lock, a time stamp, pooled connections | enter, wait, leave, retry | lock and pool together, deadlines | spaced requests, nobody waits forever |
| **Domain values**: `domain/*.py` | none | validate | boundaries | rules of immutable values |
| **Providers**: `adapters/deepseek`, `semantic_scholar`, `grobid`, `specter2` | none | one remote call | failure, malformed answer | the caller's |
| **Views**: `entrypoints/api.py`, `cli.py`, `daily.py`, `demo.py`, `adapters/postgres/demo_*.py`, the web application | none that they change, except the import of a demo snapshot | read | none of their own | the rows they read |

**How they interact.**  An attempt of an execution calls the use cases one after
the other in one process; they share nothing in memory but the identifiers of
their runs.  Between processes everything goes through rows: the topic cursor
is shared by runs of different dates, `paper_analyses` by runs of different
dates and executions, the published set by all selections, entities, mentions
and edges by all publications of a topic, external papers by every search and
backfill of every topic, and a backfill by the executions of its week.  Three
advisory locks keep processes apart: one for the execution, one for (topic,
date) taken inside discovery, analysis and publication, and one for arXiv
requests.  They belong to database sessions, so a process whose connection drops
works on without its lock; and what is shared by several dates has no lock but
those of the rows.

## 2. Modules and the code

Every module keeps all control (guards, early returns, error paths and their
order) and abstracts data: a paper is a number, a topic configuration or a
deployed contract an index, an XML page a set of identifiers.  Operators whose
comment begins with *Fault* or *Mutant* are wrong variants that no specification
uses; they show that the properties can fail.

`DailyPipeline` composes the stages; `Ingestion`, `AnalysisRun` and
`Publication` are the insides of three of them, `HistoricalCorpus` and
`RelatedWork` of the two that relate papers, `Lineage` of a computation inside
`Publication`.  `ExternalPapers` has the operators on paper identity that
`HistoricalCorpus` and `RelatedWork` both use, and `DailyPublication` is the
abstract specification that both `DailyPipeline` and `Publication` implement.

### `Ingestion` (with `MCIngestion`, `IngestionProofs`)

A worker is a process in `IngestArxiv.execute`; `pc` says where it is, `job`
which run it works on, `view` holds its local variables.  `run`, `progress`,
`items`, `watermark` and `current` are the tables, `holder` the advisory locks
of the dates, `stamp` and `ver` what arXiv has.

| Action | Code |
| --- | --- |
| `OpenRun` | lock, read of run and checkpoint, the window from the cursor or the row |
| `StartIngestionRun`, `RestartIngestionRun` | the transactions of these names |
| `ReadProgress`, `SeedProgress`, `SeedFails` | the beginning of `_harvest`, with the baseline of a reprocess |
| `GetPapersByIds`, `SaveBatch` | metadata reply; the commit of its papers with the checkpoint |
| `ListUpdatedIdentifiers`, `TokenExpired`, `NextPosition`, `PageBudgetExhausted`, `ArxivFails` | one turn of the listing loop |
| `FailIngestionRun`, `PersistArxivBatchAndComplete` | the two ends of a run |
| `Crash`, `LoseLock`, `Tick`, `Revise`, `Publish` | what happens to the process and around it |

Abstractions: a transaction is one step, `restart_ingestion_run` too, whose reads
take no lock (the difference shows only after a lost lock); run counts are left
out; a token is the set of identifiers already served, so a paper revised during
a walk may leave the listing of its day; the clock moves in ticks, `TicksPerDay`
to a day; `SeedFails` may happen at any seed.

### `AnalysisRun` (with `MCAnalysisRun`, `AnalysisRunProofs`)

A worker is a process in `AnalyzePapers.execute`, for structured or historical
analysis.  Tables are `run`, `item`, `report` and `analyses`, the last with
contract and revision (`Canonical`, or the execution of a reprocess).  Persisting
an analysis reads the item without a lock and writes it statements later: these
are two actions (`Analyze` and `Save`), and the unique constraint on
`analyses` decides between two workers.  `FailRow` is the second half of a
failure whose first statement found no item to lock.  `WriteFails` fails any
write before its commit, `FinalizeAnswerLost` after it.  What the model writes,
its grounding and its usage are data; a PDF or a model answer either is usable
or fails its item (`PaperFails`) or the run (`ConfigurationFails`).

### `DailyPipeline` (with `MCDailyPipeline`, `DailyPipelineProofs`) and `DailyPublication`

`DailyPipeline` is `execute_daily_pipeline` and the transactions of
product runs: several workers attempt NORMAL and REPROCESS executions under the
contract now deployed.  `DailyPublication` is what readers may rely on: an
execution publishes at most one revision and never changes it, the served
revision of a date moves only to the one just published, and an execution
reports success only for its own revision.  `KeepsItsPromise` is the refinement,
with `revision`, `served` and `outcome` computed from the rows.

| Action | Code |
| --- | --- |
| `Attempt`, `TooLate`, `Late` | start or restart of the execution row, its deadline |
| `Ingest`, `Select`, `Decide`, `Analyze`, `Backfill`, `Relate` | the stages, each one step; `AnalyzeInterrupted` leaves an unfinished one |
| `BackfillRefused` | a backfill that ends with an error the pipeline does not go on after (`runtime.py:637`) |
| `Stage`, `AlreadyPublished`, `StageRefused` | start, restart, replay or refusal of the product run |
| `Finish`, `FinishAnswerLost`, `PublicationFails`, `PublicationAbandoned` | its end: published, published with the answer lost, failed, left RUNNING |
| `Complete`, `CompleteAnswerLost`, `Fail` | the end of the execution |
| `Contended`, `StepFails`, `Crash`, `DeadlinePasses`, `Deploy` | what goes wrong around it |

Abstractions: locks are not lost here (they are in the modules of the stages);
SMOKE executions, standalone publication and the narrative mode are left out;
start and restart of a failed execution are one step; relevance is fixed and
versions belong to distinct papers; there is one backfill per date (in the code
per week); of the clock readings that order revisions only the order is kept
(`starts`, a set of pairs of runs); waiting for the lock of a date may be refused more often than in the
code (`Contended`); an analysis run left RUNNING and one marked FAILED are not
told apart here.

### `Publication` (with `MCPublication`, `PublicationProofs`)

The inside of `Stage` .. `Finish`: `PublishProduct.execute` and the transactions
of `product_repository.py`, for standalone commands and for executions.  `status`
holds the product runs and `order` the pairs of them that started one before the
other, `item` their
items, `entities` and `occurrences` the shared graph (an occurrence is a mention
of one entity or an edge of two, with the run that owns it), `trends`, `lineages`
and `report` what a run publishes, `periodic` the report of a period; `cascaded`
is history, the occurrences that a cascade deleted.

| Action | Code |
| --- | --- |
| `Open`, `Start`, `Restart`, `BeginRefused` | the lookup under the lock; the run and its planned items |
| `Compare`, `PersistGraph`, `GraphRefused`, `GraphFails` | one paper: its comparisons, then its graph with reuse of occurrences |
| `ReadRuns`, `ReadGraphs`, `Abandon` | the corpus, read by two statements; trends and lineages are computed from it |
| `Aggregate`, `AggregateRefused` | storing trends and lineages, which must refer to rows that exist |
| `Publish`, `PublishAnswerLost`, `PublishRefused`, `NarrativeFails` | the report and the end of the run |
| `PickDoomed`, `Discard`, `DiscardFails` | discarding a failed run: the entities nobody else uses, then their deletion with `ON DELETE CASCADE` |
| `ReadReports`, `ReadTrends`, `TrendsUnread`, `PersistPeriodic`, `PeriodicRefused` | a weekly or monthly report, or why it is given up |
| `StatementFails`, `Crash`, `LoseLock` | what goes wrong around it |

A transaction is one step unless another can come between two of its statements
and matter.  The graph of a paper is reduced to its entities and who shares them; a
trend, which in the code counts mentions and relations apart (`knowledge.py:1976`),
counts here the edges that join papers with concepts, one for each mention (no property
depends on the difference, which only a cascade makes);
windows of 7, 30 and 90 days become `Windows`; runs are ordered as they were
started, while the clock read just before the lock is taken is modelled in
`DailyPipeline`; the related terms of a trend are a least closed set; the
analysis run a publication
reads is final (which `AnalysisRun` checks), so it is constant.

### `Lineage` (with `MCLineage`, `GateAndLineageProofs`)

`build_lineage_snapshot` and `_bounded_lineage`, walks of the same form over
different edges: `Build`, `Expand` (one paper from the queue), `Stop` (one at the
depth bound), `Store`, and `Request`, `Expand`, `Answer` for a request with bounds
of its own over the stored snapshot.  The order in which ties are broken is the
code's.  `Within` is the reference definition of distance.
`LineageInit`, `LineageNext` and `LineageSpec` bear the name of the module because
one module holds the proofs about it and about the request gate.

### `ExternalPapers` (with `ExternalPapersProofs`), `HistoricalCorpus` (with `MCHistoricalCorpus`, `HistoricalCorpusProofs`)

`ExternalPapers` defines what an upsert of a Semantic Scholar record does to the
stored papers: which rows it matches, whether they contradict each other, which
row survives, its new key, and how that which depends on the rows follows.
Rows carry, as history, the records written into them (`of`).

`HistoricalCorpus` is `HistoricalBackfill.execute` with its part of
`historical_repository.py`.  Workers of several dates work on the backfill of a
week.  The papers of a page are stored one after the other (`StoredBy`, a
recursive function over the page in the provider's order); which of them have a
local version is left open whenever a page is stored (`Resolutions`); a
finalisation looks again whether each representative is in the corpus and has
full text (`Present`).

| Action | Code |
| --- | --- |
| `Begin`, `Start` | the row read outside any lock, created, reopened or returned |
| `StorePage`, `RepeatPage`, `LosePage`, `RefusePage`, `AmbiguousPage` | one page with its papers, entries, embeddings and the cursor, or why it is refused |
| `Choose`, `Finalize`, `LoseFinalization`, `RefuseFinalization` | ranking the corpus, and storing the ranks with the end of the backfill |
| `ReadIdentities`, `ReadVersions` | the representatives' arXiv ids and their local versions, read one after the other and compared by their number |
| `Materialize`, `LoseRepresentatives`, `RefuseMetadata` | what arXiv answers is stored, or refused because others are representatives now or because it is older than a local version |
| `Fault`, `Fail`, `Crash`, `SearchStores` | failures, and the searches that store papers meanwhile |

### `RelatedWork` (with `MCRelatedWork`, `RelatedWorkProofs`)

The search for one source paper and the comparison that follows.  `proc` is the
process with its loop (plan, queue, candidates in memory), `session`, `actions`,
`candidates`, `papers` and `comparisons` are rows.

| Action | Code |
| --- | --- |
| `Open`, `SearchCorpus`, `StoreLocal` | the session begins (a COMPLETE one is reused, any other emptied); candidates from the corpus |
| `AskSource`, `Plan`, `Query`, `Recommend`, `Enqueue`, `Pop`, `Expand`, `Deadline` | the loop; each call is stored as RUNNING first |
| `Answered`, `CallFails` | a call's answer stored with the papers it found, or its failure; a look-up of the source must answer with it alone (`Resolved`) |
| `Select`, `Complete`, `Fail`, `ModelFails` | decisions on candidates, the end of the session |
| `Read`, `Assign`, `ReadTargets`, `Materialize` | the papers to compare with, and their local versions |
| `Draft`, `Compare`, `Leave` | a comparison, drafted outside and stored inside a transaction |
| `Crash`, `StoreElsewhere` | a crash; another process re-keys or merges papers |

A refusal of the repository that no handler on the way catches ends the process
in a place of its own (`Refusals`): a page may be `overrun` (steps, queries or depth),
`crowded` (candidates), `aliased` or `outside`, and the targets may be `overtargeted`.
`Assign` compares the candidates it was decided on with the stored ones by key,
identifier, depth and decision; the code compares all fields, but the others change
only in a merge, which takes a candidate away and is refused for that.  Papers of the provider are queued in the order
of their identifiers (`Sorted`).  `SourceRecords` are the provider's records of the
source, stored or not: asking for the references of any of them is asking the source.

### `RequestGate` (with `MCRequestGate`, `GateAndLineageProofs`)

The retry loops of `http_retry.py` and of the arXiv session, and
`PostgresArxivRequestGate`.  `at` is where each process is, `left` the time to its
deadline, `nap` a sleep, `session` and `holder` the database session and the
advisory lock, `since` the time since the last request made under the lock.

| Action | Code |
| --- | --- |
| `Begin`, `DoNotAttempt`, `SendUngated`, `Answered`, `Retry` | the loop of attempts with backoff or the wait that the service asks for |
| `Enter`, `Grant`, `Locked`, `GiveUpLock` | a connection, the wait for the lock with the remaining time as timeout, and an acquisition that is cancelled |
| `Pace`, `Send`, `Release` | the gap before a request, the request, the release on every way out |
| `LoseSession`, `Crash`, `Tick` | a broken connection that nobody notices, a crash, time |

Time is counted in ticks and passes between any two steps.  The connection pool
is not modelled beyond this: a process has one thread and needs its third
connection only here.

## 3. Runs

| Run | Checks | Instance | Shows |
| --- | --- | --- | --- |
| `ingestion_harvest` | `TypeOK`, `WindowCovered`, `EveryRunCompletes` | 1 run, 2 papers (one cross-listed), 2 categories, pages and batches of 1, 1 revision each, 3 refused tokens, unlimited crashes | a completed run missed no paper of the closed days of its window, and each opened run completes |
| `ingestion_dates` | `NoGap`, `WatermarkIsNewestHarvest`, `CurrentVersionIsNewest`, `ReprocessStaysInWindow`, `FixedWindow`, `CompleteIsFinal` | a scheduled run, then either the run of the next date, on 5 days of one tick, or the reprocess of its own with 2 workers, 1 lost lock, 2 topic configurations; 1.9 million states | the shared cursor leaves no hole and never goes back; a stray process corrupts neither run, checkpoint nor current version, and with the lock a reprocess adds no version later than its window to the published ones |
| `analysis_revisions` | `TypeOK`, `FinishedRunsAgree`, `CompletedItemsAreBacked`, `FinishedWorkIsKept` | a scheduled run and a reprocess of a date, 1 version, 2 workers, 1 lost lock, 1 failed write, 2 contracts, full text | runs, items and reports agree; finished work is kept; publication finds what was completed |
| `analysis_retry` | `RunsFinish` | a standalone structured and a historical analysis of 2 dates, 2 versions, 2 workers, 2 failed writes | runs that race for the same analyses finish |
| `pipeline_revisions` | `TypeOK`, `TerminalExecutionsReplay`, `RevisionsPublishTheirOwnAnalyses`, `KeepsItsPromise` | a scheduled execution and a reprocess of its date, 2 workers, 2 contracts, 1 failed write | terminal executions replay; no revision mixes analyses; the pipeline implements `DailyPublication` |
| `pipeline_liveness` | `ExecutionsFinish` | executions of 2 dates, 1 worker, 2 contracts, 1 failed write, 1 missed deadline | executed again, an execution is finished, unless it is `Stuck` |
| `publication_revisions` | `TypeOK`, `OneAttemptPerRun`, `OnlyCascadesLoseGraphs`, `FailedRunsLeaveNothing`, `TrendsCountPublishedWork`, `SharedGraphsArePublished`, `PeriodCountsDatesOnce`, `KeepsItsPromise` | 2 standalone runs of 2 dates and a revision of the first, 2 versions of which one was compared with the other, 1 concept, 2 workers, 1 fault, 1 lost lock, 2 drafts; 179,000 states | what publications share and discard stays sound but for cascades; the publication implements `DailyPublication` |
| `lineage_projections` | `SnapshotsAreValid`, `TruncationIsTold`, `AnswersAreBeginnings` | 5 papers, every subset of 10 relations besides 2 that never count, 4 calendars, 3 bounds when built and 3 when requested | lineages and answers have exact distances and say when they are cut |
| `historical_weeks` | `TypeOK`, `CursorCoversPages`, `NothingIsLost`, `RepresentativesAreOneChoice` | backfills of 2 weeks, 2 workers, 1 query with 4 possible answers, 5 records of which several name one paper, 1 fault, a paper stored before by a search of another topic, 1 paper stored by a search; 407,000 states | no page skipped, no paper lost to a merge, one choice of representatives |
| `related_search` | `TypeOK`, `TerminalSessionsAreClosed`, `CitationsAreTheSources`, `FinishedSessionsKeepTheirWork` | 1 source, 10 records of 9 papers of the provider, 3 plans, 4 steps, 4 candidates, a queue of 4, depth 1, 1 to select and 2 to compare, 1 fault, 1 record stored elsewhere; 2.0 million states | budgets, closed sessions, citations of the source only, selections that survive merges |
| `related_aliases` | `CitesIsADirectReference`, *violated* | the same, nothing stored elsewhere | a search cut short by its deadline after a record re-keyed a candidate of its own leads to a false citation (section 5) |
| `request_gate` | `RequestsAreSpaced`, `OperationsEnd` | 2 processes, a gap of 2 ticks, deadlines of 2 and 6, 1 retry, 1 lost session; 74,000 states | spaced requests, no leaked lock, operations that end |

All runs pass but `related_aliases`, which expects its violation.

**Bounds.**  Two papers of which one is in both categories give every case of a
page (empty, partial, last), of a batch (whole, partial, empty) and of a
category end; more of them repeat these.  Three refused tokens pass the limit of
two restarts in an invocation, and `MaxPages` in `ingestion_harvest` is one more
than the five pages of a walk in which nothing is refused or revised, so that
replays use up the page budget.  Two dates and two runs are the least that share
a cursor; the five days of `ingestion_dates` let both runs open before either
completes, with a revision between them.  There the constraint `OneAfterTheOther`
lets either the second date or the reprocess begin, one process at a time and with
its lock for the former, and the reprocess only after its date is published; the
theorems of section 4 cover what it leaves out.  In `AnalysisRun`, `DailyPipeline` and `Publication` two
workers and one fault reach each error path next to a second process; a second
contract is the only difference a deployment can make.  In `publication_revisions`
the third run is what a second revision of a date and a third owner of a shared
occurrence need.  The records of `historical_weeks` and `related_search` are
chosen so that one record names two stored papers and another contradicts one; in
`related_search` one of them comes back without its arXiv id, the source has a second
record, published too late to be stored, and the look-up of the source may answer
with another paper;
one search, or one record stored elsewhere, is enough to re-key a paper between
any two steps.  `related_search` has room for fewer candidates than the provider
returns, and its deadline may pass anywhere.  In `request_gate` the shorter deadline
cannot hold the gap and the longer one can hold it once, with a retry.
`MaxFaults`, `MaxLockLosses`, `MaxLosses`, `MaxRejections`, `MaxExpiries`,
`MaxSearches` and `MaxStores` bound how often something goes wrong.  Crashes are
unbounded in `Ingestion` and `RequestGate`; in `AnalysisRun`, `DailyPipeline`,
`HistoricalCorpus` and `RelatedWork` a crash counts as one of `MaxFaults`, in
`Publication` as one of `MaxLosses`.

**Deadlock** is checked for `AnalysisRun`, where a worker can always read a
finished run again.  The other modules stop when everything is terminal or a
bound on time or faults is used up, hence `CHECK_DEADLOCK FALSE` there.

**Symmetry** is used for the workers of `ingestion_dates`, `pipeline_revisions`,
`publication_revisions` and `historical_weeks`, which have no liveness property.

**Preconditions.**  `WindowCovered` speaks of days that were over when the
window was closed: what is listed for the current day may still change.
`NoGap` asks that runs opened before the topic had any cursor are no further
apart than the lookback, since such runs start from the clock.
`ReprocessStaysInWindow` and the part of `FinishedRunsAgree` about failed runs are
stated for states in which no lock was lost; without it a stray process can
restart a run in another window or fail a run that has gone on.  `WindowCovered`,
too, needs the lock (see the hazards in `PROJECT.json`).  `CitationsAreTheSources`
is stated for sessions that no deadline ended and for states in which nothing was
stored elsewhere: a selection refuses to go on when a paper that was asked for is
no candidate under its identifier, and without one, or when the identifier changes
after it, a paper may be taken for the source (section 5, item 8).
`LoopStaysInLimits` (in `TypeOK`) bounds what is stored whatever happens, and says
when the repository may refuse what the loop sends: never for steps, queries and
depth; for candidates only if not `OneIdentity`, and for targets only if not
`LimitsAgree`, neither of which the code enforces (section 4).  The instance of
`related_search` has limits that disagree, so that the refusal of targets occurs.
`OnlyCascadesLoseGraphs`
and `SharedGraphsArePublished` except what a cascade has deleted (see section 5).

**Fairness.**  The code has no loop of its own that retries an execution: the
scheduler, the retries of the job and the runbook's instruction to execute the
job again do.  Hence strong fairness of opening an unfinished run
(`OpenRun`, `Begin`, `Attempt`): an attempt made again and again is at some time
not kept out by the lock.  Steps of a worker are weakly fair, for every call has
a timeout.  In `Ingestion` a worker may crash or be failed at every point of
its walk, so that no invocation need get far; there strong fairness asks that of
the invocations which reach a point again and again some get past it, and that
a whole metadata reply is answered at some time.  An identity omitted
forever blocks its run, by design.  `ExecutionsFinish` excepts executions that are
`Stuck`: their publication was left RUNNING or has failed under another contract
(section 5).  A backfill that is refused counts as one of `MaxFaults`: the property
says nothing of an execution whose backfill is refused at every attempt (section 5,
item 6).  It is checked for executions of different dates and one worker,
because two workers that contend for one date can turn each other away forever.
`RequestGate` asks only that time passes and that a process goes on once it can;
nothing is asked of the order in which PostgreSQL grants the lock.
`Publication`, `HistoricalCorpus` and `RelatedWork` have no liveness property: what
takes up their runs again is the execution, whose liveness is checked in
`DailyPipeline`.

## 4. Proofs

The theorems hold for every number of papers, dates, runs, workers and records,
every topic and every bound, under the assumptions named in the modules.  They
cover every invariant and every action property that a passing run checks, and both
refinements; what is left to TLC alone is liveness.

| Module | Theorem | States |
| --- | --- | --- |
| `IngestionProofs` | `TypeCorrect` | `Spec => []TypeOK` |
| | `CompletedRunsAreFinal`, `WindowsAreFixed` | `Spec => CompleteIsFinal`, `Spec => FixedWindow` |
| | `CurrentVersionCorrect` | `Spec => []CurrentVersionIsNewest` |
| | `WatermarkCorrect` | `Spec => [](losses = 0 => WatermarkIsNewestHarvest)` |
| | `WindowsAreCovered` | `Spec => [](losses = 0 => WindowCovered)` |
| | `WindowsLeaveNoGap` | `Spec => [](losses = 0 => NoGap)` |
| | `ReprocessesStayInWindow` | `Spec => []ReprocessStaysInWindow` |
| `AnalysisRunProofs` | `TypeCorrect`, `FinishedRunsCorrect`, `CompletedItemsBacked` | `Spec => []` of `TypeOK`, `FinishedRunsAgree`, `CompletedItemsAreBacked` |
| | `FinishedWorkKept` | `Spec => FinishedWorkIsKept` |
| `DailyPipelineProofs` | `TypeCorrect`, `TerminalExecutionsReplayable`, `RevisionsPublishOwn` | `Spec => []` of `TypeOK`, `TerminalExecutionsReplay`, `RevisionsPublishTheirOwnAnalyses` |
| | `PipelineKeepsItsPromise` | `Spec => KeepsItsPromise`: the pipeline implements `DailyPublication` |
| `PublicationProofs` | `TypeCorrect`, `OneAttempt`, `FailedRunsClean`, `TrendsAreFinal`, `GraphsAreWhole`, `SharedGraphsAreFinal`, `PeriodsCountDatesOnce` | `Spec => []` of `TypeOK`, `OneAttemptPerRun`, `FailedRunsLeaveNothing`, `TrendsCountPublishedWork`, `OnlyCascadesLoseGraphs`, `SharedGraphsArePublished`, `PeriodCountsDatesOnce` |
| | `PublicationKeepsItsPromise` | `Spec => KeepsItsPromise`: the publication implements `DailyPublication` |
| `GateAndLineageProofs` | `RequestsSpaced` | `Spec => []RequestsAreSpaced` |
| | `SnapshotsValid`, `TruncationTold`, `AnswersBegin` | `LineageSpec => []` of `SnapshotsAreValid`, `TruncationIsTold`, `AnswersAreBeginnings` |
| `ExternalPapersProofs` | `UpsertKeepsIndexes`, `RowsGoOn`, `DependentsFollow`, `PreprintsStayApart`, `RanksFollow`, `EachIsStored` | what an upsert does to any rows, and what depends on them |
| `HistoricalCorpusProofs` | `TypeCorrect`, `CursorCovers`, `NothingLost`, `OneChoice` | `Spec => []` of `TypeOK`, `CursorCoversPages`, `NothingIsLost`, `RepresentativesAreOneChoice` |
| `RelatedWorkProofs` | `SearchIsSound`, `LimitsAreKept` | `Spec => []SearchInv`, `Spec => [](SearchInv /\ LimitsInv)`, the invariants behind the others |
| | `TypeCorrect`, `OnlySourcesCite` | `Spec => []TypeOK` with the budgets, `Spec => []CitationsAreTheSources` |
| | `SessionsAreClosed`, `FinishedWorkIsKept` | `Spec => []TerminalSessionsAreClosed`, `Spec => FinishedSessionsKeepTheirWork` |

**Discovery.**  `TypeOK` is not inductive: the next window begins `Overlap` before
the cursor, and only because windows that move the cursor end after the model
starts is that a natural number (`EndsAfterStart` in `TypeInv`).  The action
properties need `CheckpointInv`: a saved checkpoint belongs to a run that
exists, and a harvesting worker has a saved one in hand, so that nothing inserts
a run over a checkpoint and nothing unsaves one.  `HarvestFrame` sums up the walk:
it leaves rows, cursor and locks alone and writes at most a checkpoint that
`AdmitsCheckpoint` lets pass.  The cursor needs `LockInv` (while no lock was
lost a worker holds the lock of its run) and `WindowInv` (then both ends of its
local window are those of the row), for the end of the window is written from the
process's memory.

`WindowsAreCovered` relates a checkpoint to what was harvested before it.
`Passed` are the days and categories before its position, `Covers` says that each
paper due there is stored, accepted or still pending; `CoverInv` states it of the
saved checkpoint with the run's items and of the local one with the batch in hand.
A revision cannot break it: windows close at a time that has come (`ClockInv`), so
the revised paper leaves the closed days.  `SavedInv` says who has a checkpoint
and that only a finished one completes a run.  `WindowsLeaveNoGap` adds that each
window is `Chained`: it starts from the clock, or touches one already harvested,
so that completing it leaves `NoHole`.  `ReprocessesStayInWindow` follows from
`CutoffInv` with `VersionsInv` (nothing is saved before it appeared).

**Analysis.**  `RowsInv` ties items to the targets of their run, a worker's target
to its run, and reports to items.  `LockInv` says that with no lock lost a worker
holds the lock of its run, that a failing one finds nothing to fail twice, and that
failed runs are settled.  Lemmas say once what each group of actions may do to runs,
items and analyses; the four theorems read their facts off these effects.

**Pipeline.**  `PipelineInv` has, besides the types, mutual exclusion (`Exclusive`,
by the lock of a date), what a worker at each place knows of its own rows (`Own`),
what the rows of an execution know of each other (`RowsAgree`), and that runs are
ordered by their start with a newest one per date.  `LocalStep` shows once that a
step which writes the rows of one execution leaves the facts about the others.
For the refinement every action is mapped to `Publish`, `Acknowledge` or a stutter.

**Publication.**  The proof is in layers.  `AttemptInv` shows that the status of a
run is a second lock: it becomes RUNNING in the step in which a worker enters, so
even after lost locks one worker is inside a run.  `TypeInv` adds the types, and
that a failed run owns nothing.  `TrendInv` bounds what is counted to published
runs and the run itself (`Visible`), at every stage between the read and the
report.  `GraphInv` says that what a paper of a run needs is there, unless a
cascade took it (`Has`), and belongs to the run itself or a published one
(`Safe`): discarding a run removes its own rows only.  `OrderInv` says that drafts
take one report per date, by the order of the runs.

**Request gate.**  `GateInv`: sessions belong to processes inside the gate, an open
session at a place under the lock holds the lock, and a process that paces has at
least as long to sleep as is missing from the gap (`PausesCoverGap`), so that it
sends after the gap (`SentAfterGap`).

**Lineages.**  `WalkInv` says what holds between two iterations of the loop, over
whichever edges it walks.  Places are the first numbers, each once (`Numbered`);
the queue spans two layers at most, and what has left it stands before it
(`Queued`); each paper but the root has one edge of the tree, from an expanded paper
of the layer before (`Spanned`); a paper is cut off only when there is no room or at
the bound of the depth, which all that wait have reached by then, so that nothing
is found afterwards (`Accounted`); and papers stand in the order of their first
predecessors (`Ordered`).  Breadth first follows: papers are found at their distance
(`DepthIsLayer`, `CloserIsFound`), from which come `Valid`, the marks of
truncation (`BuiltIsTold`), and what a stored snapshot is to a later request
(`BuiltIsSound`).  A request walks the stored edges with smaller bounds, and
`Follows` says that it finds the papers in the stored order and at the stored
depths until it runs out of room, which is `AnswerIsBeginning`.  `Within` is a
recursive function; that it satisfies its equation, and what it contains, is shown
with `SetInduction` (below).

**External papers and corpus.**  `Table` says that rows share no key or identifier.
An upsert keeps it, since what it merges is all that shares something with the
record.  Each row goes on under its new key, and ranks, which only papers with
arXiv ids have, never meet in a merge, for such a merge is ambiguous
(`PreprintsStayApart`).  `Sound` puts papers and their dependents together, and
`Carries` says that from one state of a transaction to a later one ranks stay and
every row goes on; a page is an induction over its records.  The library's induction
theorems take an operator, which the installed provers cannot instantiate;
`SetInduction`, which takes the set of the numbers a statement holds for, is proved
from the well-foundedness of `<` instead.  `CorpusInv` adds that a complete backfill
chose at least as many papers as are ranked, that a process's reading of the row
covers pages that were stored (a FAILED row may be overwritten with an old reading),
and that a process about to finalise has chosen distinct papers.

**Related work.**  `SoundCandidates` says that candidates are stored papers, found
by the corpus and by completed calls only, and that no more are selected than a
session may select.  An upsert keeps it (`UpsertIsSound`): a selected candidate's
records go on in a selected one (`SelectedGoOn`), since the stronger decision stands,
and no merge makes two selected candidates of one, since each key comes from
some key before.  `PageIsSound` is the induction over the records of a transaction,
and a page that is not refused adds only candidates that are papers
(`OutcomeIsSound`).  `SearchInv` adds that a process that searches has a RUNNING
session, and that the last action is under way exactly while its call is; so a
COMPLETE session is touched only by the choice of targets, which keeps decisions,
and by records stored elsewhere.

The budgets relate two counts that are kept apart: the process bounds what it has in
memory, by the provider's identifiers, and the repository refuses rows.  `LimitsInv`
connects them.  Each candidate stands for a paper that is in memory (`Covered`), also
after a merge.  If `OneIdentity` holds, each row moreover has the identifiers of every
record it stands for and stands for no record of another row (`Identified` in `Traced`),
so that two records of one paper always end up in one row; then candidates are
no more than what is in memory (`CoverCounts`, which builds an injection), and no page
is refused for their number.  Calls and
queries counted in memory are those stored (`CallsInv`), and what waits in a queue is
within the depth (`Loop`).

`CitedInv` says why a citation is true.  Until the selection, whatever is queued, to be
expanded or already asked for references is a record of the source or in memory
(`AskedInv`).  A selection finds everything in memory among the candidates or is
refused; so afterwards references were asked of the source or of a present candidate
(`CitesInv`), and while nothing is stored elsewhere no step changes that.  A comparison
that leaves out what was asked of a candidate is left with the source.

**Assumptions** a proof needs and the code justifies: there is at least one
execution (`DailyPipeline`); versions and records are finite sets; `None` is no
value, report, session or backfill; a page has one record per provider identifier, arXiv
identifiers differ from the provider's, and the rows stored before keep the unique
indexes (`HistoricalCorpus`, `RelatedWork`).

**Exceptions in place of assumptions.**  Two things keep the search for related work
from being refused, and the code enforces neither.  They are therefore no assumptions
of the theorems: `TypeOK` of `RelatedWork` says that without them, and only without
them, the refusal may happen, and `TypeCorrect` proves it for all records, answers and
options.

* `OneIdentity`: the records in which the provider returns one paper have an
  arXiv id or a DOI in common, unless none of them has either.  TLC found what happens
  otherwise: a provider answers with
  paper 2 under arXiv id 200, merges it with paper 8 by that id, and later returns
  paper 2 without any id.  It is then a row of its own again, one paper in memory
  stands for two candidates, and the repository refuses the answer (`crowded`).
* `LimitsAgree`: no more papers are compared than are selected.  By default they are 3
  and 5 (`cli.py:302`, `cli.py:290`); the command accepts other values, and with more
  to compare the repository refuses the targets (`historical_repository.py:848`,
  `overtargeted`).

**Only model-checked**: the liveness properties `EveryRunCompletes`,
`ExecutionsFinish`, `RunsFinish` and `OperationsEnd`, which rest on fairness and so on
`ENABLED`, beyond the prover.  `CitesIsADirectReference` is violated.

## 5. Known divergences

The models behave as the code does, and so the following, found while modelling,
are behaviours of the models.  Properties are stated so that they hold beside
them.

1. A paper revised while its run is harvested leaves two versions of itself in
   the completed run; `select_daily_papers` asserts that this cannot be
   (`application/daily_selection.py:79`), and every retry fails in the same way.
2. The comparison step of a reprocess looks for analyses without revision
   (`historical_repository.py:1138`), and its own historical analysis has stored
   them with one (`entrypoints/runtime.py:900`).
3. A product run left RUNNING by a dead process is never taken up or ended
   (`publish_product.py:149`), where `src/docs/ARCHITECTURE.md:93` says an
   interrupted unpublished pipeline may be re-evaluated.  One way to get there
   without a crash: `get_graph_corpus` looks the owner of a mention up among the
   runs an earlier statement read, and a publication of another date in between
   makes this a `KeyError` (`product_repository.py:2052`, the action `Abandon`).
4. After a deployment with another contract a failed publication is refused
   (`product_repository.py:1585`), where `src/docs/RUNBOOK.md:403` and
   `FAILURE_POLICY.md:169` say it restarts.
5. Discarding a failed run deletes the entities nobody used when the last
   statement chose them; a run of another date that stored an occurrence of such
   an entity meanwhile loses it, with trend metrics and highlights of its report,
   by `ON DELETE CASCADE` (`product_repository.py:4859`, `models.py:2433`), also
   when it is published.  `FAILURE_POLICY.md:165` says a failure removes staging rows
   and leaves prior canonical data unchanged.  `cascaded` remembers these rows.
6. A page of the backfill that names one paper twice is refused, and its backfill
   stays RUNNING with the same page next (`historical_repository.py:188`), where
   `FAILURE_POLICY.md:118` has duplicates merged.  The error is none of those after
   which the pipeline goes on (`runtime.py:637`), so the attempt fails too
   (`BackfillRefused`), and so do the next ones while the provider answers alike.
7. An answer with conflicting identifiers leaves its action RUNNING, so that the
   session cannot be failed either, and the pipeline ends
   (`historical_repository.py:932`, `runtime.py:1551`), where
   `FAILURE_POLICY.md:126` says the search fails and the paper is published.
8. A relation CITES may be false.  It is stored when the target was found among
   the references of a paper that is no candidate, which is taken for the source
   (`compare_papers.py:201`).  When a later answer of the search names a candidate
   by another identifier of the provider, its row takes that identifier, and the
   references asked for under the old one count as the source's.  A selection would
   notice; a session that its deadline ends before is COMPLETE without one, and
   its candidates are compared.  The stored justification (`compare_papers.py:231`)
   says that the metadata lists the target "as a direct reference of the source
   paper".  `related_aliases` shows it.  A record stored by another transaction
   after the selection has the same effect.

Behaviours that no document rules out: a scheduled run that completes after a
reprocess of its date hides the cards of the reprocess; two dates that decide
before either publishes present the same version; a periodic report drafted from
a revision with trends or lineages that is superseded before it is stored is
refused (`product_repository.py:4961`), and a draft may combine reports of one
read with trends of a later one, or be given up with a `KeyError` when the entity of
a superseded revision has no published mention left (`product_repository.py:2499`, the
action `TrendsUnread`); a merge of two candidates may lose that one of
them is a comparison target (`historical_repository.py:2227`); more
representatives than the backfill itself stored leave it RUNNING
(`models.py:1283`); representatives and their local versions are read one after the
other and compared by their number only, so versions of others may be taken for
theirs (`runtime.py:670`, the action `ReadVersions`); command-line limits that
contradict each other end the pipeline (`cli.py:290`, `cli.py:302` with
`historical_repository.py:848`, the refusal `overtargeted`).  One more is outside the
models: a provider's publication year outside the years of a session
(`historical_repository.py:2616`) ends the pipeline.

## 6. Plan

Done: models and runs of discovery, analysis, pipeline, publication with periodic
reports, lineages, external papers, historical corpus, related work and request
gate; proofs of every invariant and action property among them.  Left, in this order:

1. **Selection**: ranking as a pure operator, and the validation rules of
   `domain/` as predicates used there.
2. **Demo snapshot**: export and import, last.

## 7. Not modelled

The providers are remote services: a call is an answer or a failure of the
action that makes it.  XML, TEI and JSON parsing, prompts, narrative, formatting,
logging, cost accounting and the read-only views (`api.py`, most of `cli.py`, the
web application) have no state of their own.  Migrations, configuration, cloud
identity and infrastructure are configuration; export and import of the demo
snapshot are done by one process over rows nobody else writes.  Of discovery and
pipeline, SMOKE executions, the narrative mode and usage accounting are left out.
`Lineage` takes the dates of papers as given: a paper without a date counts as
eligible, as in the code, so a lineage may contain a paper that is really later.
Its stored rows are taken to be intact: what a cascade does to a lineage is in
`Publication` (section 5, item 5).  `CompletedItemsAreBacked` of `AnalysisRun` is
about version and revision of an analysis, not about its contract, on which
`DailyPipeline` has `RevisionsPublishTheirOwnAnalyses`.  The connection timeout of the
pool and response bodies that arrive slowly are outside `RequestGate`.
That the loop of `RelatedWork` ends is not checked, for evaluating fairness of its
actions over so many states is beyond TLC's reach here; each of its steps
consumes a step, a query or an entry of a bounded queue.  `PROJECT.json` lists
every part with its status.
