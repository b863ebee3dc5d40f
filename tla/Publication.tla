---------------------------- MODULE Publication ----------------------------
(***************************************************************************)
(* The use case PublishProduct with the rows it stages and publishes: the  *)
(* product run and its items, the shared knowledge graph, the trends and   *)
(* lineages of the run, its report; and the weekly or monthly report that  *)
(* is made of published ones.                                              *)
(*                                                                         *)
(* A worker takes the papers of a finished analysis run one after another, *)
(* adds the graph of each, reads the corpus of all published graphs,       *)
(* stores trends and lineages, and publishes.  One action is one           *)
(* transaction, with two exceptions, because every statement of a          *)
(* transaction sees what is committed when it starts: reading the corpus   *)
(* is two steps, and so is discarding a failed run, whose deletion of the  *)
(* entities nobody else uses takes with it, by ON DELETE CASCADE, whatever *)
(* refers to them by then.  Workers on different dates hold different      *)
(* locks and share the entities; a worker can lose its lock and go on.     *)
(*                                                                         *)
(* Analysis runs are final, so what a publication reads of its source is   *)
(* constant.  A run has at most one attempt inside (OneAttemptPerRun), so  *)
(* the branches that repeat a committed write of the same attempt cannot   *)
(* be reached and are left out.                                            *)
(***************************************************************************)
EXTENDS Integers, FiniteSets

CONSTANTS
    Versions,   \* paper versions: numbers; also the graph entity of each paper
    Concepts,   \* the other graph entities
    About,      \* the concepts in the analysis of each version
    Targets,    \* the versions each version has been compared with
    Runs,       \* product runs: numbers
    Date,       \* the logical date of each, a number
    Space,      \* its pipeline execution, 0 for a standalone command
    Smoke,      \* the runs of smoke executions
    Analysed,   \* versions its analysis run completed
    Unanalysed, \* versions its analysis run failed
    Unusable,   \* completed ones whose analysis cannot be read
    Dropped,    \* versions that failed upstream of publication
    Workers, Nobody, None,
    Windows,    \* lengths in days of the windows trends are computed for
    MinDays, MinPapers,     \* daily reports and papers a periodic report needs
    MaxFaults, MaxLosses, MaxDrafts     \* bounds

ASSUME GraphAssumption ==
    /\ Versions \subseteq Nat /\ IsFiniteSet(Versions)
    /\ Concepts \cap Versions = {}
    /\ About \in [Versions -> SUBSET Concepts]
    /\ Targets \in [Versions -> SUBSET Versions]
    /\ \A v \in Versions : v \notin Targets[v]
ASSUME RunsAssumption ==
    /\ Runs \subseteq Nat
    /\ Runs # {}
    /\ Date \in [Runs -> Nat]
    /\ Space \in [Runs -> Nat]
    /\ Smoke \subseteq Runs
    \* Each date has one standalone run, each execution one run.
    /\ \A q, r \in Runs : Space[q] = Space[r] /\ Date[q] = Date[r] => q = r
    /\ \A q, r \in Runs : Space[q] = Space[r] /\ Space[r] # 0 => q = r
ASSUME SourcesAssumption ==
    /\ {Analysed, Unanalysed, Unusable, Dropped} \subseteq [Runs -> SUBSET Versions]
    /\ \A r \in Runs : Analysed[r] \cap Unanalysed[r] = {} /\ Unusable[r] \subseteq Analysed[r]
ASSUME NoneIsNoReport ==
    /\ None \notin Runs
    /\ None \notin [cards : SUBSET Versions, failures : SUBSET Versions, graphless : SUBSET Versions,
                     trendless : BOOLEAN, highlights : SUBSET (Concepts \X Nat),
                     status : {"COMPLETE", "PARTIAL"}]
ASSUME WorkersAssumption == Nobody \notin Workers
ASSUME WindowsAssumption == Windows \subseteq Nat \ {0} /\ Windows # {}
ASSUME BoundsAssumption == {MinDays, MinPapers, MaxFaults, MaxLosses, MaxDrafts} \subseteq Nat

VARIABLES
    faults,     \* failed statements and computations so far
    losses,     \* lost locks and dead processes so far
    status,     \* status of the row of each run
    order,      \* pairs of runs whose last starts came in this order
    item,       \* rows of the items of each run: status and stage
    entities,   \* rows of the shared graph entities
    occurrences,    \* rows of mentions and edges, with the run that owns each
    trends,     \* the trend snapshots of each run
    lineages,   \* the lineage snapshots of each run: root and nodes
    report,     \* report of each run
    periodic,   \* the periodic report
    drafts,     \* periodic reports that are being written
    cascaded,   \* occurrences that the deletion of an entity has taken with it
    holder,     \* owner of the advisory lock of each date
    pc, job, view   \* each worker: where it is, its run, its local state

vars == <<faults, losses, status, order, item, entities, occurrences, trends, lineages,
          report, periodic, drafts, cascaded, holder, pc, job, view>>

Dates == {Date[r] : r \in Runs}

Published == {r \in Runs : status[r] \in {"COMPLETE", "PARTIAL"}}

ItemsIn(r, s) == {v \in Versions : item[r][v].status = s}
Selected(r) == Versions \ ItemsIn(r, "ABSENT")

NoItem == [status |-> "ABSENT", stage |-> "NONE"]
FreshItem == [status |-> "IN_PROGRESS", stage |-> "EVIDENCE_EXTRACTED"]
FailedItem == [status |-> "FAILED", stage |-> "EVIDENCE_EXTRACTED"]

\* What an attempt knows: the run it found, the papers it has not come to, those
\* whose graph it stored and those whose graph it could not build, the runs it
\* reads the corpus of, the trends it computed from them or that it failed to, the
\* lineages it built, the failed items of its report, and the entities it deletes.
BlankView == [found |-> "ABSENT", todo |-> {}, graphs |-> {}, graphless |-> {}, corpus |-> {},
              trends |-> {}, trendless |-> FALSE, lineages |-> {}, failures |-> {}, doomed |-> {}]

Init ==
    /\ faults = 0
    /\ losses = 0
    /\ status = [r \in Runs |-> "ABSENT"]
    /\ order = {}
    /\ item = [r \in Runs |-> [v \in Versions |-> NoItem]]
    /\ entities = {}
    /\ occurrences = {}
    /\ trends = [r \in Runs |-> {}]
    /\ lineages = [r \in Runs |-> {}]
    /\ report = [r \in Runs |-> None]
    /\ periodic = None
    /\ drafts = {}
    /\ cascaded = {}
    /\ holder = [d \in Dates |-> Nobody]
    /\ pc = [w \in Workers |-> "idle"]
    /\ job = [w \in Workers |-> None]
    /\ view = [w \in Workers |-> BlankView]

----------------------------------------------------------------------------
(* The graph of a paper *)

\* A mention is about one entity, an edge joins a paper with another entity.
Link(v, e) == {{e}, {v, e}}

AnalysisGraph(v) == {{v}} \cup (UNION {Link(v, e) : e \in About[v]})

\* A comparison mentions both papers, relates them and repeats the concepts of each.
ComparisonGraph(v, t) ==
    {{v}} \cup Link(v, t) \cup (UNION {Link(v, e) : e \in About[v]})
          \cup (UNION {Link(t, e) : e \in About[t]})

\* merge_knowledge_graph_bundles
Occurrences(v) == AnalysisGraph(v) \cup (UNION {ComparisonGraph(v, t) : t \in Targets[v]})

\* The bundle has exactly the entities that are mentioned.
Mentioned(v) == UNION Occurrences(v)

Stored(o, r) == [space |-> Space[r], version |-> o[1], ends |-> o[2], owner |-> r]

\* Executions have their own identifiers of occurrences, standalone runs share one set.
Rivals(r, v) ==
    {o \in occurrences : o.space = Space[r] /\ o.version = v /\ o.ends \in Occurrences(v)}

\* Mutant: an occurrence of any run on the topic may be used again.
MayUseOfAnybody(r, o) == TRUE

\* Mutant: an occurrence of a later date may be used.
MayUseOfLaterDate(r, o) == o.owner = r \/ o.owner \in Published

\* _validate_reusable_occurrence_owner
MayUse(r, o) == o.owner = r \/ (o.owner \in Published /\ Date[o.owner] <= Date[r])

----------------------------------------------------------------------------
(* What a run sees of the others *)

\* Mutant: the publications being staged for earlier dates are visible too.
VisibleWhileStaged(r) == {q \in Runs \ Smoke : Date[q] <= Date[r] /\ status[q] # "ABSENT"} \cup {r}

Visible(r) == {q \in Published \ Smoke : Date[q] <= Date[r]} \cup {r}

\* Papers that the edges of the corpus connect with a paper: the least set with this
\* paper that no edge leaves.
Related(corpus, v) ==
    LET edges == {o.ends : o \in {x \in occurrences : x.owner \in corpus}}
        Closed(S) == \A u \in S, t \in Versions : {u, t} \in edges => t \in S
    IN {t \in Versions : \A S \in SUBSET Versions : v \in S /\ Closed(S) => t \in S}

\* Concepts that the graphs of some runs connect with papers, and how many each.
Metrics(qs) ==
    LET Papers(c) == {v \in Versions : \E o \in occurrences : o.owner \in qs /\ o.ends = {v, c}}
    IN {<<c, Cardinality(Papers(c))>> : c \in {x \in Concepts : Papers(x) # {}}}

Days(last, n) == last - n + 1 .. last

\* The snapshot of the last days of a corpus, compared with as many before them; the
\* runs that have any are kept to speak about them.
Snapshot(corpus, last, n) ==
    LET current == {q \in corpus : Date[q] \in Days(last, n)}
        preceding == {q \in corpus : Date[q] \in Days(last - n, n)}
    IN [days |-> n, current |-> Metrics(current), preceding |-> Metrics(preceding),
        runs |-> current \cup preceding]

Snapshots(corpus, last) == {Snapshot(corpus, last, n) : n \in Windows}

\* The shortest window; reports highlight its concepts.
Primary(snapshots) == CHOOSE s \in snapshots : \A t \in snapshots : s.days <= t.days

Highlights(snapshots) == IF snapshots = {} THEN {} ELSE Primary(snapshots).current

CountedEntities(snapshots) == {m[1] : m \in UNION {s.current \cup s.preceding : s \in snapshots}}

\* q was last started no later than r.
StartedBy(q, r) == <<q, r>> \in order

\* The order after r has started, for the first time or again.
StartsLast(r) ==
    LET rest == {q \in Runs \ {r} : StartedBy(q, q)} IN
    (order \cap (rest \X rest)) \cup {<<q, r>> : q \in rest \cup {r}}

\* Mutant: a date is served by all its revisions.
ServedWithAllRevisions == Published \ Smoke

\* _published_product_run_ids: the published revision of each date that started last.
Served ==
    {r \in Published \ Smoke :
        \A q \in Published \ Smoke : Date[q] = Date[r] => StartedBy(q, r)}

----------------------------------------------------------------------------
(* Steps of an attempt *)

rows == <<status, order, item, entities, occurrences, trends, lineages, report, cascaded>>
others == <<periodic, drafts>>

Goto(w, step) == pc' = [pc EXCEPT ![w] = step]

Fails(n) == faults' = faults + n /\ faults' <= MaxFaults

\* _fail_run_then_raise
GiveUp(w) ==
    /\ Goto(w, "discard")
    /\ view' = [view EXCEPT ![w] = BlankView]
    /\ UNCHANGED <<holder, job>>

Leave(w) ==
    /\ Goto(w, "idle")
    /\ job' = [job EXCEPT ![w] = None]
    /\ view' = [view EXCEPT ![w] = BlankView]
    /\ holder' = [d \in Dates |-> IF holder[d] = w THEN Nobody ELSE holder[d]]

\* The lock is taken and the run of the date and execution is looked up.  That of a
\* published one is returned and one that runs is a duplicate; neither changes a row.
Open(w, r) ==
    /\ pc[w] = "idle"
    /\ holder[Date[r]] = Nobody
    /\ status[r] \in {"ABSENT", "FAILED"}
    /\ Goto(w, "begin")
    /\ job' = [job EXCEPT ![w] = r]
    /\ view' = [view EXCEPT ![w].found = status[r]]
    /\ holder' = [holder EXCEPT ![Date[r]] = w]
    /\ UNCHANGED <<faults, losses, rows, others>>

\* The papers of the analysis run; each gets a card, with or without an analysis.
Cards(r) == Analysed[r] \cup Unanalysed[r]

Readable(r) == Analysed[r] \ Unusable[r]

\* _product_failures_by_version
Failing(r) == Unusable[r] \cup Dropped[r]

\* Items of a new or restarted run: those of the analysis run, failed if they
\* failed there or upstream, and the failures of papers it never had.
PlannedItems(r) ==
    [v \in Versions |->
        IF v \in Unanalysed[r] \cup Failing(r) THEN FailedItem
        ELSE IF v \in Analysed[r] THEN FreshItem
        ELSE NoItem]

Papers(r) == Readable(r) \ Failing(r)

\* Mutant: a run that is still being staged restarts.
MayRestartRunning(r) == status[r] \in {"FAILED", "RUNNING"}

MayRestart(r) == status[r] = "FAILED"

Own(r) == {o \in occurrences : o.owner = r}

\* Entities of the run that no committed occurrence of another run uses.
Doomed(r) == (UNION {o.ends : o \in Own(r)}) \ (UNION {o.ends : o \in occurrences \ Own(r)})

\* Mutant: the trends and lineages of the run stay.
RemainingAggregatesKept(rs, r) == rs

RemainingAggregates(rs, r) == [rs EXCEPT ![r] = {}]

\* The rows of a new attempt.
Launch(w) ==
    LET r == job[w] IN
    /\ status' = [status EXCEPT ![r] = "RUNNING"]
    /\ order' = StartsLast(r)
    /\ item' = [item EXCEPT ![r] = PlannedItems(r)]
    /\ Goto(w, "paper")
    /\ view' = [view EXCEPT ![w].todo = Papers(r)]
    /\ UNCHANGED <<job, holder>>

\* start_product_run
Start(w) ==
    /\ pc[w] = "begin"
    /\ view[w].found = "ABSENT"
    /\ status[job[w]] = "ABSENT"
    /\ Launch(w)
    /\ UNCHANGED <<faults, losses, others, entities, occurrences, trends, lineages, report, cascaded>>

\* restart_product_run first deletes what the run may have left.
Restart(w) ==
    LET r == job[w] IN
    /\ pc[w] = "begin"
    /\ view[w].found = "FAILED"
    /\ MayRestart(r)
    /\ Launch(w)
    /\ entities' = entities \ Doomed(r)
    /\ occurrences' = occurrences \ Own(r)
    /\ trends' = RemainingAggregates(trends, r)
    /\ lineages' = RemainingAggregates(lineages, r)
    /\ UNCHANGED <<faults, losses, others, report, cascaded>>

\* Another attempt has started the run meanwhile; the error leaves the run alone.
BeginRefused(w) ==
    /\ pc[w] = "begin"
    /\ ~IF view[w].found = "ABSENT" THEN status[job[w]] = "ABSENT" ELSE MayRestart(job[w])
    /\ Leave(w)
    /\ UNCHANGED <<faults, losses, others, rows>>

\* _locked_product_item
ItemAt(w, v, stages) ==
    /\ status[job[w]] = "RUNNING"
    /\ item[job[w]][v].status = "IN_PROGRESS"
    /\ item[job[w]][v].stage \in stages

SetStage(r, vs, stage) ==
    item' = [item EXCEPT ![r] = [v \in Versions |->
                IF v \in vs THEN [@[v] EXCEPT !.stage = stage] ELSE @[v]]]

\* A paper with comparisons: advance_product_item.
Compare(w, v) ==
    /\ pc[w] = "paper"
    /\ v \in view[w].todo
    /\ Targets[v] # {}
    /\ ItemAt(w, v, {"EVIDENCE_EXTRACTED"})
    /\ SetStage(job[w], {v}, "COMPARED")
    /\ UNCHANGED <<faults, losses, others, holder, pc, job, view, status, order, entities, occurrences,
                   trends, lineages, report, cascaded>>

GraphInput(v) == IF Targets[v] = {} THEN "EVIDENCE_EXTRACTED" ELSE "COMPARED"

\* persist_product_graph
PersistGraph(w, v) ==
    LET r == job[w]
        new == {Stored(<<v, ends>>, r) : ends \in Occurrences(v) \ {o.ends : o \in Rivals(r, v)}}
    IN
    /\ pc[w] = "paper"
    /\ v \in view[w].todo
    /\ ItemAt(w, v, {GraphInput(v)})
    /\ \A o \in Rivals(r, v) : MayUse(r, o)
    /\ entities' = entities \cup Mentioned(v)
    /\ occurrences' = occurrences \cup new
    /\ SetStage(r, {v}, "GRAPH_UPDATED")
    /\ view' = [view EXCEPT ![w].todo = @ \ {v}, ![w].graphs = @ \cup {v}]
    /\ UNCHANGED <<faults, losses, others, holder, pc, job, status, order, trends, lineages, report, cascaded>>

\* An occurrence belongs to a run that is not published or is of a later date.
GraphRefused(w, v) ==
    /\ pc[w] = "paper"
    /\ v \in view[w].todo
    /\ ItemAt(w, v, {GraphInput(v)})
    /\ \E o \in Rivals(job[w], v) : ~MayUse(job[w], o)
    /\ GiveUp(w)
    /\ UNCHANGED <<faults, losses, others, rows>>

\* The graph breaks an invariant of the domain: the paper is published without one.
GraphFails(w, v) ==
    /\ pc[w] = "paper"
    /\ v \in view[w].todo
    /\ ItemAt(w, v, {GraphInput(v)})
    /\ view' = [view EXCEPT ![w].todo = @ \ {v}, ![w].graphless = @ \cup {v}]
    /\ Fails(1)
    /\ UNCHANGED <<losses, others, rows, holder, pc, job>>

\* get_graph_corpus, up to the dates of the visible runs.
ReadRuns(w) ==
    /\ pc[w] = "paper"
    /\ view[w].todo = {}
    /\ view' = [view EXCEPT ![w].corpus = Visible(job[w])]
    /\ Goto(w, "corpus")
    /\ UNCHANGED <<faults, losses, others, rows, holder, job>>

\* The rest of it, then trends and lineages, each of which may break an invariant.
Unexpected(w) == {o \in occurrences : o.owner \in Visible(job[w]) \ view[w].corpus}

ReadGraphs(w) ==
    /\ pc[w] = "corpus"
    /\ Unexpected(w) = {}
    /\ \E trendless \in BOOLEAN, roots \in SUBSET view[w].graphs :
        /\ view' = [view EXCEPT
                ![w].trendless = trendless,
                ![w].trends = IF trendless THEN {} ELSE Snapshots(view[w].corpus, Date[job[w]]),
                ![w].lineages = {[root |-> v, nodes |-> Related(view[w].corpus, v)] : v \in roots}]
        /\ Fails(Cardinality(view[w].graphs \ roots) + IF trendless THEN 1 ELSE 0)
    /\ Goto(w, "aggregate")
    /\ UNCHANGED <<losses, others, rows, holder, job>>

\* The owner of an occurrence has no date in the dictionary read before: a
\* KeyError, which no handler of PublishProduct catches; the run stays RUNNING.
Abandon(w) ==
    /\ pc[w] = "corpus"
    /\ Unexpected(w) # {}
    /\ Leave(w)
    /\ UNCHANGED <<faults, losses, others, rows>>

\* _run_detail_from_session: what the report takes from the rows of the run.
Failures(r) == ItemsIn(r, "FAILED")

\* The entities that trends count must exist, and every paper of a lineage must be
\* mentioned by an eligible run.
Storable(w) ==
    /\ CountedEntities(view[w].trends) \subseteq entities
    /\ \A l \in view[w].lineages : \A n \in l.nodes :
        \E o \in occurrences : o.ends = {n} /\ o.owner \in Visible(job[w])

\* persist_product_aggregates, and the run detail that the report is planned from.
Aggregate(w) ==
    LET r == job[w] IN
    /\ pc[w] = "aggregate"
    /\ status[r] = "RUNNING"
    /\ Storable(w)
    /\ trends' = [trends EXCEPT ![r] = view[w].trends]
    /\ lineages' = [lineages EXCEPT ![r] = view[w].lineages]
    /\ SetStage(r, IF view[w].trendless THEN {} ELSE view[w].graphs, "TREND_SNAPSHOTS_GENERATED")
    /\ view' = [view EXCEPT ![w].failures = Failures(r)]
    /\ Goto(w, "publish")
    /\ UNCHANGED <<faults, losses, others, holder, job, status, order, entities, occurrences, report, cascaded>>

AggregateRefused(w) ==
    /\ pc[w] = "aggregate"
    /\ ~Storable(w)
    /\ GiveUp(w)
    /\ UNCHANGED <<faults, losses, others, rows>>

\* product_item_ready_for_publication
Ready(r, v, plan) ==
    /\ item[r][v].status = "IN_PROGRESS"
    /\ \/ item[r][v].stage = "TREND_SNAPSHOTS_GENERATED"
       \/ item[r][v].stage = "GRAPH_UPDATED" /\ plan.trendless
       \/ item[r][v].stage \in {"EVIDENCE_EXTRACTED", "COMPARED"} /\ v \in plan.graphless

\* Mutant: the report is complete when some paper is ready.
PlannedFromReady(w) ==
    [cards |-> Cards(job[w]), failures |-> view[w].failures, graphless |-> view[w].graphless,
     trendless |-> view[w].trendless, highlights |-> Highlights(view[w].trends),
     status |-> IF ItemsIn(job[w], "IN_PROGRESS") # {} THEN "COMPLETE" ELSE "PARTIAL"]

\* build_daily_report_plan, assemble_product_report: the report an attempt plans.
Planned(w) ==
    [cards |-> Cards(job[w]), failures |-> view[w].failures, graphless |-> view[w].graphless,
     trendless |-> view[w].trendless, highlights |-> Highlights(view[w].trends),
     status |-> IF view[w].failures = {} THEN "COMPLETE" ELSE "PARTIAL"]

Publishable(r, plan) ==
    /\ status[r] = "RUNNING"
    /\ Selected(r) = ItemsIn(r, "FAILED") \cup {v \in Versions : Ready(r, v, plan)}
    /\ plan.failures = Failures(r)
    /\ plan.cards = Selected(r)

\* Every highlight is an entity and a metric of the primary one of the given trends.
Highlightable(highlights, snapshots) ==
    /\ {m[1] : m \in highlights} \subseteq entities
    /\ highlights \subseteq Highlights(snapshots)

\* _insert_normalized_report
InsertReport(r, plan) == report' = [report EXCEPT ![r] = plan]

\* finalize_product_publication
Commit(w) ==
    LET r == job[w]
        plan == Planned(w)
    IN
    /\ pc[w] = "publish"
    /\ Publishable(r, plan)
    /\ Highlightable(plan.highlights, trends[r])
    /\ status' = [status EXCEPT ![r] = plan.status]
    /\ item' = [item EXCEPT ![r] = [v \in Versions |->
                    IF Ready(r, v, plan) THEN [status |-> "COMPLETED", stage |-> "PUBLISHED"] ELSE @[v]]]
    /\ InsertReport(r, plan)
    /\ UNCHANGED <<losses, periodic, drafts, order, entities, occurrences, trends, lineages, cascaded>>

Publish(w) ==
    /\ Commit(w)
    /\ Leave(w)
    /\ UNCHANGED faults

PublishAnswerLost(w) ==
    /\ Commit(w)
    /\ Fails(1)
    /\ GiveUp(w)

\* An entity that the report highlights has been deleted, or has lost its metric;
\* or a paper failed upstream that the analysis run never had, which has no card.
PublishRefused(w) ==
    /\ pc[w] = "publish"
    /\ \/ ~Highlightable(Planned(w).highlights, trends[job[w]])
       \/ Planned(w).cards # Selected(job[w])
    /\ GiveUp(w)
    /\ UNCHANGED <<faults, losses, others, rows>>

\* The provider refuses the credentials of the narrative, or the report breaks
\* an invariant.  Any other failure of the provider only leaves out the narrative.
NarrativeFails(w) ==
    /\ pc[w] = "publish"
    /\ Fails(1)
    /\ GiveUp(w)
    /\ UNCHANGED <<losses, others, rows>>

\* A statement fails, before or after its commit.
StatementFails(w) ==
    /\ pc[w] \in {"paper", "corpus", "aggregate"}
    /\ Fails(1)
    /\ GiveUp(w)
    /\ UNCHANGED <<losses, others, rows>>

----------------------------------------------------------------------------
(* Discarding a failed run *)

\* Mutant: a published run is discarded.
MayDiscardPublished(r) == status[r] # "ABSENT"

MayDiscard(r) == status[r] \in {"RUNNING", "FAILED"}

\* fail_product_run, up to the rows its last deletion picks.
PickDoomed(w) ==
    /\ pc[w] = "discard"
    /\ IF MayDiscard(job[w])
       THEN /\ view' = [view EXCEPT ![w].doomed = Doomed(job[w])]
            /\ Goto(w, "delete")
            /\ UNCHANGED <<job, holder>>
       ELSE Leave(w)
    /\ UNCHANGED <<faults, losses, others, rows>>

\* Snapshots and highlights lose their rows about deleted entities.
Without(metrics, gone) == {m \in metrics : m[1] \notin gone}

TrendsWithout(snapshots, gone) ==
    {[s EXCEPT !.current = Without(@, gone), !.preceding = Without(@, gone)] : s \in snapshots}

LineagesWithout(snapshots, gone) == {[l EXCEPT !.nodes = @ \ gone] : l \in snapshots}

ReportWithout(x, gone) == IF x = None THEN None ELSE [x EXCEPT !.highlights = Without(@, gone)]

\* The rest of it and its commit.
Discard(w) ==
    LET r == job[w]
        gone == view[w].doomed
        swept == {o \in occurrences \ Own(r) : o.ends \cap gone # {}}
    IN
    /\ pc[w] = "delete"
    /\ entities' = entities \ gone
    /\ occurrences' = occurrences \ (Own(r) \cup swept)
    /\ cascaded' = cascaded \cup swept
    /\ trends' = RemainingAggregates([q \in Runs |-> TrendsWithout(trends[q], gone)], r)
    /\ lineages' = RemainingAggregates([q \in Runs |-> LineagesWithout(lineages[q], gone)], r)
    /\ report' = [q \in Runs |-> ReportWithout(report[q], gone)]
    /\ periodic' = ReportWithout(periodic, gone)
    /\ item' = [item EXCEPT ![r] = [v \in Versions |->
                    IF @[v].status = "IN_PROGRESS" THEN [@[v] EXCEPT !.status = "FAILED"] ELSE @[v]]]
    /\ status' = [status EXCEPT ![r] = "FAILED"]
    /\ Leave(w)
    /\ UNCHANGED <<faults, losses, drafts, order>>

\* The transaction fails as a whole: the run stays RUNNING.
DiscardFails(w) ==
    /\ pc[w] \in {"discard", "delete"}
    /\ Fails(1)
    /\ Leave(w)
    /\ UNCHANGED <<losses, others, rows>>

----------------------------------------------------------------------------
(* Crashes and lost locks *)

Crash(w) ==
    /\ pc[w] # "idle"
    /\ losses < MaxLosses
    /\ losses' = losses + 1
    /\ Leave(w)
    /\ UNCHANGED <<faults, others, rows>>

LoseLock(w) ==
    /\ pc[w] # "idle"
    /\ holder[Date[job[w]]] = w
    /\ losses < MaxLosses
    /\ losses' = losses + 1
    /\ holder' = [holder EXCEPT ![Date[job[w]]] = Nobody]
    /\ UNCHANGED <<faults, others, rows, pc, job, view>>

----------------------------------------------------------------------------
(* GeneratePeriodicReport, for the one period all dates fall in *)

\* aggregate_report_eligible
Enough ==
    /\ Cardinality(Served) >= MinDays
    /\ Cardinality(UNION {ItemsIn(r, "COMPLETED") : r \in Served}) >= MinPapers

\* get_periodic_report_input, up to the reports: it reads the trends of the period in
\* a later statement.
ReadReports ==
    /\ periodic = None
    /\ Enough
    /\ Cardinality(drafts) < MaxDrafts
    /\ drafts' = drafts \cup {[runs |-> Served, planned |-> None]}
    /\ UNCHANGED <<faults, losses, rows, periodic, holder, pc, job, view>>

Latest(qs) == CHOOSE r \in qs : \A q \in qs : Date[q] <= Date[r]

\* The run with the latest trends that are served, if any are.
LatestTrends ==
    LET with == {r \in Served : trends[r] # {}} IN IF with = {} THEN None ELSE Latest(with)

\* build_periodic_report_plan: the highlights are those of the last daily report.
PlannedPeriod(qs) ==
    LET failures == UNION {report[r].failures : r \in qs} IN
    [runs |-> qs, trends |-> LatestTrends, failures |-> failures,
     status |-> IF failures = {} THEN "COMPLETE" ELSE "PARTIAL",
     highlights |-> report[Latest(qs)].highlights]

ReadTrends ==
    /\ \E d \in drafts :
        /\ d.planned = None
        /\ drafts' = (drafts \ {d}) \cup {[d EXCEPT !.planned = PlannedPeriod(d.runs)]}
    /\ UNCHANGED <<faults, losses, rows, periodic, holder, pc, job, view>>

\* An entity the period's graphs mention, or did before a cascade, is mentioned
\* by no run served now, since a newer revision of a date is: the entity has no
\* date of first publication, and the command fails.
TrendsUnread ==
    /\ \E d \in drafts : \E e \in entities \cup UNION {o.ends : o \in cascaded} :
        /\ d.planned = None
        /\ \E o \in occurrences \cup cascaded : o.owner \in d.runs /\ o.ends = {e}
        /\ \A o \in occurrences : o.owner \in Served => o.ends # {e}
        /\ drafts' = drafts \ {d}
    /\ UNCHANGED <<faults, losses, rows, periodic, holder, pc, job, view>>

\* The runs of its trends and lineages are served, and its highlights are metrics.
Insertable(d) ==
    LET p == d.planned IN
    /\ p.trends # None => p.trends \in Served
    /\ \A r \in d.runs : lineages[r] # {} => r \in Served
    /\ Highlightable(p.highlights, IF p.trends = None THEN {} ELSE trends[p.trends])

\* persist_periodic_report: the stored report is returned, whatever the new one says.
Persisted(d) == IF periodic = None THEN d.planned ELSE periodic

PersistPeriodic ==
    /\ \E d \in drafts :
        /\ d.planned # None
        /\ periodic # None \/ Insertable(d)
        /\ periodic' = Persisted(d)
        /\ drafts' = drafts \ {d}
    /\ UNCHANGED <<faults, losses, rows, holder, pc, job, view>>

\* What the report refers to is no longer served: the command fails.
PeriodicRefused ==
    /\ periodic = None
    /\ \E d \in drafts : d.planned # None /\ ~Insertable(d) /\ drafts' = drafts \ {d}
    /\ UNCHANGED <<faults, losses, rows, periodic, holder, pc, job, view>>

----------------------------------------------------------------------------

Step(w) ==
    \/ \E r \in Runs : Open(w, r)
    \/ Start(w) \/ Restart(w) \/ BeginRefused(w)
    \/ \E v \in Versions :
        Compare(w, v) \/ PersistGraph(w, v) \/ GraphRefused(w, v) \/ GraphFails(w, v)
    \/ ReadRuns(w) \/ ReadGraphs(w) \/ Abandon(w)
    \/ Aggregate(w) \/ AggregateRefused(w)
    \/ Publish(w) \/ PublishRefused(w) \/ PublishAnswerLost(w) \/ NarrativeFails(w) \/ StatementFails(w)
    \/ PickDoomed(w) \/ Discard(w) \/ DiscardFails(w)
    \/ Crash(w) \/ LoseLock(w)

Next ==
    \/ \E w \in Workers : Step(w)
    \/ ReadReports \/ ReadTrends \/ TrendsUnread \/ PersistPeriodic \/ PeriodicRefused

Spec == Init /\ [][Next]_vars

----------------------------------------------------------------------------
(* Properties *)

ItemRows ==
    [status : {"ABSENT", "IN_PROGRESS", "COMPLETED", "FAILED"},
     stage : {"NONE", "EVIDENCE_EXTRACTED", "COMPARED", "GRAPH_UPDATED",
              "TREND_SNAPSHOTS_GENERATED", "PUBLISHED"}]

MetricRows == (Concepts \cap entities) \X (1 .. Cardinality(Versions))

Reports ==
    {x \in [cards : SUBSET Versions, failures : SUBSET Versions, graphless : SUBSET Versions,
            trendless : BOOLEAN, highlights : SUBSET MetricRows, status : {"COMPLETE", "PARTIAL"}] :
        x.status = "COMPLETE" <=> x.failures = {}}

PeriodicReports ==
    [runs : SUBSET Runs, trends : Runs \cup {None}, failures : SUBSET Versions,
     status : {"COMPLETE", "PARTIAL"}, highlights : SUBSET MetricRows]

TrendRows ==
    [days : Windows, current : SUBSET MetricRows, preceding : SUBSET MetricRows, runs : SUBSET Runs]

LineageRows == [root : Versions, nodes : SUBSET (Versions \cap entities)]

\* A mention is of an entity that exists; an edge joins a paper with another entity.
Mention(o) == o.owner \in Runs /\ \E e \in entities : o.ends = {e}
Edge(o) == o.owner \in Runs /\ \E p \in entities \cap Versions : \E e \in entities \ {p} : o.ends = {p, e}

\* Rows have their types; occurrences, metrics, lineages and highlights refer to
\* entities that exist, and a run has a report exactly when it is published.
TypeOK ==
    /\ status \in [Runs -> {"ABSENT", "RUNNING", "FAILED", "COMPLETE", "PARTIAL"}]
    /\ item \in [Runs -> [Versions -> ItemRows]]
    /\ entities \subseteq Versions \cup Concepts
    /\ \A o \in occurrences : Mention(o) \/ Edge(o)
    /\ \A r \in Runs : IF r \in Published THEN report[r] \in Reports ELSE report[r] = None
    /\ \A r \in Runs : trends[r] \subseteq TrendRows /\ lineages[r] \subseteq LineageRows
    /\ periodic \in PeriodicReports \cup {None}
    /\ holder \in [Dates -> Workers \cup {Nobody}]

\* Two processes are never past the start of the same run, even when the first
\* has lost the lock of its date: the status of the run is a second lock.
OneAttemptPerRun ==
    \A v, w \in Workers :
        v # w /\ job[v] = job[w] /\ job[v] # None => "begin" \in {pc[v], pc[w]}

\* The papers published with a graph have all its mentions and edges, or lost them.
WithGraph(r) == ItemsIn(r, "COMPLETED") \ report[r].graphless

Complete(r, lost) ==
    \A v \in WithGraph(r) : \A ends \in Occurrences(v) :
        \E o \in occurrences \cup lost : o.space = Space[r] /\ o.version = v /\ o.ends = ends

\* A published paper has its whole graph, or the report says that it has none; the
\* cascade of a deletion is the only way to lose part of it.
OnlyCascadesLoseGraphs == \A r \in Published : Complete(r, cascaded)

\* A failed run has left nothing behind: no row of the graph, no snapshot, no report
\* and no paper that looks as if somebody worked on it.
FailedRunsLeaveNothing ==
    \A r \in Runs : status[r] = "FAILED" =>
        /\ Own(r) = {} /\ trends[r] = {} /\ lineages[r] = {}
        /\ ItemsIn(r, "IN_PROGRESS") = {}

\* The trends of a published run count itself and published runs up to its date,
\* never one that was being staged when they were computed and failed later; and
\* its report highlights nothing they do not count, cascades included.
TrendsCountPublishedWork ==
    \A r \in Published :
        /\ \A q \in (UNION {s.runs : s \in trends[r]}) \ {r} : q \in Published \ Smoke /\ Date[q] <= Date[r]
        /\ report[r].highlights \subseteq Highlights(trends[r])

\* What a published run shares with others belongs to runs that are published too: no
\* later failure of another run discards it, unless a cascade has deleted it before.
SharedGraphsArePublished ==
    \A r \in Published : \A v \in WithGraph(r) : \A o \in Rivals(r, v) :
        \/ o.owner \in Published /\ Date[o.owner] <= Date[r]
        \/ \E c \in cascaded : [c EXCEPT !.owner = o.owner] = o

\* A period counts each of its dates once, whichever revisions are published while
\* the report is written: the minimum is one of distinct dates.
PeriodCountsDatesOnce ==
    periodic # None => \A q, r \in periodic.runs : Date[q] = Date[r] => q = r

\* Publication implements the abstract specification of what readers get: a
\* revision published once with a status that fits its cards, served by start.  What
\* an execution reports as its outcome is for the pipeline to say (DailyPipeline).
Revision ==
    [r \in Runs \ Smoke |->
        IF r \in Published
        THEN [cards |-> report[r].cards, ready |-> ItemsIn(r, "COMPLETED"), status |-> status[r]]
        ELSE None]
ServedOn ==
    [d \in {Date[r] : r \in Runs \ Smoke} |->
        IF \E r \in Served : Date[r] = d THEN CHOOSE r \in Served : Date[r] = d ELSE None]

Publishing ==
    INSTANCE DailyPublication
        WITH Executions <- Runs \ Smoke, revision <- Revision, served <- ServedOn, outcome <- [r \in Runs \ Smoke |-> None]
KeepsItsPromise == Publishing!Spec
=============================================================================
