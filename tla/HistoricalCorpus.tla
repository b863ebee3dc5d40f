-------------------------- MODULE HistoricalCorpus --------------------------
(* The historical corpus of a topic and the backfills that fill it.  Every   *)
(* execution of a week asks for the six months that end on the week's        *)
(* Monday; the first one creates the backfill's row, a page of papers is     *)
(* stored per query, and when the plan is exhausted the representatives of   *)
(* the whole corpus are chosen anew.  Executions of different dates of a     *)
(* week hold different locks, so several processes may work on one row.      *)
(*                                                                           *)
(* Related-work searches write papers of their own and may re-key or merge   *)
(* the papers of the corpus at any time.  A query may have any of Answers;   *)
(* timestamps, text, vectors and the model's provenance are left out, and    *)
(* every paper has an abstract.                                              *)
EXTENDS ExternalPapers

CONSTANTS Records,      \* what the provider knows: [sid, arxiv, doi, date]
          Weeks,        \* the Mondays, as numbers
          Span,         \* a backfill covers the dates week - Span .. week
          Workers,
          Plan,         \* number of queries of the topic
          Answers,      \* what the provider may return for a query
          Limit,        \* representative_full_text_count of the topic
          MaxFaults,    \* failures of the provider, timeouts and crashes
          Before,       \* records that searches of other topics have stored
          Found,        \* records that related-work searches come across
          MaxSearches   \* papers those searches write

ASSUME CorpusAssumption ==
    /\ Weeks \subseteq Nat /\ Span \in Nat /\ Plan \in Nat \ {0}
    /\ IsFiniteSet(Records)
    /\ Answers \subseteq SUBSET Records /\ {Before, Found} \subseteq SUBSET Records
    /\ Limit \in Nat /\ MaxFaults \in Nat /\ MaxSearches \in Nat
    /\ \A r \in Records : r.sid \in Nat /\ r.date \in Nat
                          /\ {r.arxiv, r.doi} \subseteq Nat \cup {None}
    \* The two kinds of keys differ.
    /\ \A r, q \in Records : r.arxiv # q.sid
    \* A page has one paper of each of the provider's identifiers.
    /\ \A answer \in Answers : \A r, q \in answer : r.sid = q.sid => r = q

\* The rows other topics have stored before.
EarlierPapers == {Merged({}, r) : r \in Before}

ASSUME BeforeAssumption == \A p, q \in EarlierPapers : p # q => Apart(p, q)

VARIABLES papers,    \* external_paper_stubs and external_paper_identifiers
          corpus,    \* historical_corpus_entries: key of the paper -> rank or 0
          embedded,  \* owners of scientific_embeddings
          local,     \* entries of the corpus with a local version: keys
          runs,      \* historical_backfill_runs, or None
          worker,    \* the processes
          faults, searches,
          pages,     \* history: the queries of a week whose page was stored
          kept       \* history: the records stored by pages

vars == <<papers, corpus, embedded, local, runs, worker, faults, searches, pages, kept>>

Statuses == {"RUNNING", "COMPLETE", "FAILED"}

Backfills == [status : Statuses, cursor : 0..Plan, discovered : Nat,
              persisted : Nat, representatives : Nat]

ASSUME NoneIsNoBackfill == None \notin Backfills /\ None \notin Statuses

\* A process that ended with an error of the repository's integrity: the
\* answer held one paper twice, another process moved the row, the
\* representatives outnumber the papers the backfill stored, or are others
\* than the ones arXiv was asked for, or arXiv's answer is older than a local
\* version.
Refusals == {"duplicates", "superseded", "uncounted", "unranked", "outdated"}

Resting == {"idle"} \cup Refusals

Idle == [at |-> "idle", week |-> None, run |-> None, best |-> <<>>]

\* six_month_window
Window(week) == {d \in 0..week : d + Span >= week}

Fresh == [status |-> "RUNNING", cursor |-> 0, discovered |-> 0,
          persisted |-> 0, representatives |-> 0]

Init ==
    /\ papers = EarlierPapers /\ corpus = <<>> /\ embedded = {} /\ local = {}
    /\ runs = [week \in Weeks |-> None]
    /\ worker = [w \in Workers |-> Idle]
    /\ faults = 0 /\ searches = 0
    /\ pages = [week \in Weeks |-> {}] /\ kept = {}

Status(week) == IF runs[week] = None THEN None ELSE runs[week].status

stored == <<papers, corpus, embedded, local, pages, kept>>

Moves(w, at) == worker' = [worker EXCEPT ![w].at = at]

\* The process ends; the execution that comes next begins anew.
Ends(w, at) == worker' = [worker EXCEPT ![w] = [Idle EXCEPT !.at = at]]

\* The row is read once, outside every lock; a COMPLETE one is the answer.
Begin(w, week) ==
    /\ worker[w].at \in Resting
    /\ Status(week) # "COMPLETE"
    /\ worker' = [worker EXCEPT ![w] =
            [at |-> IF Status(week) = "RUNNING" THEN "paging" ELSE "starting",
             week |-> week, run |-> runs[week], best |-> <<>>]]
    /\ UNCHANGED <<runs, stored, faults, searches>>

\* A row is created once, and only a failed one is overwritten, under its
\* lock.
Reopens(week) == Status(week) \in {None, "FAILED"}

\* start_historical_backfill: an insert that yields to an existing row, which
\* is overwritten with the process's own, possibly older, reading when it is
\* FAILED, and returned as it is otherwise.
Start(w) ==
    LET week == worker[w].week
        own == IF worker[w].run = None THEN Fresh
               ELSE [worker[w].run EXCEPT !.status = "RUNNING"]
        row == IF Reopens(week) THEN own ELSE runs[week]
    IN  /\ worker[w].at = "starting"
        /\ runs' = [runs EXCEPT ![week] = row]
        /\ worker' = [worker EXCEPT ![w].at = "paging", ![w].run = row]
        /\ UNCHANGED <<stored, faults, searches>>

Idents(page) == {Identity(r) : r \in page}

\* One paper of a transaction: its row, and all that depends on it.
Store(state, r) ==
    IF state.ambiguous \/ Ambiguous(state.papers, r)
    THEN [state EXCEPT !.ambiguous = TRUE]
    ELSE [papers    |-> Upserted(state.papers, r),
          corpus    |-> CorpusAfter(state.papers, r, state.corpus),
          embedded  |-> Followed(state.papers, r, state.embedded),
          local     |-> Followed(state.papers, r, state.local),
          ambiguous |-> FALSE]

Current == [papers |-> papers, corpus |-> corpus, embedded |-> embedded,
            local |-> local, ambiguous |-> FALSE]

\* The papers of a page, one after the other in the provider's order.
StoredBy(page) ==
    LET after[n \in 0..Cardinality(page)] ==
            IF n = 0 THEN Current ELSE Store(after[n - 1], InOrder(page)[n])
    IN  after[Cardinality(page)]

\* The answer names one paper twice: the page does not pair each paper with
\* one entry, or a later paper took the key of an earlier one, whose entry
\* would refer to a row that is gone.
Repeats(page) ==
    \/ Cardinality(Idents(page)) # Cardinality(page)
    \/ ~ (Idents(page) \subseteq Ids(StoredBy(page).papers))

\* Only papers of the backfill's six months are kept.
Dated(answer, week) == {r \in answer : r.date \in Window(week)}

\* What the process wants the row to be once the page is stored.
Counted(run, answer, week) ==
    [run EXCEPT !.cursor = @ + 1,
                !.discovered = @ + Cardinality(answer),
                !.persisted = @ + Cardinality(Dated(answer, week))]

\* The row already stands behind this page, with these counts.
Repeated(row, after) ==
    row.cursor = after.cursor /\ row.discovered = after.discovered
    /\ row.persisted = after.persisted

\* The row is where the process left it.
Unmoved(row, run, after) ==
    row.cursor = run.cursor
    /\ row.discovered <= after.discovered /\ row.persisted <= after.persisted

\* A page of the next query has arrived and is about to be stored.
Asked(w) == worker[w].at = "paging" /\ worker[w].run.cursor < Plan

\* _resolve_local_identity: which records have a local version, by their arXiv
\* ids, is left open.
Resolutions(page) == SUBSET {r \in page : r.arxiv # None}

\* persist_historical_backfill_page stores papers, entries, embeddings and
\* the new cursor in one transaction.  An entry is given the local version of
\* its record, or none.
StorePage(w, answer) ==
    LET week == worker[w].week
        run == worker[w].run
        page == Dated(answer, week)
        after == Counted(run, answer, week)
        state == StoredBy(page)
    IN  /\ Asked(w) /\ Status(week) = "RUNNING"
        /\ Unmoved(runs[week], run, after)
        /\ ~ Repeats(page) /\ ~ state.ambiguous
        /\ papers' = state.papers
        /\ corpus' = [id \in DOMAIN state.corpus \cup Idents(page) |->
                        IF id \in DOMAIN state.corpus THEN state.corpus[id] ELSE 0]
        /\ embedded' = state.embedded \cup Idents(page)
        /\ \E found \in Resolutions(page) :
             local' = (state.local \ Idents(page)) \cup Idents(found)
        /\ runs' = [runs EXCEPT ![week].cursor = after.cursor,
                                ![week].discovered = after.discovered,
                                ![week].persisted = after.persisted]
        /\ worker' = [worker EXCEPT ![w].run = runs'[week]]
        /\ pages' = [pages EXCEPT ![week] = @ \cup {after.cursor}]
        /\ kept' = kept \cup page
        /\ UNCHANGED <<faults, searches>>

\* A page stored before, by this process or by another, is not stored again.
RepeatPage(w, answer) ==
    LET week == worker[w].week
        after == Counted(worker[w].run, answer, week)
    IN  /\ Asked(w) /\ Status(week) = "RUNNING"
        /\ Cardinality(Idents(Dated(answer, week))) = Cardinality(Dated(answer, week))
        /\ Repeated(runs[week], after)
        /\ worker' = [worker EXCEPT ![w].run = runs[week]]
        /\ UNCHANGED <<runs, stored, faults, searches>>

\* The row is not running any more, or another process moved its cursor.
LosePage(w, answer) ==
    LET week == worker[w].week
        after == Counted(worker[w].run, answer, week)
    IN  /\ Asked(w)
        /\ Cardinality(Idents(Dated(answer, week))) = Cardinality(Dated(answer, week))
        /\ \/ Status(week) # "RUNNING"
           \/ ~ Repeated(runs[week], after) /\ ~ Unmoved(runs[week], worker[w].run, after)
        /\ Ends(w, "superseded")
        /\ UNCHANGED <<runs, stored, faults, searches>>

\* An answer that names a paper twice is refused as a whole; the row stays
\* RUNNING and the process ends with an error nothing on its way handles.
RefusePage(w, answer) ==
    LET week == worker[w].week
        page == Dated(answer, week)
        after == Counted(worker[w].run, answer, week)
    IN  /\ Asked(w) /\ Repeats(page) /\ ~ StoredBy(page).ambiguous
        /\ \/ Cardinality(Idents(page)) # Cardinality(page)
           \/ Status(week) = "RUNNING" /\ Unmoved(runs[week], worker[w].run, after)
        /\ Ends(w, "duplicates")
        /\ UNCHANGED <<runs, stored, faults, searches>>

\* Mutant: the cursor is committed before the papers of its page.
CursorStays(row, after) == [row EXCEPT !.cursor = after.cursor]

\* The transaction of a refused page leaves the row as it was.
RolledBack(row, after) == row

\* Two identifiers of one type for one paper: the page is rolled back and
\* the backfill fails.
AmbiguousPage(w, answer) ==
    LET week == worker[w].week
        page == Dated(answer, week)
        after == Counted(worker[w].run, answer, week)
    IN  /\ Asked(w) /\ Status(week) = "RUNNING"
        /\ Unmoved(runs[week], worker[w].run, after)
        /\ Cardinality(Idents(page)) = Cardinality(page) /\ StoredBy(page).ambiguous
        /\ runs' = [runs EXCEPT ![week] = RolledBack(@, after)]
        /\ Moves(w, "failing")
        /\ UNCHANGED <<stored, faults, searches>>

\* _select_representatives reads the whole corpus of the topic, whichever
\* week stored a paper: full text, dated in the window, best matches first.
Usable(week) ==
    {p.id : p \in {p \in papers : p.id \in DOMAIN corpus /\ p.arxiv # None
                                   /\ p.date \in Window(week)}}

Choose(w) ==
    /\ worker[w].at = "paging" /\ worker[w].run.cursor = Plan
    /\ \E matched \in SUBSET Usable(worker[w].week) :
         \E best \in SetToSeqs(matched) :
            /\ Cardinality(matched) <= Limit
            /\ worker' = [worker EXCEPT ![w].at = "finishing", ![w].best = best]
    /\ UNCHANGED <<runs, stored, faults, searches>>

\* Mutant: the ranks of the last representatives stay.
AddedRanks(best) ==
    [id \in DOMAIN corpus |->
        IF \E i \in DOMAIN best : best[i] = id
        THEN CHOOSE i \in DOMAIN best : best[i] = id ELSE corpus[id]]

\* Every paper of the topic loses its rank before the new ones are given.
Ranks(best) ==
    [id \in DOMAIN corpus |->
        IF \E i \in DOMAIN best : best[i] = id
        THEN CHOOSE i \in DOMAIN best : best[i] = id ELSE 0]

\* The representatives are papers of the corpus and have full text, still.
Present(best) ==
    \A i \in DOMAIN best : /\ best[i] \in DOMAIN corpus
                           /\ RowOf(papers, best[i]).arxiv # None

Exhausted(week) == Status(week) = "RUNNING" /\ runs[week].cursor = Plan

\* finalize_historical_backfill
Finalize(w) ==
    LET week == worker[w].week
        best == worker[w].best
    IN  /\ worker[w].at = "finishing"
        /\ Exhausted(week) /\ Present(best)
        /\ Len(best) <= runs[week].persisted
        /\ corpus' = Ranks(best)
        /\ runs' = [runs EXCEPT ![week].status = "COMPLETE",
                                ![week].representatives = Len(best)]
        /\ Ends(w, "idle")
        /\ UNCHANGED <<papers, embedded, local, pages, kept, faults, searches>>

\* The row is finished or failed already, or a search re-keyed a paper since
\* it was chosen.
LoseFinalization(w) ==
    /\ worker[w].at = "finishing"
    /\ ~ Exhausted(worker[w].week) \/ ~ Present(worker[w].best)
    /\ Ends(w, "superseded")
    /\ UNCHANGED <<runs, stored, faults, searches>>

\* ck_historical_backfill_counts: representatives may be papers that only
\* earlier weeks stored, but not more than this backfill stored itself.
RefuseFinalization(w) ==
    /\ worker[w].at = "finishing"
    /\ Exhausted(worker[w].week) /\ Present(worker[w].best)
    /\ Len(worker[w].best) > runs[worker[w].week].persisted
    /\ Ends(w, "uncounted")
    /\ UNCHANGED <<runs, stored, faults, searches>>

Ranked == {id \in DOMAIN corpus : corpus[id] > 0}

ArxivOf(ids) == {RowOf(papers, id).arxiv : id \in ids}

\* Every execution, whatever became of its backfill, reads the arXiv ids of
\* the representatives, and if there are any
ReadIdentities(w) ==
    /\ worker[w].at \in Resting /\ Ranked # {}
    /\ worker' = [worker EXCEPT ![w].at = "checking",
            ![w].best = SetToSortSeq(ArxivOf(Ranked), <)]
    /\ UNCHANGED <<runs, stored, faults, searches>>

\* their local versions, which are none unless every representative has one.
\* The two readings are compared by their lengths, though others may be ranked
\* by now; when they differ arXiv is asked for all the ids read before.
ReadVersions(w) ==
    LET versions == IF Ranked \subseteq local THEN Cardinality(Ranked) ELSE 0
    IN  /\ worker[w].at = "checking"
        /\ IF versions = Len(worker[w].best)
           THEN Ends(w, "idle") ELSE Moves(w, "materializing")
        /\ UNCHANGED <<runs, stored, faults, searches>>

\* persist_historical_arxiv_records: the papers arXiv knows get their local
\* versions in one transaction, if all of them are representatives still.
Materialize(w) ==
    /\ worker[w].at = "materializing"
    /\ \E known \in SUBSET Range(worker[w].best) :
         /\ known \subseteq ArxivOf(Ranked)
         /\ local' = local \cup {id \in Ranked : RowOf(papers, id).arxiv \in known}
    /\ Ends(w, "idle")
    /\ UNCHANGED <<papers, corpus, embedded, pages, kept, runs, faults, searches>>

\* Another execution's backfill has chosen other representatives since.
LoseRepresentatives(w) ==
    /\ worker[w].at = "materializing"
    /\ ~ (Range(worker[w].best) \subseteq ArxivOf(Ranked))
    /\ Ends(w, "unranked")
    /\ UNCHANGED <<runs, stored, faults, searches>>

\* All are representatives still, but arXiv's answer gives one a version older
\* than the current local one, which ingestion may have stored meanwhile: the
\* transaction is rolled back.
RefuseMetadata(w) ==
    /\ worker[w].at = "materializing"
    /\ Range(worker[w].best) \cap ArxivOf(Ranked) # {}
    /\ Ends(w, "outdated")
    /\ UNCHANGED <<runs, stored, faults, searches>>

\* The provider, the embeddings or the deadline.
Fault(w) ==
    /\ faults < MaxFaults /\ worker[w].at \in {"paging", "finishing"}
    /\ Moves(w, "failing") /\ faults' = faults + 1
    /\ UNCHANGED <<runs, stored, searches>>

\* fail_historical_backfill, in a transaction of its own.
Fail(w) ==
    LET week == worker[w].week
    IN  /\ worker[w].at = "failing"
        /\ \/ /\ Status(week) = "RUNNING"
              /\ runs' = [runs EXCEPT ![week].status = "FAILED"]
              /\ Ends(w, "idle")
           \/ /\ Status(week) # "RUNNING"
              /\ Ends(w, "superseded") /\ UNCHANGED runs
        /\ UNCHANGED <<stored, faults, searches>>

Crash(w) ==
    /\ faults < MaxFaults /\ worker[w].at \notin Resting
    /\ Ends(w, "idle") /\ faults' = faults + 1
    /\ UNCHANGED <<runs, stored, searches>>

\* A related-work search stores a paper it found.
SearchStores(r) ==
    LET state == Store(Current, r)
    IN  /\ searches < MaxSearches /\ ~ state.ambiguous
        /\ papers' = state.papers /\ corpus' = state.corpus
        /\ embedded' = state.embedded /\ local' = state.local
        /\ searches' = searches + 1
        /\ UNCHANGED <<runs, worker, faults, pages, kept>>

Work(w) ==
    \/ \E week \in Weeks : Begin(w, week)
    \/ Start(w) \/ Choose(w) \/ Fail(w) \/ Fault(w) \/ Crash(w)
    \/ Finalize(w) \/ LoseFinalization(w) \/ RefuseFinalization(w)
    \/ ReadIdentities(w) \/ ReadVersions(w)
    \/ Materialize(w) \/ LoseRepresentatives(w) \/ RefuseMetadata(w)
    \/ \E answer \in Answers :
          \/ StorePage(w, answer) \/ RepeatPage(w, answer) \/ LosePage(w, answer)
          \/ RefusePage(w, answer) \/ AmbiguousPage(w, answer)

Next ==
    \/ \E w \in Workers : Work(w)
    \/ \E r \in Found : SearchStores(r)

Spec == Init /\ [][Next]_vars

-----------------------------------------------------------------------------
\* The types of the state, and what the unique indexes demand: no two rows
\* share a key, an identifier of the provider, an arXiv id or a DOI, however
\* the records that were written into them overlap.
TypeOK ==
    /\ \A p, q \in papers : p # q => Apart(p, q)
    /\ DOMAIN corpus \cup embedded \subseteq Ids(papers) /\ local \subseteq DOMAIN corpus
    /\ \A id \in DOMAIN corpus : corpus[id] \in 0..Limit
    /\ runs \in [Weeks -> Backfills \cup {None}]
    /\ \A w \in Workers :
          /\ worker[w].at \in Resting \cup {"starting", "paging", "finishing",
                                               "failing", "checking", "materializing"}
          /\ worker[w].run \in Backfills \cup {None}

\* The cursor of a backfill never passes a query whose page was not stored
\* and validated, whichever processes resumed, restarted or failed it, and a
\* COMPLETE backfill has asked all of its queries.
CursorCoversPages ==
    \A week \in Weeks : runs[week] # None =>
        /\ 1..runs[week].cursor \subseteq pages[week]
        /\ Status(week) = "COMPLETE" => runs[week].cursor = Plan

\* No paper a page stored is lost to a later merge: one row still stands for
\* it, and has its entry in the corpus and its embedding.
NothingIsLost ==
    \A r \in kept : \E p \in papers :
        r \in p.of /\ p.id \in DOMAIN corpus /\ p.id \in embedded

\* The representatives all come from one choice: their ranks are 1, 2, ... up
\* to at most as many as one of the backfills chose, as every reader of them
\* asserts, and each has an arXiv id.  A local version belongs to one too.
RepresentativesAreOneChoice ==
    LET chosen == {runs[week].representatives : week \in {k \in Weeks : runs[k] # None}}
    IN  /\ {corpus[id] : id \in Ranked} = 1..Cardinality(Ranked)
        /\ None \notin ArxivOf(Ranked \cup local)
        /\ Ranked # {} => \E n \in chosen : Cardinality(Ranked) <= n
=============================================================================
