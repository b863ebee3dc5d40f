----------------------------- MODULE RelatedWork -----------------------------
(* The search for the related work of one source paper: the loop of the      *)
(* crawler and its budgets, what each of its steps stores, the selection,    *)
(* the choice of the papers to compare with, and the relations a comparison  *)
(* states.  The session is stored and has an identity of its own: a process  *)
(* that finds it COMPLETE uses it as it is, and one that finds it RUNNING or *)
(* FAILED empties it and starts over.                                        *)
(*                                                                           *)
(* The process keeps its candidates in memory, by the provider's identifier, *)
(* while other searches and the backfills may store a record that re-keys or *)
(* merges the very papers it works on.  Texts, scores and model provenance   *)
(* are left out: the provider returns any of the given answers, the models   *)
(* plan and select anything, and ranks are the order of identifiers.  The    *)
(* budgets of a search that is cut short are told apart from its deadline    *)
(* only.                                                                     *)
EXTENDS ExternalPapers

CONSTANTS Records,        \* what the provider knows: [sid, arxiv, doi, date]
          Source, Year,   \* arXiv id of the source paper, and its year
          Corpus,         \* records of the historical corpus, stored before
          Plans,          \* what the crawler's model may plan
          Replies(_, _),  \* tool, target: sets of records it may answer
          Elsewhere,      \* records that other sessions and backfills store
          MaxSteps, MaxQueries, MaxQueue, MaxDepth, MaxCandidates, MaxSelected,
          MaxTargets,     \* papers to compare the source with
          MaxFaults,      \* failures, timeouts and crashes
          MaxStores       \* records stored elsewhere

\* References are asked for before citations.
ExpansionTools ==
    {<<>>, <<"GET_REFERENCES">>, <<"GET_CITATIONS">>, <<"GET_REFERENCES", "GET_CITATIONS">>}

ASSUME SearchAssumption ==
    /\ {MaxSteps, MaxQueries, MaxQueue, MaxDepth, MaxCandidates, MaxSelected,
        MaxTargets, MaxFaults, MaxStores} \subseteq Nat
    /\ \A plan \in Plans : /\ plan.queries \in 1..MaxQueries
                           /\ plan.tools \in ExpansionTools
    \* A key made of an arXiv id is told from one of the provider's identifiers.
    /\ Source \in Nat /\ \A r, q \in Records : r.arxiv # q.sid
    /\ IsFiniteSet(Records) /\ {Corpus, Elsewhere} \subseteq SUBSET Records
    /\ \A r \in Records : r.sid \in Nat /\ {r.arxiv, r.doi} \subseteq Nat \cup {None}

VARIABLES papers,       \* external_paper_stubs
          session,      \* search_sessions, or None
          actions,      \* search_actions, by step
          candidates,   \* search_candidates and their discoveries, by paper
          comparisons,  \* the comparisons persisted for the session
          proc,         \* the process that executes the pipeline
          faults, stores

vars == <<papers, session, actions, candidates, comparisons, proc, faults, stores>>

\* The process ended with an error of the repository's integrity, which no
\* handler of the search catches: it ends the pipeline's execution.
Refusals == {"overrun", "crowded", "overtargeted", "aliased", "outside", "running"}

Resting == {"out"} \cup Refusals

ASSUME NoneIsNoOutcome ==
    None \notin Refusals \cup {"failing", "done", "limit", "timeout", "failed"}

Tools == {"GET_PAPER", "SEARCH_PAPERS", "GET_RECOMMENDATIONS", "GET_REFERENCES",
          "GET_CITATIONS"}

\* What the domain and the checks of the tables admit.  A session rests
\* exactly when it has a reason to, and has failed when that is the reason.
Sessions ==
    {s \in [status : {"RUNNING", "COMPLETE", "FAILED"}, plan : Plans \cup {None},
            stop : {None, "done", "limit", "timeout", "failed"}] :
        /\ (s.status = "RUNNING") <=> (s.stop = None)
        /\ (s.status = "FAILED") <=> (s.stop = "failed")}

ASSUME NoneIsNoSession == None \notin Sessions

\* Only a recommendation is asked for all candidates.
IsAction(a) ==
    /\ a.tool \in Tools /\ a.depth \in 0..MaxDepth
    /\ a.status \in {"RUNNING", "COMPLETED", "FAILED"}
    /\ (a.tool = "GET_RECOMMENDATIONS") <=> (a.target = None)

\* The steps that found a candidate: 0 is the search of the corpus, which is
\* no call.
Discoveries == SUBSET (0..MaxSteps)

\* Every candidate was found by something.
Candidates ==
    [depth : 0..MaxDepth, by : Discoveries \ {{}},
     decision : {"PENDING", "REJECTED", "SELECTED"}, target : BOOLEAN]

\* The target is a paper that is stored, whatever became of its candidate.
Comparisons ==
    [target : {p.arxiv : p \in papers} \ {None}, cites : BOOLEAN, real : BOOLEAN]

\* No plan was made: nothing to ask, nothing to expand.
NoPlan == [queries |-> 0, recommend |-> FALSE, tools |-> <<>>]

Out == [at |-> "out", step |-> 0, asked |-> 0, plan |-> NoPlan, memory |-> <<>>,
        sources |-> {}, queue |-> <<>>, todo |-> <<>>, expanded |-> {},
        stop |-> "done", seen |-> {}, draft |-> None]

NewPaper(r) == [id |-> Identity(r), sid |-> r.sid, arxiv |-> r.arxiv,
                doi |-> r.doi, date |-> r.date, of |-> {r}]

ASSUME CorpusAssumption ==
    \* The unique indexes hold of what was stored before.
    \A r, q \in Corpus : r # q => Apart(NewPaper(r), NewPaper(q))

Init ==
    /\ papers = {NewPaper(r) : r \in Corpus}
    /\ session = None /\ actions = <<>> /\ candidates = <<>> /\ comparisons = {}
    /\ proc = Out /\ faults = 0 /\ stores = 0

work == <<session, actions, comparisons>>

Moves(at) == proc' = [proc EXCEPT !.at = at]

Ends(why) == proc' = [Out EXCEPT !.at = why]

-----------------------------------------------------------------------------
\* What a record stored by any transaction does to the papers and to the
\* candidates of the session.

\* PENDING < REJECTED < SELECTED
Priority(decision) ==
    CASE decision = "PENDING" -> 0 [] decision = "REJECTED" -> 1 [] OTHER -> 2

\* Mutant: the decision on the survivor stands.
SurvivorDecides(found, owners, base) == found[base].decision

\* The stronger decision stands, whichever of the candidates it was made for.
Decided(found, owners, base) ==
    found[CHOOSE id \in owners : \A other \in owners :
        Priority(found[id].decision) >= Priority(found[other].decision)].decision

\* The survivor's candidate, or the first of the duplicates' when it has none,
\* takes the others' discoveries.  Its being a target of a comparison is its
\* own.
MergedCandidate(found, owners, survivor) ==
    LET base == IF survivor \in owners THEN survivor ELSE Min(owners)
    IN  [depth |-> Min({found[id].depth : id \in owners}),
         by |-> UNION {found[id].by : id \in owners},
         decision |-> Decided(found, owners, base),
         target |-> found[base].target]

\* Candidates follow the keys of their papers.
CandidatesAfter(stubs, r, found) ==
    LET owners == Ids(Matching(stubs, r)) \cap DOMAIN found
    IN  [id \in Followed(stubs, r, DOMAIN found) |->
            IF id = Identity(r)
            THEN MergedCandidate(found, owners, Survivor(stubs, r).id)
            ELSE found[id]]

\* One paper of a transaction; the first conflict ends all of it.
Store(state, r) ==
    IF state.ambiguous \/ Ambiguous(state.papers, r)
    THEN [state EXCEPT !.ambiguous = TRUE]
    ELSE [papers     |-> Upserted(state.papers, r),
          candidates |-> CandidatesAfter(state.papers, r, state.candidates),
          ambiguous  |-> FALSE]

Current == [papers |-> papers, candidates |-> candidates, ambiguous |-> FALSE]

\* The papers of a transaction, one after the other in the order of their
\* identifiers.
StoredBy(page) ==
    LET after[n \in 0..Cardinality(page)] ==
            IF n = 0 THEN Current ELSE Store(after[n - 1], InOrder(page)[n])
    IN  after[Cardinality(page)]

-----------------------------------------------------------------------------
\* A page of papers, in the process's memory and in the database.

Bound == Min({MaxQueue, MaxCandidates})

Room == Bound - Cardinality(DOMAIN proc.memory)

InScope(r) == r.date = Year

\* Neither the source nor a record known to be the source.
Retained(page) == {r \in page : r.arxiv # Source /\ r.sid \notin proc.sources}

\* The candidates in memory, by the provider's identifier: the key of the
\* paper is the one of the first record.
Remembered(page, depth) ==
    LET kept == Retained(page)
        sids == {r.sid : r \in kept}
    IN  [sid \in DOMAIN proc.memory \cup sids |->
            IF sid \in DOMAIN proc.memory
            THEN [proc.memory[sid] EXCEPT !.depth =
                    IF sid \in sids THEN Min({@, depth}) ELSE @]
            ELSE [id |-> Identity(CHOOSE r \in kept : r.sid = sid), depth |-> depth]]

\* _persist_candidates: each kept record is a candidate, found by this step,
\* unless the repository has something against the page, in this order.  A
\* candidate in memory has to be a paper with its identifier still.
Outcome(page, depth, step) ==
    LET state == StoredBy(page)
        memory == Remembered(page, depth)
        kept == Retained(page)
        named == {memory[r.sid].id : r \in kept}
        Naming(id) == {r \in kept : memory[r.sid].id = id}
        Before(id) == IF id \in DOMAIN state.candidates
                      THEN state.candidates[id].by ELSE {}
    IN  [papers |-> state.papers,
         memory |-> memory,
         candidates |-> [id \in DOMAIN state.candidates \cup named |->
            IF id \notin named THEN state.candidates[id]
            ELSE [depth |-> Min({memory[r.sid].depth : r \in Naming(id)}),
                  by |-> {step} \cup Before(id),
                  decision |-> "PENDING", target |-> FALSE]],
         refusal |->
            IF kept # {} /\ depth > MaxDepth THEN "overrun"
            ELSE IF \E r \in page : ~ InScope(r) THEN "outside"
            ELSE IF state.ambiguous THEN "failing"
            ELSE IF Cardinality(DOMAIN state.candidates \cup named) > Bound THEN "crowded"
            ELSE IF \E r \in kept : ~ \E p \in state.papers :
                        p.id = memory[r.sid].id /\ p.sid = r.sid THEN "aliased"
            ELSE None]

Accept(outcome) ==
    /\ outcome.refusal = None
    /\ papers' = outcome.papers /\ candidates' = outcome.candidates

\* An identifier conflict is handled, every other refusal ends the process.
Refuse(outcome) ==
    /\ outcome.refusal # None
    /\ IF outcome.refusal = "failing" THEN Moves("failing") ELSE Ends(outcome.refusal)
    /\ UNCHANGED <<papers, candidates>>

-----------------------------------------------------------------------------
\* The session begins: a COMPLETE one is used as it is, any other is emptied.

Open ==
    /\ proc.at \in Resting
    /\ IF session # None /\ session.status = "COMPLETE"
       THEN Moves("reading") /\ UNCHANGED <<session, actions, candidates>>
       ELSE /\ session' = [status |-> "RUNNING", stop |-> None, plan |-> None]
            /\ actions' = <<>> /\ candidates' = <<>>
            /\ proc' = [Out EXCEPT !.at = "local"]
    /\ UNCHANGED <<papers, comparisons, faults, stores>>

\* A paper as a record.
Stub(p) == [sid |-> p.sid, arxiv |-> p.arxiv, doi |-> p.doi, date |-> p.date]

Local == {p \in papers : p.of \cap Corpus # {} /\ InScope(p) /\ p.arxiv # Source}

\* The corpus is searched by words and by vectors, up to a bound.
SearchCorpus ==
    /\ proc.at = "local"
    /\ \E best \in SUBSET Local :
         /\ Cardinality(best) <= Bound
         /\ proc' = [proc EXCEPT !.at = "storing", !.seen = {Stub(p) : p \in best}]
    /\ UNCHANGED <<papers, candidates, work, faults, stores>>

\* What was found is stored in a later transaction.
StoreLocal ==
    /\ proc.at = "storing"
    /\ \E outcome \in {Outcome(proc.seen, 0, 0)} :
         \/ /\ Accept(outcome)
            /\ proc' = [proc EXCEPT !.at = "source", !.seen = {}, !.memory = outcome.memory]
         \/ Refuse(outcome)
    /\ UNCHANGED <<work, faults, stores>>

-----------------------------------------------------------------------------
\* One call of the provider: stored as RUNNING before it is made, and as
\* COMPLETED together with what it found.

Queries == Cardinality({s \in DOMAIN actions : actions[s].tool = "SEARCH_PAPERS"})

\* What start_search_action refuses.
Exceeds(tool, depth) ==
    \/ proc.step + 1 > MaxSteps \/ depth > MaxDepth
    \/ tool = "SEARCH_PAPERS" /\ Queries >= MaxQueries

Call(tool, target, depth) ==
    IF Exceeds(tool, depth) THEN Ends("overrun") /\ UNCHANGED actions
    ELSE /\ actions' = [s \in DOMAIN actions \cup {proc.step + 1} |->
                IF s \in DOMAIN actions THEN actions[s]
                ELSE [tool |-> tool, target |-> target, depth |-> depth, status |-> "RUNNING"]]
         /\ proc' = [proc EXCEPT !.at = "calling", !.step = @ + 1,
                        !.asked = IF tool = "SEARCH_PAPERS" THEN @ + 1 ELSE @,
                        !.todo = IF @ = <<>> THEN @ ELSE Tail(@),
                        !.expanded = IF proc.todo = <<>> THEN @ ELSE @ \cup {<<tool, target>>}]

\* Where the loop goes on once a tool has answered.
Then(tool) ==
    CASE tool = "GET_PAPER" -> "planning"
      [] tool = "SEARCH_PAPERS" -> "querying"
      [] tool = "GET_RECOMMENDATIONS" -> "queueing"
      [] OTHER -> "expanding"

\* The provider's client sorts an answer, and it is cut to what there was room
\* for when it was asked.
Cut(tool, reply) ==
    LET limit == IF tool = "GET_PAPER" THEN 1 ELSE Room
    IN  {r \in reply : Cardinality({q \in reply : q.sid < r.sid}) < limit}

\* Only the source may have been published outside the years of the search.
Page(tool, reply) ==
    {r \in Cut(tool, reply) : tool = "GET_PAPER" \/ InScope(r)}

\* Records that turn out to be the source.
SourceIds(tool, reply) ==
    {r.sid : r \in {k \in Cut(tool, reply) :
        tool = "GET_PAPER" \/ (tool = "SEARCH_PAPERS" /\ k.arxiv = Source)}}

\* Identifiers in their order, as the records of a page are stored.
Sorted(sids) ==
    LET records == InOrder({[sid |-> s] : s \in sids})
    IN  [n \in 1..Cardinality(sids) |-> records[n].sid]

\* New candidates of an expansion are expanded in their turn.
Enqueued(call, after) ==
    IF Then(call.tool) # "expanding" THEN <<>>
    ELSE LET new == Sorted(DOMAIN after \ DOMAIN proc.memory)
         IN  [i \in DOMAIN new |-> <<new[i], call.depth>>]

Answer(call, reply, outcome) ==
    /\ Accept(outcome)
    /\ actions' = [actions EXCEPT ![proc.step].status = "COMPLETED"]
    /\ proc' = [proc EXCEPT !.at = Then(call.tool), !.memory = outcome.memory,
                    !.sources = @ \cup SourceIds(call.tool, reply),
                    !.queue = @ \o Enqueued(call, outcome.memory)]

\* Nothing of a refused answer is stored: its action stays RUNNING.
RefuseAnswer(outcome) == Refuse(outcome) /\ UNCHANGED actions

\* A look-up that answers with another paper than the source has failed.
Resolved(call, reply) ==
    call.tool = "GET_PAPER" => \E r \in Records : r.arxiv = Source /\ reply = {r}

\* An answer has one record of each of the provider's identifiers.
Answers(call) ==
    {reply \in SUBSET Records :
        /\ reply \in Replies(call.tool, call.target)
        /\ \A r, q \in reply : r.sid = q.sid => r = q
        /\ Resolved(call, reply)}

Answered ==
    LET call == actions[proc.step]
    IN  /\ proc.at = "calling"
        /\ \E reply \in Answers(call) :
             \E outcome \in {Outcome(Page(call.tool, reply), call.depth, proc.step)} :
                Answer(call, reply, outcome) \/ RefuseAnswer(outcome)
        /\ UNCHANGED <<session, comparisons, faults, stores>>

\* The provider fails, answers too late or not as it has to; the deadline of
\* the whole search may be what ran out.
CallFails ==
    /\ proc.at = "calling" /\ faults < MaxFaults
    /\ actions' = [actions EXCEPT ![proc.step].status = "FAILED"]
    /\ \/ Moves("failing")
       \/ proc' = [proc EXCEPT !.at = "finishing", !.stop = "timeout"]
    /\ faults' = faults + 1
    /\ UNCHANGED <<papers, candidates, session, comparisons, stores>>

-----------------------------------------------------------------------------
\* The loop of the crawler.

Stops(stop, at) == proc' = [proc EXCEPT !.stop = stop, !.at = at, !.todo = <<>>]

\* The source is looked up by its arXiv id.
AskSource ==
    /\ proc.at = "source"
    /\ IF Room < 1 \/ proc.step >= MaxSteps
       THEN Stops("limit", "selecting") /\ UNCHANGED actions
       ELSE Call("GET_PAPER", Source, 0)
    /\ UNCHANGED <<papers, candidates, session, comparisons, faults, stores>>

\* The crawler's model plans, and the plan is stored.
Plan ==
    /\ proc.at = "planning"
    /\ IF proc.step >= MaxSteps THEN Stops("limit", "selecting") /\ UNCHANGED session
       ELSE \E plan \in Plans :
              /\ session' = [session EXCEPT !.plan = plan]
              /\ proc' = [proc EXCEPT !.at = "querying", !.plan = plan]
    /\ UNCHANGED <<papers, candidates, actions, comparisons, faults, stores>>

\* There is a query left, and a budget for it.
Asks == proc.asked < proc.plan.queries /\ proc.step < MaxSteps /\ Room >= 1

Query ==
    /\ proc.at = "querying"
    /\ CASE Asks -> Call("SEARCH_PAPERS", proc.asked + 1, 0)
         [] ~ Asks /\ (Room < 1 \/ proc.asked >= MaxQueries \/ proc.asked < proc.plan.queries) ->
              Stops("limit", "selecting") /\ UNCHANGED actions
         [] OTHER -> Moves("recommending") /\ UNCHANGED actions
    /\ UNCHANGED <<papers, candidates, session, comparisons, faults, stores>>

Recommend ==
    /\ proc.at = "recommending"
    /\ IF proc.plan.recommend /\ proc.step < MaxSteps /\ DOMAIN proc.memory # {}
       THEN Call("GET_RECOMMENDATIONS", None, 0)
       ELSE Moves("queueing") /\ UNCHANGED actions
    /\ UNCHANGED <<papers, candidates, session, comparisons, faults, stores>>

\* The source is expanded first, then the candidates.
Enqueue ==
    LET known == Sorted(proc.sources)
        rest == Sorted(DOMAIN proc.memory \ proc.sources)
        roots == [i \in DOMAIN known |-> <<known[i], 0>>]
                 \o [i \in DOMAIN rest |-> <<rest[i], proc.memory[rest[i]].depth>>]
    IN  /\ proc.at = "queueing"
        /\ proc' = [proc EXCEPT !.at = "expanding",
                        !.queue = SubSeq(roots, 1, Min({MaxQueue, Len(roots)}))]
        /\ UNCHANGED <<papers, candidates, work, faults, stores>>

\* Mutant: a candidate at the depth bound is expanded too.
ExpandsAnyDepth(depth) == TRUE

\* References and citations of a paper are one step further from the source.
Expands(depth) == depth < MaxDepth

\* The next paper of the queue; one at the depth bound is passed over.
Pop ==
    LET root == Head(proc.queue)
        tools == IF Expands(root[2]) THEN proc.plan.tools ELSE <<>>
    IN  /\ proc.at = "expanding" /\ proc.todo = <<>>
        /\ IF proc.queue = <<>> THEN Moves("selecting")
           ELSE IF proc.step >= MaxSteps \/ Room < 1 THEN Stops("limit", "selecting")
           ELSE proc' = [proc EXCEPT !.queue = Tail(@),
                           !.todo = [i \in DOMAIN tools |-> <<tools[i], root[1], root[2] + 1>>]]
        /\ UNCHANGED <<papers, candidates, work, faults, stores>>

\* One relation of a popped paper.  A step without room for an answer is
\* counted, and no call is made.
Expand ==
    LET next == Head(proc.todo)
        pair == <<next[1], next[2]>>
    IN  /\ proc.at = "expanding" /\ proc.todo # <<>>
        /\ CASE proc.step >= MaxSteps \/ Cardinality(DOMAIN proc.memory) >= MaxCandidates ->
                  proc' = [proc EXCEPT !.todo = <<>>] /\ UNCHANGED actions
             [] OTHER ->
                  IF pair \in proc.expanded
                  THEN proc' = [proc EXCEPT !.todo = Tail(@)] /\ UNCHANGED actions
                  ELSE IF Room < 1
                  THEN /\ proc' = [proc EXCEPT !.todo = Tail(@), !.step = @ + 1,
                                               !.expanded = @ \cup {pair}]
                       /\ UNCHANGED actions
                  ELSE Call(next[1], next[2], next[3])
        /\ UNCHANGED <<papers, candidates, session, comparisons, faults, stores>>

\* The deadline of the search is found to have passed where the loop looks:
\* not when there is nothing left to expand, or nothing to select from.
Deadline ==
    /\ proc.at \in {"local", "storing", "source", "planning", "querying",
                    "recommending", "expanding", "selecting"}
    /\ proc.at = "expanding" => proc.queue # <<>> \/ proc.todo # <<>>
    /\ proc.at = "selecting" => DOMAIN proc.memory # {}
    /\ faults < MaxFaults /\ faults' = faults + 1
    /\ Stops("timeout", "finishing")
    /\ UNCHANGED <<papers, candidates, work, stores>>

\* The embeddings, the crawler's model or the selector's.
ModelFails ==
    /\ proc.at \in {"local", "planning", "selecting"}
    /\ faults < MaxFaults /\ faults' = faults + 1
    /\ Moves("failing")
    /\ UNCHANGED <<papers, candidates, work, stores>>

-----------------------------------------------------------------------------
\* Selection, and the end of the session.

\* The stored candidate of an identifier in memory.
Candidate(sid) ==
    {id \in DOMAIN candidates : RowOf(papers, id).sid = sid}

\* Every candidate in memory has to be stored under its identifier; the ones
\* that the selector does not decide stay PENDING.
Select ==
    LET known == UNION {Candidate(sid) : sid \in DOMAIN proc.memory}
    IN  /\ proc.at = "selecting"
        /\ \/ /\ \A sid \in DOMAIN proc.memory : Candidate(sid) # {}
              /\ \E chosen \in SUBSET known : \E rejected \in SUBSET (known \ chosen) :
                    /\ Cardinality(chosen) <= MaxSelected
                    /\ candidates' = [id \in DOMAIN candidates |->
                         [candidates[id] EXCEPT !.decision =
                            CASE id \in chosen -> "SELECTED"
                              [] id \in rejected -> "REJECTED"
                              [] OTHER -> "PENDING"]]
              /\ Moves("finishing")
           \/ /\ \E sid \in DOMAIN proc.memory : Candidate(sid) = {}
              /\ Ends("aliased") /\ UNCHANGED candidates
        /\ UNCHANGED <<papers, work, faults, stores>>

Running == \E s \in DOMAIN actions : actions[s].status = "RUNNING"

\* Mutant: a session is finished without looking at its actions.
FinishesAnyway == TRUE

\* _finish_search_session: never over an action that is still RUNNING.
MayFinish == ~ Running

Finishes(status, stop, at) ==
    IF MayFinish THEN session' = [session EXCEPT !.status = status, !.stop = stop] /\ Moves(at)
    ELSE Ends("running") /\ UNCHANGED session

Complete ==
    /\ proc.at = "finishing" /\ Finishes("COMPLETE", proc.stop, "reading")
    /\ UNCHANGED <<papers, candidates, actions, comparisons, faults, stores>>

\* The paper is published without related work.
Fail ==
    /\ proc.at = "failing" /\ Finishes("FAILED", "failed", "out")
    /\ UNCHANGED <<papers, candidates, actions, comparisons, faults, stores>>

-----------------------------------------------------------------------------
\* The papers to compare with, and the comparisons.

\* What a reader of the candidates holds on to, but for their being targets.
Projection ==
    {<<id, RowOf(papers, id).sid, candidates[id].depth, candidates[id].decision>> :
        id \in DOMAIN candidates}

Read ==
    /\ proc.at = "reading"
    /\ proc' = [Out EXCEPT !.at = "assigning", !.seen = Projection]
    /\ UNCHANGED <<papers, candidates, work, faults, stores>>

WithArxiv == {id \in DOMAIN candidates : RowOf(papers, id).arxiv # None}

Decisions(ids) == {candidates[id].decision : id \in ids}

\* Papers already analysed are preferred unless the selector rejected them,
\* then selected ones, then any; which are analysed is left open.
Eligible(targets) ==
    \/ "REJECTED" \notin Decisions(targets)
    \/ "SELECTED" \notin Decisions(WithArxiv)

\* The targets were chosen among exactly the candidates that are stored.
SameCandidates(seen) == seen = Projection

\* update_search_comparison_targets
Assign ==
    /\ proc.at = "assigning"
    /\ IF DOMAIN candidates = {} THEN Moves("out") /\ UNCHANGED candidates
       ELSE IF ~ SameCandidates(proc.seen) THEN Ends("aliased") /\ UNCHANGED candidates
       ELSE \E targets \in SUBSET WithArxiv :
              /\ Cardinality(targets) <= MaxTargets /\ Eligible(targets)
              /\ IF Cardinality(targets) > MaxSelected
                 THEN Ends("overtargeted") /\ UNCHANGED candidates
                 ELSE /\ candidates' = [id \in DOMAIN candidates |->
                            [candidates[id] EXCEPT !.target = id \in targets]]
                      /\ Moves("planned")
    /\ UNCHANGED <<papers, work, faults, stores>>

\* What identifies a target: the provider's identifier and the arXiv id.
TargetPairs ==
    {<<RowOf(papers, id).sid, RowOf(papers, id).arxiv>> :
        id \in {own \in DOMAIN candidates : candidates[own].target}}

\* The targets are read after they were chosen, and once more after their
\* papers were stored.
ReadTargets ==
    /\ \E next \in {<<"planned", "materializing">>, <<"materialized", "comparing">>} :
         /\ proc.at = next[1]
         /\ proc' = [proc EXCEPT !.at = next[2], !.seen = TargetPairs]
    /\ UNCHANGED <<papers, candidates, work, faults, stores>>

\* The arXiv papers of the targets that have no local version yet, as far as
\* arXiv answers with them, are stored in one transaction: it fails when one
\* of the targets is no more what it was when it was read.  Which ones have a
\* local version is left open.
Materialize ==
    /\ proc.at = "materializing"
    /\ \E pending \in SUBSET proc.seen :
         IF pending \subseteq TargetPairs THEN Moves("materialized") ELSE Ends("aliased")
    /\ UNCHANGED <<papers, candidates, work, faults, stores>>

Compared(arxiv) == arxiv \in {c.target : c \in comparisons}

Sids == {RowOf(papers, id).sid : id \in DOMAIN candidates}

\* Mutant: any reference found in the search counts.
ReferencedByAny(id) ==
    \E s \in candidates[id].by \ {0} : actions[s].tool = "GET_REFERENCES"

\* A paper is a direct reference of the source when it was found among the
\* references of a paper that is none of the candidates.
Referenced(id) ==
    \E s \in candidates[id].by \ {0} :
        actions[s].tool = "GET_REFERENCES" /\ actions[s].target \notin Sids

\* The provider's identifiers of the source.
SourceRecords == {r.sid : r \in {k \in Records : k.arxiv = Source}}

\* A comparison has the relation CITES when the metadata says so; "real" is
\* history: one of these references was asked of the source.
Bundle(id, arxiv) ==
    [target |-> arxiv, cites |-> Referenced(id),
     real |-> \E s \in candidates[id].by \ {0} :
        actions[s].tool = "GET_REFERENCES" /\ actions[s].target \in SourceRecords]

TargetsOf(arxiv) ==
    {id \in DOMAIN candidates : candidates[id].target /\ RowOf(papers, id).arxiv = arxiv}

Dropped(pair) == [proc EXCEPT !.seen = @ \ {pair}]

\* The session is read and the model drafts a comparison.  A target that has
\* one, or is none any more, or lacks an analysis, or that the model fails
\* on, is passed over.
Draft ==
    /\ proc.at = "comparing"
    /\ \E pair \in proc.seen :
         \/ proc' = Dropped(pair)
         \/ /\ ~ Compared(pair[2])
            /\ \E id \in TargetsOf(pair[2]) :
                 proc' = [Dropped(pair) EXCEPT !.at = "drafted", !.draft = Bundle(id, pair[2])]
    /\ UNCHANGED <<papers, candidates, work, faults, stores>>

\* persist_comparison_bundle: the paper has to be a target of a COMPLETE
\* session still.
Compare ==
    /\ proc.at = "drafted"
    /\ IF session.status = "COMPLETE" /\ TargetsOf(proc.draft.target) # {}
       THEN /\ comparisons' = comparisons \cup {proc.draft}
            /\ proc' = [proc EXCEPT !.at = "comparing", !.draft = None]
       ELSE Ends("aliased") /\ UNCHANGED comparisons
    /\ UNCHANGED <<papers, candidates, session, actions, faults, stores>>

\* The paper is published, with the comparisons there are.
Leave ==
    /\ proc.at = "comparing" /\ proc.seen = {} /\ Moves("out")
    /\ UNCHANGED <<papers, candidates, work, faults, stores>>

Crash ==
    /\ proc.at \notin Resting /\ faults < MaxFaults
    /\ Ends("out") /\ faults' = faults + 1
    /\ UNCHANGED <<papers, candidates, work, stores>>

\* Another search or a backfill stores a record.
StoreElsewhere(r) ==
    LET state == StoredBy({r})
    IN  /\ stores < MaxStores /\ ~ state.ambiguous
        /\ papers' = state.papers /\ candidates' = state.candidates
        /\ stores' = stores + 1
        /\ UNCHANGED <<work, proc, faults>>

Work ==
    \/ Open \/ SearchCorpus \/ StoreLocal \/ AskSource \/ Plan \/ Query \/ Recommend
    \/ Enqueue \/ Pop \/ Expand \/ Answered \/ Select \/ Complete \/ Fail
    \/ Read \/ Assign \/ ReadTargets \/ Materialize \/ Draft \/ Compare \/ Leave

Next ==
    \/ Work \/ CallFails \/ Deadline \/ ModelFails \/ Crash
    \/ \E r \in Elsewhere : StoreElsewhere(r)

Spec == Init /\ [][Next]_vars

-----------------------------------------------------------------------------
\* The records of each paper of the provider have an arXiv id or a DOI in common,
\* unless none has any.  Nothing sees to it: the provider is trusted with it.
OneIdentity ==
    \A r \in Records :
        LET same == {q \in Records : q.sid = r.sid}
        IN  \/ r.arxiv # None /\ \A q \in same : q.arxiv = r.arxiv
            \/ r.doi # None /\ \A q \in same : q.doi = r.doi
            \/ \A q \in same : q.arxiv = None /\ q.doi = None

\* As many papers may be selected as are compared.  Nothing sees to it: the
\* options of the command are two.
LimitsAgree == MaxTargets <= MaxSelected

\* What is stored is within the limits of the session, and the loop's own counts
\* in memory keep it from being refused for its steps, queries and depth.  For
\* its candidates it is refused only when the provider has named one paper by
\* records that have nothing in common, and for its targets only when the limits
\* of the command disagree.
LoopStaysInLimits ==
    /\ proc.at # "overrun"
    /\ proc.at = "crowded" => ~ OneIdentity
    /\ proc.at = "overtargeted" => ~ LimitsAgree
    /\ Queries <= MaxQueries /\ Cardinality(DOMAIN candidates) <= Bound
    /\ \A s \in DOMAIN actions : s <= MaxSteps /\ actions[s].depth <= MaxDepth

\* The types of the state; no two candidates are one paper, and a candidate
\* is always a stored paper, however papers were re-keyed and merged.  The
\* loop stays in the limits of its session, as above.
TypeOK ==
    /\ \A p, q \in papers : p # q => p.id # q.id /\ p.sid # q.sid
    /\ DOMAIN candidates \subseteq Ids(papers)
    /\ session \in Sessions \cup {None}
    /\ \A s \in DOMAIN actions : IsAction(actions[s])
    /\ \A id \in DOMAIN candidates :
          candidates[id] \in Candidates /\ candidates[id].by \subseteq {0} \cup DOMAIN actions
    /\ comparisons \subseteq Comparisons /\ proc.step \in 0..MaxSteps
    /\ LoopStaysInLimits

\* A session that is finished has no call under way, and every candidate was
\* found by the corpus or by a call that completed.
TerminalSessionsAreClosed ==
    session # None /\ session.status # "RUNNING" =>
        /\ ~ Running
        /\ \A id \in DOMAIN candidates : \A s \in candidates[id].by \ {0} :
              actions[s].status = "COMPLETED"
        /\ Cardinality({id \in DOMAIN candidates :
              candidates[id].decision = "SELECTED"}) <= MaxSelected

Chosen == {p \in papers : p.id \in DOMAIN candidates /\ candidates[p.id].decision = "SELECTED"}

\* A COMPLETE session stays as it is, and a record that stood behind a
\* selected candidate still does after any merge of papers.
FinishedSessionsKeepTheirWork ==
    [][session # None /\ session.status = "COMPLETE" =>
        /\ session' = session /\ actions' = actions
        /\ \A p \in Chosen : \E q \in Chosen' : p.of \subseteq q.of]_vars

\* A relation CITES is only stored for a reference of the source itself, as
\* long as the search was not cut short by its deadline and no other
\* transaction gives a candidate a new identifier: a selection has found the
\* papers that were asked for among the candidates.
CitationsAreTheSources ==
    stores = 0 /\ session # None /\ session.stop # "timeout" =>
        \A c \in comparisons : c.cites => c.real

\* What the justification of every stored relation CITES says: the metadata
\* lists the paper as a direct reference of the source paper.
CitesIsADirectReference == \A c \in comparisons : c.cites => c.real
=============================================================================
