------------------------ MODULE DailyPipelineProofs ------------------------
(***************************************************************************)
(* Proofs about DailyPipeline, for every set of executions, versions and   *)
(* workers and every bound: what its rows say of each other, and that it   *)
(* implements DailyPublication.                                            *)
(***************************************************************************)
EXTENDS DailyPipeline, TLAPS

----------------------------------------------------------------------------
(* The inductive invariant *)

PastBackfill == {"relate", "publish", "finish", "complete"}
PastAnalyze  == {"backfill"} \cup PastBackfill
PastDecide   == {"analyze"} \cup PastAnalyze
PastIngest   == {"select", "decide"} \cup PastDecide
Underway     == {"ingest"} \cup PastIngest

\* The lock of an execution: nobody else works on it.
Exclusive ==
    \A u, w \in Workers :
        u # w /\ pc[u] # "idle" /\ pc[w] # "idle" => job[u] # job[w]

\* What a worker has found or made of the rows when it comes to a step.
Own(w) ==
    LET e == job[w] IN
    /\ pc[w] \in Underway => exec[e].status = "RUNNING"
    /\ pc[w] \in PastIngest => candidates[e] # None
    /\ pc[w] = "decide" => decision[e] \in {None, view[w]}
    /\ pc[w] \in PastDecide => decision[e] # None
    /\ pc[w] \in PastAnalyze => analysis[e].status \in Finished
    /\ pc[w] \in PastBackfill => decision[e] = {} \/ Date[e] \in backfilled
    /\ pc[w] \in {"publish", "finish"} => StartedBy(e, e)
    /\ pc[w] = "finish" => product[e].status = "RUNNING"
    /\ pc[w] = "complete" => product[e].status \in Finished

\* The inputs of a product run are of its execution's own analysis.
InputsAreOwn(e) ==
    /\ Ready(e) \subseteq analysis[e].done
    /\ \A a, b \in product[e].inputs : a.contract = b.contract
    /\ \A a \in product[e].inputs : a.revision = Revision(e)

\* The rows of an execution come into being in the order of the stages.
RowsAgree(e) ==
    /\ decision[e] = None => analysis[e].done = {}
    /\ decision[e] # None => analysis[e].done \subseteq decision[e]
    /\ InputsAreOwn(e)
    /\ product[e].status # "ABSENT" =>
          decision[e] # None /\ analysis[e].status \in Finished /\ StartedBy(e, e)
    /\ product[e].status \in Finished => product[e].status = Outcome(e)
    /\ exec[e].status \in Finished => ReplayEnvelope(e) /\ exec[e].status = product[e].status

\* Starts are totally ordered.
StartsAreOrdered ==
    \A e, f \in Executions :
        /\ StartedBy(e, f) => StartedBy(e, e) /\ StartedBy(f, f)
        /\ StartedBy(e, e) /\ StartedBy(f, f) => StartedBy(e, f) \/ StartedBy(f, e)
        /\ StartedBy(e, f) /\ StartedBy(f, e) => e = f
        /\ \A g \in Executions : StartedBy(e, f) /\ StartedBy(f, g) => StartedBy(e, g)

\* One published revision of a date was started last.
Newest(d, e) == e \in PublishedOn(d) /\ \A f \in PublishedOn(d) : StartedBy(f, e)
NewestExists == \A d \in Dates : PublishedOn(d) # {} => \E e \in Executions : Newest(d, e)

PipelineInv ==
    /\ TypeOK
    /\ Exclusive
    /\ \A w \in Workers : Own(w)
    /\ \A e \in Executions : RowsAgree(e)
    /\ StartsAreOrdered
    /\ NewestExists

----------------------------------------------------------------------------
(* Rows *)

ExecRows == [status : Statuses, contract : 1 .. Contracts, expired : BOOLEAN]
AnalysisRows == [status : Statuses, done : SUBSET Versions, backed : SUBSET Identities]
ProductRows == [status : Statuses, inputs : SUBSET Identities]

LEMMA StatusesType == Finished \subseteq Statuses /\ {"ABSENT", "RUNNING", "FAILED"} \subseteq Statuses
  BY DEF Statuses

LEMMA ExecRow ==
    ASSUME NEW row \in ExecRows, NEW s \in Statuses
    PROVE  /\ [row EXCEPT !.status = s] \in ExecRows
           /\ [row EXCEPT !.status = s].status = s
           /\ [row EXCEPT !.status = s].contract = row.contract
           /\ [row EXCEPT !.expired = TRUE] \in ExecRows
           /\ [row EXCEPT !.expired = TRUE].status = row.status
           /\ [row EXCEPT !.expired = TRUE].contract = row.contract
  BY DEF ExecRows

LEMMA ProductRow ==
    ASSUME NEW row \in ProductRows, NEW s \in Statuses
    PROVE  /\ [row EXCEPT !.status = s] \in ProductRows
           /\ [row EXCEPT !.status = s].status = s
           /\ [row EXCEPT !.status = s].inputs = row.inputs
  BY DEF ProductRows

LEMMA AnalysisRow ==
    ASSUME NEW row \in AnalysisRows, NEW d \in SUBSET Versions
    PROVE  /\ [row EXCEPT !.status = "FAILED", !.done = d] \in AnalysisRows
           /\ [row EXCEPT !.status = "FAILED", !.done = d].status = "FAILED"
           /\ [row EXCEPT !.status = "FAILED", !.done = d].done = d
  BY DEF AnalysisRows, Statuses

----------------------------------------------------------------------------
(* What a step of a worker leaves alone *)

\* Rows of other executions and other workers; the row of a publication that is
\* out; the order of the starts, unless the execution starts to publish.
Frame(w, e) ==
    /\ \A f \in Executions \ {e} :
          /\ exec'[f] = exec[f] /\ candidates'[f] = candidates[f] /\ decision'[f] = decision[f]
          /\ analysis'[f] = analysis[f] /\ product'[f] = product[f]
    /\ \A u \in Workers \ {w} : pc'[u] = pc[u] /\ job'[u] = job[u] /\ view'[u] = view[u]
    /\ pc'[w] = "idle" \/ job'[w] = e
    /\ backfilled \subseteq backfilled'
    /\ e \in Published => product'[e] = product[e] /\ decision'[e] = decision[e]
    /\ \/ starts' = starts
       \/ starts' = StartsLast(e) /\ e \notin Published /\ product' = product

\* Starting last does not disturb the order of the others.
LEMMA StartsLastOrder ==
    ASSUME NEW e \in Executions, starts' = StartsLast(e),
           NEW f \in Executions, NEW g \in Executions
    PROVE  /\ f # e /\ g # e =>
                (StartedBy(f, g)' <=> StartedBy(f, g) /\ StartedBy(f, f) /\ StartedBy(g, g))
           /\ g = e => (StartedBy(f, g)' <=> f = e \/ StartedBy(f, f))
           /\ f = e /\ g # e => ~StartedBy(f, g)'
  BY DEF StartsLast, StartedBy

LEMMA StartedStays ==
    ASSUME NEW w \in Workers, NEW e \in Executions, Frame(w, e), NEW f \in Executions, StartedBy(f, f)
    PROVE  StartedBy(f, f)'
<1>1. CASE starts' = starts
  BY <1>1 DEF StartedBy
<1>2. CASE starts' = StartsLast(e)
  BY <1>2, StartsLastOrder
<1>3. QED
  BY <1>1, <1>2 DEF Frame

LEMMA OrderStep ==
    ASSUME StartsAreOrdered, NEW w \in Workers, NEW e \in Executions, Frame(w, e)
    PROVE  StartsAreOrdered'
<1>1. CASE starts' = starts
  BY <1>1 DEF StartsAreOrdered, StartedBy
<1>2. CASE starts' = StartsLast(e)
  <2> DEFINE S(f) == StartedBy(f, f)
             Before(f, g) == StartedBy(f, g)
  <2>1. ASSUME NEW f \in Executions, NEW g \in Executions
        PROVE  Before(f, g)' <=> \/ f # e /\ g # e /\ Before(f, g)
                                 \/ g = e /\ (f = e \/ S(f))
    BY <1>2, StartsLastOrder DEF StartsAreOrdered
  <2>2. ASSUME NEW f \in Executions, NEW g \in Executions
        PROVE  /\ Before(f, g) => S(f) /\ S(g)
               /\ S(f) /\ S(g) => Before(f, g) \/ Before(g, f)
               /\ Before(f, g) /\ Before(g, f) => f = g
               /\ \A h \in Executions : Before(f, g) /\ Before(g, h) => Before(f, h)
    BY DEF StartsAreOrdered
  <2> SUFFICES ASSUME NEW f \in Executions, NEW g \in Executions, NEW h \in Executions
               PROVE  /\ Before(f, g)' => S(f)' /\ S(g)'
                      /\ S(f)' /\ S(g)' => Before(f, g)' \/ Before(g, f)'
                      /\ Before(f, g)' /\ Before(g, f)' => f = g
                      /\ Before(f, g)' /\ Before(g, h)' => Before(f, h)'
    BY DEF StartsAreOrdered
  <2> HIDE DEF Before
  <2>3. /\ S(f)' <=> f = e \/ S(f)
        /\ S(g)' <=> g = e \/ S(g)
    BY <2>1 DEF Before
  <2> HIDE DEF S
  <2>4. QED
    BY <2>1, <2>2, <2>3
<1>3. QED
  BY <1>1, <1>2 DEF Frame

\* What is published stays, and at most one execution publishes in a step.
LEMMA PublishedGrows ==
    ASSUME NEW w \in Workers, NEW e \in Executions, Frame(w, e)
    PROVE  /\ Published \subseteq Published'
           /\ Published' \subseteq Published \cup {e}
           /\ starts' # starts => Published' = Published
  BY DEF Frame, Published

LEMMA NewestStep ==
    ASSUME PipelineInv, NEW w \in Workers, NEW e \in Executions, Frame(w, e), RowsAgree(e)'
    PROVE  NewestExists'
<1> SUFFICES ASSUME NEW d \in Dates, PublishedOn(d)' # {}
             PROVE  \E f \in Executions : Newest(d, f)'
  BY DEF NewestExists, Dates
<1>1. StartsAreOrdered /\ StartsAreOrdered'
  BY OrderStep DEF PipelineInv
<1>2. \A f \in PublishedOn(d) : f \in Executions /\ StartedBy(f, f)
  BY DEF PipelineInv, RowsAgree, PublishedOn, Published, Finished
<1>3. CASE starts' # starts
  <2>1. starts' = StartsLast(e) /\ e \notin Published /\ PublishedOn(d)' = PublishedOn(d)
    BY <1>3, PublishedGrows DEF Frame, PublishedOn
  <2>2. PICK n \in Executions : Newest(d, n)
    BY <2>1 DEF PipelineInv, NewestExists
  <2>3. \A f \in PublishedOn(d) : f # e
    BY <2>1 DEF PublishedOn
  <2>4. \A f \in PublishedOn(d) : StartedBy(f, n)'
    BY <1>2, <2>1, <2>2, <2>3, StartsLastOrder DEF Newest
  <2>5. QED
    BY <2>1, <2>2, <2>4 DEF Newest
<1>4. CASE starts' = starts /\ PublishedOn(d) # {}
  <2>1. PICK n \in Executions : Newest(d, n)
    BY <1>4 DEF PipelineInv, NewestExists
  <2>2. CASE e \notin PublishedOn(d)'
    <3>1. PublishedOn(d)' = PublishedOn(d)
      BY <2>2, PublishedGrows DEF PublishedOn
    <3>2. QED
      BY <1>4, <2>1, <3>1 DEF Newest, StartedBy
  <2>3. CASE e \in PublishedOn(d)'
    <3>1. PublishedOn(d)' = PublishedOn(d) \cup {e}
      BY <2>3, PublishedGrows DEF PublishedOn
    <3>2. StartedBy(e, e)'
      BY <2>3 DEF RowsAgree, PublishedOn, Published, Finished
    <3>3. StartedBy(e, e) /\ StartedBy(n, n)
      BY <1>2, <1>4, <2>1, <3>2 DEF StartedBy, Newest
    <3>4. CASE StartedBy(e, n)
      <4>1. Newest(d, n)'
        BY <1>4, <2>1, <3>1, <3>4 DEF Newest, StartedBy
      <4>2. QED
        BY <4>1
    <3>5. CASE StartedBy(n, e)
      <4>1. \A f \in PublishedOn(d) : StartedBy(f, e)
        BY <1>1, <1>2, <2>1, <3>5 DEF Newest, StartsAreOrdered
      <4>2. Newest(d, e)'
        BY <1>4, <2>3, <3>1, <3>2, <4>1 DEF Newest, StartedBy
      <4>3. QED
        BY <4>2
    <3>6. QED
      BY <1>1, <3>3, <3>4, <3>5 DEF StartsAreOrdered
  <2>4. QED
    BY <2>2, <2>3
<1>5. CASE starts' = starts /\ PublishedOn(d) = {}
  <2>1. PublishedOn(d)' = {e}
    BY <1>5, PublishedGrows DEF PublishedOn
  <2>2. StartedBy(e, e)'
    BY <2>1 DEF RowsAgree, PublishedOn, Published, Finished
  <2>3. Newest(d, e)'
    BY <2>1, <2>2 DEF Newest
  <2>4. QED
    BY <2>3
<1>6. QED
  BY <1>3, <1>4, <1>5

\* A step keeps the invariant if it keeps it for its worker and its execution.
LEMMA LocalStep ==
    ASSUME PipelineInv, NEW w \in Workers, NEW e \in Executions, e = job[w], pc[w] # "idle",
           Frame(w, e), TypeOK', Own(w)', RowsAgree(e)'
    PROVE  PipelineInv'
<1>1. ASSUME NEW u \in Workers PROVE Own(u)'
  <2>1. CASE u = w
    BY <2>1
  <2>2. CASE u # w /\ pc[u] = "idle"
    <3>1. pc'[u] = "idle"
      BY <2>2 DEF Frame
    <3>2. QED
      BY <3>1 DEF Own, Underway, PastIngest, PastDecide, PastAnalyze, PastBackfill
  <2>3. CASE u # w /\ pc[u] # "idle"
    <3>1. PICK f \in Executions : f = job[u] /\ f # e
      BY <2>3 DEF PipelineInv, Exclusive, TypeOK
    <3>2. pc'[u] = pc[u] /\ job'[u] = f /\ view'[u] = view[u]
      BY <2>3, <3>1 DEF Frame
    <3>3. /\ exec'[f] = exec[f] /\ candidates'[f] = candidates[f] /\ decision'[f] = decision[f]
          /\ analysis'[f] = analysis[f] /\ product'[f] = product[f] /\ backfilled \subseteq backfilled'
      BY <3>1 DEF Frame
    <3>4. StartedBy(f, f) => StartedBy(f, f)'
      BY StartedStays
    <3>5. Own(u)
      BY DEF PipelineInv
    <3>6. QED
      BY <3>1, <3>2, <3>3, <3>4, <3>5 DEF Own, StartedBy
  <2>4. QED
    BY <2>1, <2>2, <2>3
<1>2. ASSUME NEW f \in Executions PROVE RowsAgree(f)'
  <2>1. CASE f = e
    BY <2>1
  <2>2. CASE f # e
    <3>1. /\ exec'[f] = exec[f] /\ candidates'[f] = candidates[f] /\ decision'[f] = decision[f]
          /\ analysis'[f] = analysis[f] /\ product'[f] = product[f] /\ backfilled \subseteq backfilled'
      BY <2>2 DEF Frame
    <3>2. StartedBy(f, f) => StartedBy(f, f)'
      BY StartedStays
    <3>3. RowsAgree(f)
      BY DEF PipelineInv
    <3>4. QED
      BY <3>1, <3>2, <3>3 DEF RowsAgree, InputsAreOwn, ReplayEnvelope, Ready, Outcome, Revision
  <2>3. QED
    BY <2>1, <2>2
<1>3. Exclusive'
  <2> SUFFICES ASSUME NEW u \in Workers, NEW x \in Workers, u # x,
                      pc'[u] # "idle", pc'[x] # "idle"
               PROVE  job'[u] # job'[x]
    BY DEF Exclusive
  <2>1. \A y \in Workers : pc'[y] # "idle" => pc[y] # "idle" /\ job'[y] = job[y]
    BY DEF Frame
  <2>2. QED
    BY <2>1 DEF PipelineInv, Exclusive
<1>4. StartsAreOrdered' /\ NewestExists'
  BY OrderStep, NewestStep DEF PipelineInv
<1>5. QED
  BY <1>1, <1>2, <1>3, <1>4 DEF PipelineInv

----------------------------------------------------------------------------
(* Steps of a worker *)

\* What LocalStep asks of a step of w on e.
Keeps(w, e) == Frame(w, e) /\ TypeOK' /\ Own(w)' /\ RowsAgree(e)'

LEMMA AnyExecutionType == AnyExecution \in Executions
  BY ExecutionsAssumption DEF AnyExecution

\* The worker gives up or leaves.
LEMMA QuitMoves ==
    ASSUME TypeOK, NEW w \in Workers, Raise(w) \/ Leave(w)
    PROVE  /\ pc' \in [Workers -> Steps] /\ job' \in [Workers -> Executions]
           /\ view' \in [Workers -> SUBSET Versions]
           /\ \A u \in Workers \ {w} : pc'[u] = pc[u] /\ job'[u] = job[u] /\ view'[u] = view[u]
           /\ pc'[w] = "idle" \/ job'[w] = job[w]
           /\ Own(w)'
<1>1. CASE Raise(w)
  <2>1. pc'[w] = "failing" /\ job' = job
    BY <1>1 DEF Raise, Goto, TypeOK
  <2>2. Own(w)'
    BY <2>1 DEF Own, Underway, PastIngest, PastDecide, PastAnalyze, PastBackfill
  <2>3. QED
    BY <1>1, <2>1, <2>2 DEF Raise, Goto, TypeOK, Steps
<1>2. CASE Leave(w)
  <2>1. pc'[w] = "idle"
    BY <1>2 DEF Leave, Goto, TypeOK
  <2>2. Own(w)'
    BY <2>1 DEF Own, Underway, PastIngest, PastDecide, PastAnalyze, PastBackfill
  <2>3. QED
    BY <1>2, <2>1, <2>2, AnyExecutionType DEF Leave, Goto, TypeOK, Steps
<1>3. QED
  BY <1>1, <1>2

LEMMA ProceedMoves ==
    ASSUME TypeOK, NEW w \in Workers, NEW step \in Steps, Proceed(w, step)
    PROVE  /\ pc' \in [Workers -> Steps] /\ job' \in [Workers -> Executions]
           /\ view' \in [Workers -> SUBSET Versions]
           /\ \A u \in Workers \ {w} : pc'[u] = pc[u] /\ job'[u] = job[u] /\ view'[u] = view[u]
           /\ pc'[w] = step /\ job'[w] = job[w] /\ view'[w] = view[w]
  BY DEF Proceed, Goto, TypeOK

\* Rows that do not change go on agreeing.
LEMMA RowsStay ==
    ASSUME NEW e \in Executions, RowsAgree(e),
           exec'[e].status = exec[e].status \/ exec'[e].status \notin Finished,
           UNCHANGED <<candidates, decision, analysis, product, backfilled, starts>>
    PROVE  RowsAgree(e)'
  BY DEF RowsAgree, InputsAreOwn, ReplayEnvelope, Ready, Outcome, Revision, StartedBy

\* An attempt ends without writing a row.
LEMMA QuitKeeps ==
    ASSUME PipelineInv, NEW w \in Workers, NEW e \in Executions, e = job[w],
           Raise(w) \/ Leave(w), UNCHANGED <<exec, runs>>, deployed' = deployed,
           faults' \in Nat, expiries' = expiries
    PROVE  Keeps(w, e)
<1>1. TypeOK /\ RowsAgree(e)
  BY DEF PipelineInv
<1>2. Own(w)' /\ TypeOK'
  BY <1>1, QuitMoves DEF TypeOK, runs
<1>3. Frame(w, e)
  BY <1>1, QuitMoves DEF Frame, runs
<1>4. RowsAgree(e)'
  BY <1>1, RowsStay DEF runs
<1>5. QED
  BY <1>2, <1>3, <1>4 DEF Keeps

LEMMA QuitSteps ==
    ASSUME PipelineInv, NEW w \in Workers, NEW e \in Executions, e = job[w],
           \/ Late(w) \/ Contended(w) \/ StageRefused(w) \/ PublicationAbandoned(w)
           \/ StepFails(w) \/ Crash(w)
    PROVE  Keeps(w, e)
<1>1. faults \in Nat
  BY DEF PipelineInv, TypeOK
<1>2. /\ Raise(w) \/ Leave(w)
      /\ UNCHANGED <<exec, runs, deployed, expiries>>
      /\ faults' \in {faults, faults + 1}
  BY DEF Late, Contended, StageRefused, PublicationAbandoned, StepFails, Crash, budgets
<1>3. faults' \in Nat
  BY <1>1, <1>2
<1>4. QED
  BY <1>2, <1>3, QuitKeeps

\* A baseline is made of selections that were published.
LEMMA BaselineType ==
    ASSUME PipelineInv, NEW d
    PROVE  Baseline(d) \subseteq Versions
<1>1. \A e \in PublishedOn(d) : decision[e] \in SUBSET Versions
  BY DEF PublishedOn, Published, Finished, PipelineInv, RowsAgree, TypeOK
<1>2. QED
  BY <1>1 DEF Baseline

LEMMA IngestKeeps ==
    ASSUME PipelineInv, NEW w \in Workers, NEW e \in Executions, e = job[w], Ingest(w)
    PROVE  Keeps(w, e)
<1>1. TypeOK /\ Own(w) /\ RowsAgree(e)
  BY DEF PipelineInv
<1>2. /\ pc[w] = "ingest" /\ Proceed(w, "select")
      /\ UNCHANGED <<deployed, faults, expiries, exec, decision, analysis, stored, backfilled,
                     product, starts>>
  BY DEF Ingest, budgets
<1>3. /\ candidates' \in [Executions -> (SUBSET Versions) \cup {None}]
      /\ candidates'[e] # None
      /\ \A f \in Executions \ {e} : candidates'[f] = candidates[f]
      /\ candidates[e] # None => candidates'[e] = candidates[e]
  <2>1. CASE candidates[e] # None
    <3>1. UNCHANGED candidates
      BY <2>1 DEF Ingest
    <3>2. QED
      BY <1>1, <2>1, <3>1 DEF TypeOK
  <2>2. CASE candidates[e] = None
    <3>1. PICK found \in SUBSET Versions :
            candidates' = [candidates EXCEPT ![e] =
                found \cup (IF Mode[e] = "REPROCESS" THEN Baseline(Date[e]) ELSE {})]
      BY <2>2 DEF Ingest
    <3> DEFINE new == found \cup (IF Mode[e] = "REPROCESS" THEN Baseline(Date[e]) ELSE {})
    <3>2. new \in SUBSET Versions
      BY BaselineType
    <3>3. candidates' = [candidates EXCEPT ![e] = new] /\ new # None
      BY <3>1, <3>2, NoneIsNoValue
    <3> HIDE DEF new
    <3>4. QED
      BY <1>1, <2>2, <3>2, <3>3 DEF TypeOK
  <2>3. QED
    BY <2>1, <2>2
<1>4. "select" \in Steps
  BY DEF Steps
<1>5. TypeOK'
  BY <1>1, <1>2, <1>3, <1>4, ProceedMoves DEF TypeOK
<1>6. Frame(w, e)
  BY <1>1, <1>2, <1>3, <1>4, ProceedMoves DEF Frame
<1>7. Own(w)'
  <2>1. pc'[w] = "select" /\ job'[w] = e
    BY <1>1, <1>2, <1>4, ProceedMoves
  <2>2. exec[e].status = "RUNNING"
    BY <1>1, <1>2 DEF Own, Underway
  <2>3. QED
    BY <1>2, <1>3, <2>1, <2>2 DEF Own, PastIngest, PastDecide, PastAnalyze, PastBackfill
<1>8. RowsAgree(e)'
  BY <1>1, <1>2, <1>3
     DEF RowsAgree, InputsAreOwn, ReplayEnvelope, Ready, Outcome, Revision, StartedBy
<1>9. QED
  BY <1>5, <1>6, <1>7, <1>8 DEF Keeps

\* What is selected are candidates.
LEMMA SelectionType ==
    ASSUME NEW e \in Executions, candidates[e] \in SUBSET Versions
    PROVE  Best(Selectable(e)) \in SUBSET Versions
  BY DEF Best, Selectable

LEMMA SelectKeeps ==
    ASSUME PipelineInv, NEW w \in Workers, NEW e \in Executions, e = job[w], Select(w)
    PROVE  Keeps(w, e)
<1>1. TypeOK /\ Own(w) /\ RowsAgree(e)
  BY DEF PipelineInv
<1> DEFINE chosen == IF decision[e] # None THEN decision[e] ELSE Best(Selectable(e))
<1>2. /\ pc[w] = "select" /\ pc' = [pc EXCEPT ![w] = "decide"]
      /\ view' = [view EXCEPT ![w] = chosen]
      /\ UNCHANGED <<deployed, faults, expiries, exec, candidates, decision, analysis, stored,
                     backfilled, product, starts, job>>
  BY DEF Select, Goto, budgets, runs
<1>3. candidates[e] # None /\ exec[e].status = "RUNNING"
  BY <1>1, <1>2 DEF Own, PastIngest, Underway
<1>4. chosen \in SUBSET Versions /\ decision[e] \in {None, chosen}
  BY <1>1, <1>3, SelectionType DEF TypeOK
<1> HIDE DEF chosen
<1>5. TypeOK'
  BY <1>1, <1>2, <1>4 DEF TypeOK, Steps
<1>6. Frame(w, e)
  BY <1>1, <1>2 DEF Frame, TypeOK
<1>7. Own(w)'
  <2>1. pc'[w] = "decide" /\ job'[w] = e /\ view'[w] = chosen
    BY <1>1, <1>2 DEF TypeOK
  <2>2. QED
    BY <1>2, <1>3, <1>4, <2>1 DEF Own, PastIngest, PastDecide, PastAnalyze, PastBackfill
<1>8. RowsAgree(e)'
  BY <1>1, <1>2, RowsStay
<1>9. QED
  BY <1>5, <1>6, <1>7, <1>8 DEF Keeps

LEMMA DecideKeeps ==
    ASSUME PipelineInv, NEW w \in Workers, NEW e \in Executions, e = job[w], Decide(w)
    PROVE  Keeps(w, e)
<1>1. TypeOK /\ Own(w) /\ RowsAgree(e)
  BY DEF PipelineInv
<1>2. /\ pc[w] = "decide" /\ pc' = [pc EXCEPT ![w] = "analyze"]
      /\ decision' = [decision EXCEPT ![e] = view[w]]
      /\ view' = [view EXCEPT ![w] = {}]
      /\ UNCHANGED <<deployed, faults, expiries, exec, candidates, analysis, stored,
                     backfilled, product, starts, job>>
  BY DEF Decide, Goto, budgets
<1>3. /\ candidates[e] # None /\ exec[e].status = "RUNNING"
      /\ decision[e] \in {None, view[w]}
  BY <1>1, <1>2 DEF Own, PastIngest, Underway
<1>4. view[w] \in SUBSET Versions /\ view[w] # None
  BY <1>1, NoneIsNoValue DEF TypeOK
<1>5. TypeOK'
  BY <1>1, <1>2, <1>4 DEF TypeOK, Steps
<1>6. decision'[e] = view[w] /\ \A f \in Executions \ {e} : decision'[f] = decision[f]
  BY <1>1, <1>2 DEF TypeOK
<1>7. product[e].status # "ABSENT" => decision'[e] = decision[e]
  BY <1>1, <1>3, <1>6 DEF RowsAgree
<1>8. Frame(w, e)
  <2>1. e \in Published => decision'[e] = decision[e]
    BY <1>7 DEF Published, Finished
  <2>2. QED
    BY <1>1, <1>2, <1>6, <2>1 DEF Frame, TypeOK
<1>9. Own(w)'
  <2>1. pc'[w] = "analyze" /\ job'[w] = e
    BY <1>1, <1>2 DEF TypeOK
  <2>2. QED
    BY <1>2, <1>3, <1>4, <1>6, <2>1 DEF Own, PastAnalyze, PastBackfill
<1>10. RowsAgree(e)'
  <2>1. analysis[e].done \subseteq decision'[e]
    BY <1>1, <1>3, <1>6 DEF RowsAgree
  <2>2. exec[e].status \notin Finished
    BY <1>3 DEF Finished
  <2>3. decision'[e] # None
    BY <1>4, <1>6
  <2>4. InputsAreOwn(e)'
    BY <1>1, <1>2 DEF RowsAgree, InputsAreOwn, Ready, Revision
  <2>5. product[e].status \in Finished => product[e].status # "ABSENT"
    BY DEF Finished
  <2>6. product[e].status \in Finished => product[e].status = Outcome(e)'
    BY <1>1, <1>2, <1>7, <2>5 DEF RowsAgree, Outcome, Ready
  <2>7. QED
    BY <1>1, <1>2, <2>1, <2>2, <2>3, <2>4, <2>6 DEF RowsAgree, StartedBy
<1>11. QED
  BY <1>5, <1>8, <1>9, <1>10 DEF Keeps

\* Analyses of selected versions have the type of stored ones.
LEMMA AnalysesType ==
    ASSUME TypeOK, NEW e \in Executions, NEW good \in SUBSET Versions
    PROVE  Analyses(e, good) \subseteq Identities
<1>1. exec[e].contract \in 1 .. Contracts
  BY DEF TypeOK
<1>2. Revision(e) \in {Canonical} \cup Executions
  BY DEF Revision
<1>3. QED
  BY <1>1, <1>2 DEF Analyses, Identities

\* An analysis that is not finished has nothing published on it; it gets more
\* of the selected papers done.
LEMMA AnalysisGrows ==
    ASSUME PipelineInv, NEW e \in Executions, exec[e].status \notin Finished,
           decision[e] # None, analysis[e].status \notin Finished,
           NEW good \in SUBSET (decision[e] \ analysis[e].done),
           analysis'[e].done = analysis[e].done \cup good,
           UNCHANGED <<exec, candidates, decision, product>>
    PROVE  RowsAgree(e)'
<1>1. RowsAgree(e)
  BY DEF PipelineInv
<1>2. product[e].status = "ABSENT" /\ product[e].status \notin Finished
  BY <1>1 DEF RowsAgree, Finished
<1>3. analysis'[e].done \subseteq decision[e]
  BY <1>1 DEF RowsAgree
<1>4. InputsAreOwn(e)'
  BY <1>1 DEF RowsAgree, InputsAreOwn, Ready, Revision
<1>5. QED
  BY <1>2, <1>3, <1>4 DEF RowsAgree

LEMMA AnalyzeKeeps ==
    ASSUME PipelineInv, NEW w \in Workers, NEW e \in Executions, e = job[w], Analyze(w)
    PROVE  Keeps(w, e)
<1>1. TypeOK /\ Own(w) /\ RowsAgree(e)
  BY DEF PipelineInv
<1> DEFINE next == IF decision[e] = {} THEN "relate" ELSE "backfill"
<1>2. /\ pc[w] = "analyze" /\ pc' = [pc EXCEPT ![w] = next]
      /\ UNCHANGED <<deployed, faults, expiries, exec, candidates, decision, backfilled,
                     product, starts, job, view>>
  BY DEF Analyze, Goto, budgets
<1>3. exec[e].status = "RUNNING" /\ candidates[e] # None /\ decision[e] # None
  BY <1>1, <1>2 DEF Own, PastDecide, PastIngest, Underway
<1>4. exec[e].status \notin Finished /\ decision[e] \in SUBSET Versions
  BY <1>1, <1>3 DEF Finished, TypeOK
<1>5. /\ analysis' \in [Executions -> AnalysisRows]
      /\ stored' \subseteq Identities
      /\ analysis'[e].status \in Finished
      /\ \A f \in Executions \ {e} : analysis'[f] = analysis[f]
      /\ RowsAgree(e)'
  <2>1. CASE analysis[e].status \in Finished
    <3>1. UNCHANGED <<analysis, stored>>
      BY <2>1 DEF Analyze
    <3>2. RowsAgree(e)'
      BY <1>1, <1>2, <3>1, RowsStay
    <3>3. QED
      BY <1>1, <2>1, <3>1, <3>2 DEF TypeOK, AnalysisRows
  <2>2. CASE analysis[e].status \notin Finished
    <3>1. PICK good \in SUBSET (decision[e] \ analysis[e].done) :
            /\ stored' = stored \cup Analyses(e, good)
            /\ analysis' = [analysis EXCEPT ![e] =
                  [status |-> IF analysis[e].done \cup good = decision[e] THEN "COMPLETE" ELSE "PARTIAL",
                   done |-> analysis[e].done \cup good,
                   backed |-> {a \in stored' : a.version \in analysis[e].done \cup good}]]
      BY <2>2 DEF Analyze
    <3>2. good \in SUBSET Versions /\ analysis[e].done \in SUBSET Versions
      BY <1>1, <1>4 DEF TypeOK
    <3>3. stored' \subseteq Identities
      BY <1>1, <3>1, <3>2, AnalysesType DEF TypeOK
    <3> DEFINE s == IF analysis[e].done \cup good = decision[e] THEN "COMPLETE" ELSE "PARTIAL"
               backed == {a \in stored' : a.version \in analysis[e].done \cup good}
               row == [status |-> s, done |-> analysis[e].done \cup good, backed |-> backed]
    <3>4. s \in Finished /\ s \in Statuses /\ backed \in SUBSET Identities
      BY <3>3 DEF Finished, Statuses
    <3>5. analysis' = [analysis EXCEPT ![e] = row]
      BY <3>1
    <3> HIDE DEF s, backed
    <3>6. /\ row \in AnalysisRows /\ row.status \in Finished
          /\ row.done = analysis[e].done \cup good
      BY <3>2, <3>4 DEF AnalysisRows
    <3> HIDE DEF row
    <3>7. analysis \in [Executions -> AnalysisRows]
      BY <1>1 DEF TypeOK, AnalysisRows
    <3>8. analysis'[e] = row
      BY <3>5, <3>7
    <3>9. RowsAgree(e)'
      BY <1>2, <1>3, <1>4, <2>2, <3>6, <3>8, AnalysisGrows
    <3>10. QED
      BY <3>3, <3>5, <3>6, <3>7, <3>8, <3>9
  <2>3. QED
    BY <2>1, <2>2
<1>6. next \in Steps /\ (next = "relate" => decision[e] = {}) /\ next \in {"relate", "backfill"}
  BY DEF Steps
<1> HIDE DEF next
<1>7. TypeOK'
  BY <1>1, <1>2, <1>5, <1>6 DEF TypeOK, AnalysisRows
<1>8. Frame(w, e)
  BY <1>1, <1>2, <1>5 DEF Frame, TypeOK
<1>9. Own(w)'
  <2>1. pc'[w] = next /\ job'[w] = e
    BY <1>1, <1>2 DEF TypeOK
  <2>2. QED
    BY <1>2, <1>3, <1>5, <1>6, <2>1 DEF Own, PastBackfill
<1>10. QED
  BY <1>5, <1>7, <1>8, <1>9 DEF Keeps

LEMMA AnalyzeInterruptedKeeps ==
    ASSUME PipelineInv, NEW w \in Workers, NEW e \in Executions, e = job[w],
           AnalyzeInterrupted(w)
    PROVE  Keeps(w, e)
<1>1. TypeOK /\ Own(w) /\ RowsAgree(e)
  BY DEF PipelineInv
<1>2. /\ pc[w] = "analyze" /\ (Raise(w) \/ Leave(w))
      /\ faults' = faults + 1 /\ analysis[e].status \notin Finished
      /\ UNCHANGED <<deployed, expiries, exec, candidates, decision, backfilled, product, starts>>
  BY DEF AnalyzeInterrupted
<1>3. exec[e].status \notin Finished /\ decision[e] # None /\ decision[e] \in SUBSET Versions
  <2>1. exec[e].status = "RUNNING" /\ decision[e] # None
    BY <1>1, <1>2 DEF Own, PastDecide, PastIngest, Underway
  <2>2. QED
    BY <1>1, <2>1 DEF Finished, TypeOK
<1>4. PICK good \in SUBSET (decision[e] \ analysis[e].done) :
        /\ stored' = stored \cup Analyses(e, good)
        /\ analysis' = [analysis EXCEPT ![e].status = "FAILED", ![e].done = @ \cup good]
  BY DEF AnalyzeInterrupted
<1> DEFINE d == analysis[e].done \cup good
           row == [analysis[e] EXCEPT !.status = "FAILED", !.done = d]
<1>5. analysis \in [Executions -> AnalysisRows]
  BY <1>1 DEF TypeOK, AnalysisRows
<1>6. analysis' = [analysis EXCEPT ![e] = row]
  BY <1>4, <1>5 DEF AnalysisRows
<1>7. good \in SUBSET Versions /\ d \in SUBSET Versions
  BY <1>3, <1>5 DEF AnalysisRows
<1> HIDE DEF d
<1>8. row \in AnalysisRows /\ row.done = d
  BY <1>5, <1>7, AnalysisRow
<1> HIDE DEF row
<1>9. /\ analysis' \in [Executions -> AnalysisRows] /\ analysis'[e] = row
      /\ \A f \in Executions \ {e} : analysis'[f] = analysis[f]
  BY <1>5, <1>6, <1>8
<1>10. RowsAgree(e)'
  BY <1>2, <1>3, <1>8, <1>9, AnalysisGrows DEF d
<1>11. stored' \subseteq Identities
  BY <1>1, <1>4, <1>7, AnalysesType DEF TypeOK
<1>12. TypeOK' /\ Own(w)'
  BY <1>1, <1>2, <1>9, <1>11, QuitMoves DEF TypeOK, AnalysisRows
<1>13. Frame(w, e)
  BY <1>1, <1>2, <1>9, QuitMoves DEF Frame
<1>14. QED
  BY <1>10, <1>12, <1>13 DEF Keeps

LEMMA BackfillKeeps ==
    ASSUME PipelineInv, NEW w \in Workers, NEW e \in Executions, e = job[w], Backfill(w)
    PROVE  Keeps(w, e)
<1>1. TypeOK /\ Own(w) /\ RowsAgree(e)
  BY DEF PipelineInv
<1>2. /\ pc[w] = "backfill" /\ Proceed(w, "relate")
      /\ backfilled' = backfilled \cup {Date[e]}
      /\ UNCHANGED <<deployed, faults, expiries, exec, candidates, decision, analysis, stored,
                     product, starts>>
  BY DEF Backfill, budgets
<1>3. "relate" \in Steps /\ Date[e] \in Dates
  BY DEF Steps, Dates
<1>4. TypeOK' /\ Frame(w, e)
  BY <1>1, <1>2, <1>3, ProceedMoves DEF TypeOK, Frame
<1>5. pc'[w] = "relate" /\ job'[w] = e
  BY <1>1, <1>2, <1>3, ProceedMoves
<1>6. Own(w)'
  BY <1>1, <1>2, <1>5 DEF Own, PastBackfill, PastAnalyze, PastDecide, PastIngest, Underway
<1>7. RowsAgree(e)'
  BY <1>1, <1>2 DEF RowsAgree, InputsAreOwn, ReplayEnvelope, Ready, Outcome, Revision, StartedBy
<1>8. QED
  BY <1>4, <1>6, <1>7 DEF Keeps

LEMMA BackfillRefusedKeeps ==
    ASSUME PipelineInv, NEW w \in Workers, NEW e \in Executions, e = job[w],
           BackfillRefused(w)
    PROVE  Keeps(w, e)
<1>1. TypeOK /\ Own(w) /\ RowsAgree(e)
  BY DEF PipelineInv
<1>2. /\ pc[w] = "backfill" /\ (Raise(w) \/ Leave(w))
      /\ faults' = faults + 1 /\ backfilled' = backfilled \cup {Date[e]}
      /\ UNCHANGED <<deployed, expiries, exec, candidates, decision, analysis, stored,
                     product, starts>>
  BY DEF BackfillRefused
<1>3. Date[e] \in Dates
  BY DEF Dates
<1>4. TypeOK' /\ Own(w)'
  BY <1>1, <1>2, <1>3, QuitMoves DEF TypeOK
<1>5. Frame(w, e)
  BY <1>1, <1>2, QuitMoves DEF Frame
<1>6. RowsAgree(e)'
  BY <1>1, <1>2 DEF RowsAgree, InputsAreOwn, ReplayEnvelope, Ready, Outcome, Revision, StartedBy
<1>7. QED
  BY <1>4, <1>5, <1>6 DEF Keeps

LEMMA RelateKeeps ==
    ASSUME PipelineInv, NEW w \in Workers, NEW e \in Executions, e = job[w], Relate(w)
    PROVE  Keeps(w, e)
<1>1. TypeOK /\ Own(w) /\ RowsAgree(e)
  BY DEF PipelineInv
<1>2. /\ pc[w] = "relate" /\ Proceed(w, "publish")
      /\ starts' = IF e \in Published THEN starts ELSE StartsLast(e)
      /\ UNCHANGED <<deployed, faults, expiries, exec, candidates, decision, analysis, stored,
                     backfilled, product>>
  BY DEF Relate, budgets
<1>3. "publish" \in Steps
  BY DEF Steps
<1>4. starts' \subseteq Executions \X Executions
  BY <1>1, <1>2 DEF TypeOK, StartsLast
<1>5. Frame(w, e)
  BY <1>1, <1>2, <1>3, ProceedMoves DEF Frame
<1>6. TypeOK'
  BY <1>1, <1>2, <1>3, <1>4, ProceedMoves DEF TypeOK
<1>7. StartedBy(e, e)'
  <2>1. CASE e \in Published
    BY <1>1, <1>2, <2>1 DEF RowsAgree, Published, Finished, StartedBy
  <2>2. CASE e \notin Published
    BY <1>2, <2>2, StartsLastOrder
  <2>3. QED
    BY <2>1, <2>2
<1>8. pc'[w] = "publish" /\ job'[w] = e
  BY <1>1, <1>2, <1>3, ProceedMoves
<1>9. Own(w)'
  BY <1>1, <1>2, <1>7, <1>8
     DEF Own, PastBackfill, PastAnalyze, PastDecide, PastIngest, Underway, StartedBy
<1>10. RowsAgree(e)'
  BY <1>1, <1>2, <1>7 DEF RowsAgree, InputsAreOwn, ReplayEnvelope, Ready, Outcome, Revision
<1>11. QED
  BY <1>5, <1>6, <1>9, <1>10 DEF Keeps

----------------------------------------------------------------------------
(* Publication *)

LEMMA StageKeeps ==
    ASSUME PipelineInv, NEW w \in Workers, NEW e \in Executions, e = job[w], Stage(w)
    PROVE  Keeps(w, e)
<1>1. TypeOK /\ Own(w) /\ RowsAgree(e)
  BY DEF PipelineInv
<1> DEFINE row == [status |-> "RUNNING", inputs |-> Publishable(e)]
<1>2. /\ pc[w] = "publish" /\ Proceed(w, "finish")
      /\ product[e].status = "ABSENT" \/ product[e].status = "FAILED"
      /\ product' = [product EXCEPT ![e] = row]
      /\ UNCHANGED <<deployed, faults, expiries, exec, candidates, decision, analysis, stored,
                     backfilled, starts>>
  BY DEF Stage, MayRestart, budgets
<1>3. "finish" \in Steps
  BY DEF Steps
<1>4. /\ Publishable(e) \in SUBSET Identities
      /\ \A a \in Publishable(e) : /\ a.version \in analysis[e].done
                                   /\ a.contract = exec[e].contract
                                   /\ a.revision = Revision(e)
  BY <1>1 DEF Publishable, TypeOK
<1>5. row \in ProductRows /\ row.status = "RUNNING" /\ row.inputs = Publishable(e)
  BY <1>4 DEF ProductRows, Statuses
<1> HIDE DEF row
<1>6. /\ product' \in [Executions -> ProductRows] /\ product'[e] = row
      /\ \A f \in Executions \ {e} : product'[f] = product[f]
  BY <1>1, <1>2, <1>5 DEF TypeOK, ProductRows
<1>7. TypeOK'
  BY <1>1, <1>2, <1>3, <1>6, ProceedMoves DEF TypeOK, ProductRows
<1>8. e \notin Published
  BY <1>2 DEF Published, Finished
<1>9. Frame(w, e)
  BY <1>1, <1>2, <1>3, <1>6, <1>8, ProceedMoves DEF Frame
<1>10. pc'[w] = "finish" /\ job'[w] = e
  BY <1>1, <1>2, <1>3, ProceedMoves
<1>11. Own(w)'
  BY <1>1, <1>2, <1>5, <1>6, <1>10
     DEF Own, PastBackfill, PastAnalyze, PastDecide, PastIngest, Underway, StartedBy
<1>12. exec[e].status = "RUNNING" /\ analysis[e].status \in Finished /\ decision[e] # None
       /\ StartedBy(e, e)
  BY <1>1, <1>2 DEF Own, PastBackfill, PastAnalyze, PastDecide, PastIngest, Underway
<1>13. InputsAreOwn(e)'
  BY <1>2, <1>4, <1>5, <1>6 DEF InputsAreOwn, Ready, Revision
<1>14. RowsAgree(e)'
  BY <1>1, <1>2, <1>5, <1>6, <1>12, <1>13 DEF RowsAgree, Finished, StartedBy
<1>15. QED
  BY <1>7, <1>9, <1>11, <1>14 DEF Keeps

LEMMA AlreadyPublishedKeeps ==
    ASSUME PipelineInv, NEW w \in Workers, NEW e \in Executions, e = job[w],
           AlreadyPublished(w)
    PROVE  Keeps(w, e)
<1>1. TypeOK /\ Own(w) /\ RowsAgree(e)
  BY DEF PipelineInv
<1>2. /\ pc[w] = "publish" /\ Proceed(w, "complete") /\ product[e].status \in Finished
      /\ UNCHANGED <<deployed, faults, expiries, exec, candidates, decision, analysis, stored,
                     backfilled, product, starts>>
  BY DEF AlreadyPublished, budgets, runs
<1>3. "complete" \in Steps
  BY DEF Steps
<1>4. TypeOK' /\ Frame(w, e)
  BY <1>1, <1>2, <1>3, ProceedMoves DEF TypeOK, Frame
<1>5. pc'[w] = "complete" /\ job'[w] = e
  BY <1>1, <1>2, <1>3, ProceedMoves
<1>6. Own(w)'
  BY <1>1, <1>2, <1>5 DEF Own, PastBackfill, PastAnalyze, PastDecide, PastIngest, Underway
<1>7. QED
  BY <1>1, <1>2, <1>4, <1>6, RowsStay DEF Keeps

\* The status of a product run changes and its inputs stay.
LEMMA ProductStatus ==
    ASSUME TypeOK, NEW e \in Executions, NEW s \in Statuses,
           product' = [product EXCEPT ![e].status = s]
    PROVE  /\ product' \in [Executions -> ProductRows]
           /\ product'[e].status = s /\ product'[e].inputs = product[e].inputs
           /\ \A f \in Executions \ {e} : product'[f] = product[f]
<1> DEFINE row == [product[e] EXCEPT !.status = s]
<1>1. product \in [Executions -> ProductRows]
  BY DEF TypeOK, ProductRows
<1>2. row \in ProductRows /\ row.status = s /\ row.inputs = product[e].inputs
  BY <1>1, ProductRow
<1>3. product' = [product EXCEPT ![e] = row]
  BY <1>1
<1> HIDE DEF row
<1>4. QED
  BY <1>1, <1>2, <1>3

LEMMA OutcomeType == \A e \in Executions : Outcome(e) \in Finished /\ Outcome(e) \in Statuses
  BY DEF Outcome, Finished, Statuses

\* The run ends: as its cards say, or failed.
LEMMA EndPublication ==
    ASSUME PipelineInv, NEW w \in Workers, NEW e \in Executions, e = job[w], pc[w] = "finish",
           NEW s \in {Outcome(e), "FAILED"}, product' = [product EXCEPT ![e].status = s],
           UNCHANGED <<deployed, expiries, exec, candidates, decision, analysis, stored,
                       backfilled, starts>>,
           faults' \in Nat,
           Raise(w) \/ (s = Outcome(e) /\ Proceed(w, "complete"))
    PROVE  Keeps(w, e)
<1>1. TypeOK /\ Own(w) /\ RowsAgree(e)
  BY DEF PipelineInv
<1>2. s \in Statuses
  BY OutcomeType, StatusesType
<1>3. /\ product' \in [Executions -> ProductRows]
      /\ product'[e].status = s /\ product'[e].inputs = product[e].inputs
      /\ \A f \in Executions \ {e} : product'[f] = product[f]
  BY <1>1, <1>2, ProductStatus
<1>4. product[e].status = "RUNNING" /\ exec[e].status = "RUNNING" /\ decision[e] # None
      /\ StartedBy(e, e) /\ analysis[e].status \in Finished
  BY <1>1 DEF Own, PastBackfill, PastAnalyze, PastDecide, PastIngest, Underway
<1>5. e \notin Published
  BY <1>4 DEF Published, Finished
<1>6. RowsAgree(e)'
  <2>1. InputsAreOwn(e)'
    BY <1>1, <1>3 DEF RowsAgree, InputsAreOwn, Ready, Revision
  <2>2. Outcome(e)' = Outcome(e)
    BY <1>3 DEF Outcome, Ready
  <2>3. product'[e].status \in Finished => product'[e].status = Outcome(e)'
    BY <1>3, <2>2 DEF Finished
  <2>4. exec'[e].status \notin Finished
    BY <1>4 DEF Finished
  <2>5. QED
    BY <1>1, <1>4, <2>1, <2>3, <2>4 DEF RowsAgree, StartedBy
<1>7. CASE Raise(w)
  BY <1>1, <1>3, <1>5, <1>6, <1>7, QuitMoves DEF Keeps, Frame, TypeOK, ProductRows
<1>8. CASE s = Outcome(e) /\ Proceed(w, "complete")
  <2>1. "complete" \in Steps
    BY DEF Steps
  <2>2. TypeOK' /\ Frame(w, e)
    BY <1>1, <1>3, <1>5, <1>8, <2>1, ProceedMoves DEF Frame, TypeOK, ProductRows
  <2>3. pc'[w] = "complete" /\ job'[w] = e
    BY <1>1, <1>8, <2>1, ProceedMoves
  <2>4. product'[e].status \in Finished
    BY <1>3, <1>8, OutcomeType
  <2>5. Own(w)'
    BY <1>1, <2>3, <2>4 DEF Own, PastBackfill, PastAnalyze, PastDecide, PastIngest, Underway
  <2>6. QED
    BY <1>6, <2>2, <2>5 DEF Keeps
<1>9. QED
  BY <1>7, <1>8

LEMMA PublicationSteps ==
    ASSUME PipelineInv, NEW w \in Workers, NEW e \in Executions, e = job[w],
           Finish(w) \/ FinishAnswerLost(w) \/ PublicationFails(w)
    PROVE  Keeps(w, e)
<1>1. faults \in Nat
  BY DEF PipelineInv, TypeOK
<1>2. CASE Finish(w)
  BY <1>1, <1>2, EndPublication DEF Finish, Finalize, budgets
<1>3. CASE FinishAnswerLost(w)
  <2>1. faults' \in Nat
    BY <1>1, <1>3 DEF FinishAnswerLost
  <2>2. QED
    BY <1>3, <2>1, EndPublication DEF FinishAnswerLost, Finalize
<1>4. CASE PublicationFails(w)
  <2>1. faults' \in Nat
    BY <1>1, <1>4 DEF PublicationFails
  <2>2. QED
    BY <1>4, <2>1, EndPublication DEF PublicationFails
<1>5. QED
  BY <1>2, <1>3, <1>4

----------------------------------------------------------------------------
(* The end of an attempt *)

\* The row of an execution gets a status and nothing else changes.
LEMMA ExecStatus ==
    ASSUME TypeOK, NEW e \in Executions, NEW s \in Statuses,
           exec' = [exec EXCEPT ![e].status = s]
    PROVE  /\ exec' \in [Executions -> ExecRows]
           /\ exec'[e].status = s /\ exec'[e].contract = exec[e].contract
           /\ \A f \in Executions \ {e} : exec'[f] = exec[f]
<1> DEFINE row == [exec[e] EXCEPT !.status = s]
<1>1. exec \in [Executions -> ExecRows]
  BY DEF TypeOK, ExecRows
<1>2. row \in ExecRows /\ row.status = s /\ row.contract = exec[e].contract
  BY <1>1, ExecRow
<1>3. exec' = [exec EXCEPT ![e] = row]
  BY <1>1
<1> HIDE DEF row
<1>4. QED
  BY <1>1, <1>2, <1>3

\* The execution ends, and the attempt with it or by an error.
LEMMA EndAttempt ==
    ASSUME PipelineInv, NEW w \in Workers, NEW e \in Executions, e = job[w],
           NEW s \in Statuses, exec' = [exec EXCEPT ![e].status = s], Raise(w) \/ Leave(w),
           s \in Finished => ReplayEnvelope(e) /\ s = product[e].status,
           UNCHANGED <<runs, deployed, expiries>>, faults' \in Nat
    PROVE  Keeps(w, e)
<1>1. TypeOK /\ RowsAgree(e)
  BY DEF PipelineInv
<1>2. /\ exec' \in [Executions -> ExecRows]
      /\ exec'[e].status = s
      /\ \A f \in Executions \ {e} : exec'[f] = exec[f]
  BY <1>1, ExecStatus
<1>3. Own(w)' /\ TypeOK'
  BY <1>1, <1>2, QuitMoves DEF TypeOK, runs, ExecRows
<1>4. Frame(w, e)
  BY <1>1, <1>2, QuitMoves DEF Frame, runs
<1>5. RowsAgree(e)'
  BY <1>1, <1>2 DEF RowsAgree, InputsAreOwn, ReplayEnvelope, Ready, Outcome, Revision, StartedBy,
                    runs
<1>6. QED
  BY <1>3, <1>4, <1>5 DEF Keeps

\* At the end everything a replay asks for is there.
LEMMA CompleteRows ==
    ASSUME PipelineInv, NEW w \in Workers, NEW e \in Executions, e = job[w], pc[w] = "complete"
    PROVE  ReplayEnvelope(e) /\ product[e].status \in Finished /\ exec[e].status = "RUNNING"
<1>1. Own(w)
  BY DEF PipelineInv
<1>2. QED
  BY <1>1 DEF Own, ReplayEnvelope, PastBackfill, PastAnalyze, PastDecide, PastIngest, Underway

LEMMA EndSteps ==
    ASSUME PipelineInv, NEW w \in Workers, NEW e \in Executions, e = job[w],
           Complete(w) \/ CompleteAnswerLost(w) \/ Fail(w)
    PROVE  Keeps(w, e)
<1>1. faults \in Nat /\ TypeOK
  BY DEF PipelineInv, TypeOK
<1>2. CASE Complete(w)
  <2>1. /\ pc[w] = "complete" /\ exec' = [exec EXCEPT ![e].status = product[e].status]
        /\ Leave(w) /\ UNCHANGED <<runs, deployed, faults, expiries>>
    BY <1>2 DEF Complete, SetStatus, Result, budgets
  <2>2. ReplayEnvelope(e) /\ product[e].status \in Statuses
    BY <2>1, CompleteRows, StatusesType
  <2>3. QED
    BY <1>1, <2>1, <2>2, EndAttempt
<1>3. CASE CompleteAnswerLost(w)
  <2>1. /\ pc[w] = "complete" /\ exec' = [exec EXCEPT ![e].status = product[e].status]
        /\ Raise(w) /\ UNCHANGED <<runs, deployed, expiries>> /\ faults' = faults + 1
    BY <1>3 DEF CompleteAnswerLost, SetStatus, Result
  <2>2. ReplayEnvelope(e) /\ product[e].status \in Statuses
    BY <2>1, CompleteRows, StatusesType
  <2>3. faults' \in Nat
    BY <1>1, <2>1
  <2>4. QED
    BY <2>1, <2>2, <2>3, EndAttempt
<1>4. CASE Fail(w)
  <2>1. Leave(w) /\ UNCHANGED <<runs, deployed, faults, expiries>>
    BY <1>4 DEF Fail, budgets
  <2>2. CASE MayFail(e)
    <3>1. exec' = [exec EXCEPT ![e].status = "FAILED"]
      BY <1>4, <2>2 DEF Fail, SetStatus
    <3>2. "FAILED" \in Statuses /\ "FAILED" \notin Finished
      BY DEF Statuses, Finished
    <3>3. QED
      BY <1>1, <2>1, <3>1, <3>2, EndAttempt
  <2>3. CASE ~MayFail(e)
    <3>1. UNCHANGED exec
      BY <1>4, <2>3 DEF Fail
    <3>2. QED
      BY <1>1, <2>1, <3>1, QuitKeeps
  <2>4. QED
    BY <2>2, <2>3
<1>5. QED
  BY <1>2, <1>3, <1>4

----------------------------------------------------------------------------
(* Every step keeps the invariant *)

LEMMA WorkerKeeps ==
    ASSUME PipelineInv, NEW w \in Workers, Step(w) \/ Adversity(w)
    PROVE  pc[w] # "idle" /\ \E e \in Executions : e = job[w] /\ Keeps(w, e)
<1>1. PICK e \in Executions : e = job[w]
  BY DEF PipelineInv, TypeOK
<1>2. Keeps(w, e)
  <2>1. CASE Stages(w)
    BY <1>1, <2>1, IngestKeeps, SelectKeeps, DecideKeeps, AnalyzeKeeps, BackfillKeeps, RelateKeeps
       DEF Stages
  <2>2. CASE Publication(w)
    BY <1>1, <2>2, StageKeeps, AlreadyPublishedKeeps, QuitSteps, PublicationSteps DEF Publication
  <2>3. CASE End(w)
    BY <1>1, <2>3, QuitSteps, EndSteps DEF End
  <2>4. CASE Adversity(w)
    BY <1>1, <2>4, QuitSteps, AnalyzeInterruptedKeeps, BackfillRefusedKeeps, PublicationSteps,
       EndSteps
       DEF Adversity
  <2>5. QED
    BY <2>1, <2>2, <2>3, <2>4 DEF Step
<1>3. pc[w] # "idle"
  BY DEF Step, Adversity, Stages, Publication, End, Late, TooLate, Contended, Ingest, Select,
         Decide, Analyze, AnalyzeInterrupted, Backfill, BackfillRefused, Relate, Stage,
         AlreadyPublished, StageRefused, Finish, FinishAnswerLost, PublicationFails,
         PublicationAbandoned, Complete, CompleteAnswerLost, Fail, StepFails, Crash
<1>4. QED
  BY <1>1, <1>2, <1>3

LEMMA WorkerStep ==
    ASSUME PipelineInv, NEW w \in Workers, Step(w) \/ Adversity(w)
    PROVE  PipelineInv'
  BY WorkerKeeps, LocalStep DEF Keeps

\* The rows of executions under a step that changes no row but that of e, and
\* not its status unless it makes it RUNNING.
LEMMA OtherRows ==
    ASSUME PipelineInv, UNCHANGED runs,
           \A f \in Executions : exec'[f].status \in {exec[f].status, "RUNNING"}
    PROVE  /\ \A f \in Executions : RowsAgree(f)'
           /\ StartsAreOrdered' /\ NewestExists'
<1>1. ASSUME NEW f \in Executions PROVE RowsAgree(f)'
  BY RowsStay DEF PipelineInv, runs, Finished
<1>2. StartsAreOrdered'
  BY DEF PipelineInv, StartsAreOrdered, StartedBy, runs
<1>3. Published' = Published
  BY DEF Published, runs
<1>4. NewestExists'
  BY <1>3 DEF PipelineInv, NewestExists, Newest, PublishedOn, StartedBy, runs
<1>5. QED
  BY <1>1, <1>2, <1>4

LEMMA AttemptStep ==
    ASSUME PipelineInv, NEW w \in Workers, NEW e \in Executions, Attempt(w, e)
    PROVE  PipelineInv'
<1>1. TypeOK
  BY DEF PipelineInv
<1>2. /\ pc[w] = "idle" /\ ~Working(e)
      /\ exec' = [exec EXCEPT ![e] = Started(e)]
      /\ pc' = [pc EXCEPT ![w] = "ingest"] /\ job' = [job EXCEPT ![w] = e]
      /\ UNCHANGED <<deployed, faults, expiries, runs, view>>
  BY DEF Attempt, Goto, budgets
<1>3. Started(e) \in ExecRows /\ Started(e).status = "RUNNING"
  <2> DEFINE b == exec[e].status = "RUNNING" /\ exec[e].expired
  <2>1. exec[e].expired \in BOOLEAN /\ deployed \in 1 .. Contracts
    BY <1>1 DEF TypeOK
  <2>2. b \in BOOLEAN
    OBVIOUS
  <2>3. Started(e) = [status |-> "RUNNING", contract |-> deployed, expired |-> b]
    BY DEF Started
  <2> HIDE DEF b
  <2>4. QED
    BY <2>1, <2>2, <2>3 DEF ExecRows, Statuses
<1>4. /\ exec' \in [Executions -> ExecRows] /\ exec'[e].status = "RUNNING"
      /\ \A f \in Executions \ {e} : exec'[f] = exec[f]
  BY <1>1, <1>2, <1>3 DEF TypeOK, ExecRows
<1>5. /\ pc'[w] = "ingest" /\ job'[w] = e
      /\ \A u \in Workers \ {w} : pc'[u] = pc[u] /\ job'[u] = job[u]
  BY <1>1, <1>2 DEF TypeOK
<1>6. TypeOK'
  BY <1>1, <1>2, <1>4 DEF TypeOK, ExecRows, Steps, runs
<1>7. Exclusive'
  BY <1>2, <1>5 DEF PipelineInv, Exclusive, Working
<1>8. ASSUME NEW u \in Workers PROVE Own(u)'
  <2>1. CASE u = w
    BY <1>4, <1>5, <2>1 DEF Own, PastIngest, PastDecide, PastAnalyze, PastBackfill
  <2>2. CASE u # w /\ pc[u] = "idle"
    <3>1. pc'[u] = "idle"
      BY <1>5, <2>2
    <3>2. QED
      BY <3>1 DEF Own, Underway, PastIngest, PastDecide, PastAnalyze, PastBackfill
  <2>3. CASE u # w /\ pc[u] # "idle"
    <3>1. PICK f \in Executions : f = job[u] /\ f # e
      BY <1>1, <1>2, <2>3 DEF Working, TypeOK
    <3>2. exec'[f] = exec[f] /\ pc'[u] = pc[u] /\ job'[u] = f
      BY <1>4, <1>5, <2>3, <3>1
    <3>3. QED
      BY <1>2, <3>1, <3>2 DEF PipelineInv, Own, StartedBy, runs
  <2>4. QED
    BY <2>1, <2>2, <2>3
<1>9. \A f \in Executions : exec'[f].status \in {exec[f].status, "RUNNING"}
  BY <1>4
<1>10. QED
  BY <1>2, <1>6, <1>7, <1>8, <1>9, OtherRows DEF PipelineInv

\* The deadline of an execution passes, or new code is deployed.
LEMMA WorldStep ==
    ASSUME PipelineInv, (\E e \in Executions : DeadlinePasses(e)) \/ Deploy \/ UNCHANGED vars
    PROVE  PipelineInv'
<1>1. TypeOK
  BY DEF PipelineInv
<1>2. /\ TypeOK'
      /\ UNCHANGED <<runs, pc, job, view>>
      /\ \A f \in Executions : exec'[f].status = exec[f].status
  <2>1. CASE \E e \in Executions : DeadlinePasses(e)
    <3>1. PICK e \in Executions : DeadlinePasses(e)
      BY <2>1
    <3>2. UNCHANGED <<deployed, faults, runs, pc, job, view>> /\ expiries' = expiries + 1
      BY <3>1 DEF DeadlinePasses
    <3> DEFINE row == [exec[e] EXCEPT !.expired = TRUE]
    <3>3. exec \in [Executions -> ExecRows]
      BY <1>1 DEF TypeOK, ExecRows
    <3>4. row \in ExecRows /\ row.status = exec[e].status
      BY <3>3, ExecRow, StatusesType
    <3>5. exec' = [exec EXCEPT ![e] = row]
      BY <3>1 DEF DeadlinePasses
    <3> HIDE DEF row
    <3>6. exec' \in [Executions -> ExecRows] /\ \A f \in Executions : exec'[f].status = exec[f].status
      BY <3>3, <3>4, <3>5
    <3>7. QED
      BY <1>1, <3>2, <3>6 DEF TypeOK, ExecRows, runs
  <2>2. CASE Deploy
    <3>1. deployed' \in 1 .. Contracts
      BY <1>1, <2>2, BoundsAssumption DEF Deploy, TypeOK
    <3>2. QED
      BY <1>1, <2>2, <3>1 DEF Deploy, TypeOK, runs
  <2>3. CASE UNCHANGED vars
    BY <1>1, <2>3 DEF vars, TypeOK, runs
  <2>4. QED
    BY <2>1, <2>2, <2>3
<1>3. Exclusive'
  BY <1>2 DEF PipelineInv, Exclusive
<1>4. ASSUME NEW u \in Workers PROVE Own(u)'
  <2>1. PICK f \in Executions : f = job[u]
    BY <1>1 DEF TypeOK
  <2>2. exec'[f].status = exec[f].status /\ job'[u] = f /\ pc'[u] = pc[u] /\ view'[u] = view[u]
    BY <1>2, <2>1
  <2>3. QED
    BY <1>2, <2>1, <2>2 DEF PipelineInv, Own, StartedBy, runs
<1>5. QED
  BY <1>2, <1>3, <1>4, OtherRows DEF PipelineInv

LEMMA PipelineStart == Init => PipelineInv
<1> SUFFICES ASSUME Init PROVE PipelineInv
  OBVIOUS
<1>1. /\ \A w \in Workers : pc[w] = "idle"
      /\ \A e \in Executions : /\ exec[e].status = "ABSENT" /\ candidates[e] = None
                               /\ decision[e] = None /\ analysis[e].done = {}
                               /\ product[e].status = "ABSENT" /\ product[e].inputs = {}
      /\ starts = {}
  BY DEF Init
<1>2. TypeOK
  BY AnyExecutionType, BoundsAssumption DEF Init, TypeOK, Statuses, Steps
<1>3. Exclusive /\ \A w \in Workers : Own(w)
  BY <1>1 DEF Exclusive, Own, Underway, PastIngest, PastDecide, PastAnalyze, PastBackfill
<1>4. \A e \in Executions : RowsAgree(e)
  BY <1>1 DEF RowsAgree, InputsAreOwn, Ready, Finished
<1>5. StartsAreOrdered
  BY <1>1 DEF StartsAreOrdered, StartedBy
<1>6. NewestExists
  BY <1>1 DEF NewestExists, PublishedOn, Published, Finished
<1>7. QED
  BY <1>2, <1>3, <1>4, <1>5, <1>6 DEF PipelineInv

LEMMA PipelineStep == PipelineInv /\ [Next]_vars => PipelineInv'
  BY WorkerStep, AttemptStep, WorldStep DEF Next

\* What the rows of DailyPipeline say of each other holds in every state.
THEOREM PipelineInvariant == Spec => []PipelineInv
  BY PipelineStart, PipelineStep, PTL DEF Spec

----------------------------------------------------------------------------
(* The safety properties *)

\* Every variable keeps its type, whatever the deployments, faults and expiries.
THEOREM TypeCorrect == Spec => []TypeOK
<1>1. PipelineInv => TypeOK
  BY DEF PipelineInv
<1>2. QED
  BY <1>1, PipelineInvariant, PTL

\* An execution that execute_daily_pipeline left terminal can be replayed by
\* _terminal_pipeline_replay, with the status of its report.
THEOREM TerminalExecutionsReplayable == Spec => []TerminalExecutionsReplay
<1>1. PipelineInv => TerminalExecutionsReplay
  BY DEF PipelineInv, RowsAgree, TerminalExecutionsReplay
<1>2. QED
  BY <1>1, PipelineInvariant, PTL

\* What get_product_publication_input finds for a run is of its own analysis,
\* its own revision and one contract, and stays so.
THEOREM RevisionsPublishOwn == Spec => []RevisionsPublishTheirOwnAnalyses
<1>1. PipelineInv => RevisionsPublishTheirOwnAnalyses
  BY DEF PipelineInv, RowsAgree, InputsAreOwn, RevisionsPublishTheirOwnAnalyses, Published
<1>2. QED
  BY <1>1, PipelineInvariant, PTL

----------------------------------------------------------------------------
(* The refinement *)

\* A total order has one greatest element in a set, and CHOOSE finds it.
LEMMA OneGreatest ==
    ASSUME NEW P, NEW S, NEW n \in P, \A f \in P : <<f, n>> \in S,
           \A f, g \in P : <<f, g>> \in S /\ <<g, f>> \in S => f = g
    PROVE  (CHOOSE e \in P : \A f \in P : <<f, e>> \in S) = n
<1> DEFINE Q(e) == e \in P /\ \A f \in P : <<f, e>> \in S
<1>1. Q(n)
  OBVIOUS
<1>2. Q(CHOOSE e : Q(e))
  BY <1>1
<1>3. \A e : Q(e) => e = n
  OBVIOUS
<1>4. QED
  BY <1>2, <1>3

\* Readers get the newest revision of a date.
LEMMA ServedIsNewest ==
    ASSUME StartsAreOrdered, NEW d, NEW n \in Executions, Newest(d, n)
    PROVE  ServedBy(d) = n
<1>1. n \in PublishedOn(d) /\ \A f \in PublishedOn(d) : <<f, n>> \in starts
  BY DEF Newest, StartedBy
<1>2. \A f, g \in PublishedOn(d) : <<f, g>> \in starts /\ <<g, f>> \in starts => f = g
  BY DEF StartsAreOrdered, StartedBy, PublishedOn, Published
<1>3. (CHOOSE e \in PublishedOn(d) : \A f \in PublishedOn(d) : <<f, e>> \in starts) = n
  BY <1>1, <1>2, OneGreatest
<1>4. QED
  BY <1>1, <1>3 DEF ServedBy, StartedBy

LEMMA ServedIsNewestNext ==
    ASSUME StartsAreOrdered', NEW d, NEW n \in Executions, Newest(d, n)'
    PROVE  ServedBy(d)' = n
<1>1. n \in PublishedOn(d)' /\ \A f \in PublishedOn(d)' : <<f, n>> \in starts'
  BY DEF Newest, StartedBy
<1>2. \A f, g \in PublishedOn(d)' : <<f, g>> \in starts' /\ <<g, f>> \in starts' => f = g
  BY DEF StartsAreOrdered, StartedBy, PublishedOn, Published
<1>3. (CHOOSE e \in PublishedOn(d)' : \A f \in PublishedOn(d)' : <<f, e>> \in starts') = n
  BY <1>1, <1>2, OneGreatest
<1>4. QED
  BY <1>1, <1>3 DEF ServedBy, StartedBy

\* Published rows are reports.
LEMMA PublishedReports ==
    ASSUME NEW e \in Executions, TypeOK, RowsAgree(e), e \in Published
    PROVE  /\ Report(e) \in Publishing!Reports
           /\ Report(e) # None
<1>1. /\ decision[e] \in SUBSET Versions /\ Ready(e) \subseteq decision[e]
      /\ product[e].status = IF Ready(e) = decision[e] THEN "COMPLETE" ELSE "PARTIAL"
  BY DEF Published, RowsAgree, InputsAreOwn, Outcome, TypeOK, Finished
<1>2. QED
  BY <1>1, NoneIsNoValue DEF Report, Publishing!Reports

LEMMA PublishedReportsNext ==
    ASSUME NEW e \in Executions, TypeOK', RowsAgree(e)', e \in Published'
    PROVE  Report(e)' \in Publishing!Reports
<1>1. /\ decision'[e] \in SUBSET Versions /\ Ready(e)' \subseteq decision'[e]
      /\ product'[e].status = IF Ready(e)' = decision'[e] THEN "COMPLETE" ELSE "PARTIAL"
  BY DEF Published, RowsAgree, InputsAreOwn, Outcome, TypeOK, Finished
<1>2. QED
  BY <1>1 DEF Report, Publishing!Reports

\* Where the rows a revision is made of stay, so does the revision.
LEMMA RevisionStays ==
    ASSUME NEW f \in Executions, product'[f] = product[f],
           f \in Published => decision'[f] = decision[f]
    PROVE  RevisionOf'[f] = RevisionOf[f]
  BY DEF RevisionOf, Report, Ready, Published

\* A step of w on e publishes e, or no revision changes.
LEMMA RevisionStep ==
    ASSUME PipelineInv, PipelineInv', NEW w \in Workers, NEW e \in Executions, Frame(w, e)
    PROVE  \/ /\ RevisionOf' = RevisionOf
              /\ Published' = Published
           \/ /\ e \notin Published /\ e \in Published' /\ starts' = starts
              /\ Published' = Published \cup {e}
              /\ RevisionOf[e] = None
              /\ RevisionOf'[e] \in Publishing!Reports
              /\ RevisionOf' = [x \in Executions |-> IF x = e THEN RevisionOf'[e] ELSE RevisionOf[x]]
<1>1. \A f \in Executions \ {e} : RevisionOf'[f] = RevisionOf[f]
  BY RevisionStays DEF Frame
<1>2. Published \subseteq Published' /\ Published' \subseteq Published \cup {e}
  BY PublishedGrows
<1>3. /\ RevisionOf = [f \in Executions |-> RevisionOf[f]]
      /\ RevisionOf' = [f \in Executions |-> RevisionOf'[f]]
  BY DEF RevisionOf
<1>4. CASE e \in Published
  <2>1. RevisionOf'[e] = RevisionOf[e]
    BY <1>4, RevisionStays DEF Frame
  <2>2. QED
    BY <1>1, <1>2, <1>3, <1>4, <2>1
<1>5. CASE e \notin Published'
  <2>1. RevisionOf[e] = None /\ RevisionOf'[e] = None
    BY <1>2, <1>5 DEF RevisionOf
  <2>2. QED
    BY <1>1, <1>2, <1>3, <1>5, <2>1
<1>6. CASE e \notin Published /\ e \in Published'
  <2>1. RevisionOf[e] = None /\ RevisionOf'[e] = Report(e)'
    BY <1>6 DEF RevisionOf
  <2>2. Report(e)' \in Publishing!Reports
    BY <1>6, PublishedReportsNext DEF PipelineInv
  <2>3. starts' = starts
    BY <1>6, PublishedGrows
  <2>4. QED
    BY <1>1, <1>2, <1>3, <1>6, <2>1, <2>2, <2>3
<1>7. QED
  BY <1>4, <1>5, <1>6

\* Without a publication readers of a date go on getting the same revision.
LEMMA ServedStays ==
    ASSUME PipelineInv, PipelineInv', NEW w \in Workers, NEW e \in Executions, Frame(w, e),
           NEW d \in Dates, PublishedOn(d)' = PublishedOn(d), Published' = Published
    PROVE  ServedBy(d)' = ServedBy(d)
<1>1. CASE PublishedOn(d) = {}
  BY <1>1 DEF ServedBy
<1>2. CASE PublishedOn(d) # {}
  <2>1. PICK n \in Executions : Newest(d, n)
    BY <1>2 DEF PipelineInv, NewestExists
  <2>2. \A f \in PublishedOn(d) : f \in Executions /\ StartedBy(f, f)
    BY DEF PipelineInv, RowsAgree, PublishedOn, Published, Finished
  <2>3. \A f \in PublishedOn(d) : StartedBy(f, n)'
    <3>1. CASE starts' = starts
      BY <2>1, <3>1 DEF Newest, StartedBy
    <3>2. CASE starts' = StartsLast(e) /\ e \notin Published
      <4>1. \A f \in PublishedOn(d) : f # e
        BY <3>2 DEF PublishedOn
      <4>2. QED
        BY <2>1, <2>2, <3>2, <4>1, StartsLastOrder DEF Newest
    <3>3. QED
      BY <3>1, <3>2 DEF Frame
  <2>4. Newest(d, n)'
    BY <2>1, <2>3 DEF Newest
  <2>5. QED
    BY <2>1, <2>4, ServedIsNewest, ServedIsNewestNext DEF PipelineInv
<1>3. QED
  BY <1>1, <1>2

\* The publication of e puts e before the readers of its date, unless a revision
\* that started later is there already.
LEMMA ServedStep ==
    ASSUME PipelineInv, PipelineInv', NEW w \in Workers, NEW e \in Executions, Frame(w, e),
           e \notin Published, Published' = Published \cup {e}, starts' = starts
    PROVE  \/ ServedOn' = [ServedOn EXCEPT ![Date[e]] = e]
           \/ ServedOn[Date[e]] # None /\ UNCHANGED ServedOn
<1>1. \A d \in Dates : d # Date[e] => PublishedOn(d)' = PublishedOn(d)
  BY DEF PublishedOn
<1>2. \A d \in Dates : d # Date[e] => ServedBy(d)' = ServedBy(d)
  <2> SUFFICES ASSUME NEW d \in Dates, d # Date[e] PROVE ServedBy(d)' = ServedBy(d)
    OBVIOUS
  <2>1. PublishedOn(d)' = PublishedOn(d)
    BY <1>1
  <2>2. QED
    BY <2>1 DEF ServedBy, StartedBy
<1>3. PICK d \in Dates : d = Date[e]
  BY DEF Dates
<1>4. PublishedOn(d)' = PublishedOn(d) \cup {e}
  BY <1>3 DEF PublishedOn
<1>5. PICK n \in Executions : Newest(d, n)'
  BY <1>4 DEF PipelineInv, NewestExists
<1>6. ServedBy(d)' = n
  BY <1>5, ServedIsNewestNext DEF PipelineInv
<1>7. /\ ServedOn = [x \in Dates |-> ServedBy(x)]
      /\ ServedOn' = [x \in Dates |-> ServedBy(x)']
  BY DEF ServedOn, Dates
<1>8. CASE n = e
  BY <1>2, <1>3, <1>6, <1>7, <1>8
<1>9. CASE n # e
  <2>1. Newest(d, n)
    BY <1>4, <1>5, <1>9 DEF Newest, StartedBy
  <2>2. ServedBy(d) = n /\ n # None
    BY <2>1, ServedIsNewest, NoneIsNoValue DEF PipelineInv
  <2>3. QED
    BY <1>2, <1>3, <1>6, <1>7, <2>2
<1>10. QED
  BY <1>8, <1>9

\* A step of a worker ends its execution or its publication, not both.
LEMMA OneEnd ==
    ASSUME PipelineInv, NEW w \in Workers, Step(w) \/ Adversity(w), NEW e \in Executions, e = job[w]
    PROVE  \/ UNCHANGED exec
           \/ exec[e].status \notin Finished /\ UNCHANGED <<product, decision, starts>>
<1>1. CASE Complete(w) \/ CompleteAnswerLost(w)
  <2>1. pc[w] = "complete" /\ UNCHANGED runs
    BY <1>1 DEF Complete, CompleteAnswerLost
  <2>2. QED
    BY <2>1, CompleteRows DEF runs, Finished
<1>2. CASE Fail(w)
  BY <1>2 DEF Fail, MayFail, Finished, runs
<1>3. CASE ~(Complete(w) \/ CompleteAnswerLost(w)) /\ ~Fail(w)
  BY <1>3 DEF Step, Adversity, Stages, Publication, End, Late, Contended, Ingest, Select,
         Decide, Analyze, AnalyzeInterrupted, Backfill, BackfillRefused, Relate, Stage,
         AlreadyPublished, StageRefused, Finish, Finalize, FinishAnswerLost, PublicationFails,
         PublicationAbandoned, StepFails, Crash
<1>4. QED
  BY <1>1, <1>2, <1>3

\* What an execution reports is its revision.
LEMMA OutcomeIsRevision ==
    ASSUME NEW f \in Executions, RowsAgree(f)
    PROVE  OutcomeOf[f] = IF exec[f].status \in Finished THEN RevisionOf[f] ELSE None
<1>1. CASE exec[f].status \in Finished
  <2>1. exec[f].status = product[f].status /\ f \in Published
    BY <1>1 DEF RowsAgree, ReplayEnvelope, Published
  <2>2. [Report(f) EXCEPT !.status = exec[f].status] = Report(f)
    BY <2>1 DEF Report
  <2>3. QED
    BY <1>1, <2>1, <2>2 DEF OutcomeOf, RevisionOf
<1>2. CASE exec[f].status \notin Finished
  BY <1>2 DEF OutcomeOf
<1>3. QED
  BY <1>1, <1>2

LEMMA OutcomeIsRevisionNext ==
    ASSUME NEW f \in Executions, RowsAgree(f)'
    PROVE  OutcomeOf'[f] = IF exec'[f].status \in Finished THEN RevisionOf'[f] ELSE None
<1>1. CASE exec'[f].status \in Finished
  <2>1. exec'[f].status = product'[f].status /\ f \in Published'
    BY <1>1 DEF RowsAgree, ReplayEnvelope, Published
  <2>2. [Report(f)' EXCEPT !.status = exec'[f].status] = Report(f)'
    BY <2>1 DEF Report
  <2>3. QED
    BY <1>1, <2>1, <2>2 DEF OutcomeOf, RevisionOf
<1>2. CASE exec'[f].status \notin Finished
  BY <1>2 DEF OutcomeOf
<1>3. QED
  BY <1>1, <1>2

LEMMA WorkerImplements ==
    ASSUME PipelineInv, PipelineInv', NEW w \in Workers, Step(w) \/ Adversity(w)
    PROVE  Publishing!Next \/ UNCHANGED <<RevisionOf, ServedOn, OutcomeOf>>
<1>1. PICK e \in Executions : e = job[w] /\ Keeps(w, e)
  BY WorkerKeeps
<1>2. Frame(w, e)
  BY <1>1 DEF Keeps
<1>3. /\ OutcomeOf = [f \in Executions |-> IF exec[f].status \in Finished THEN RevisionOf[f] ELSE None]
      /\ OutcomeOf' = [f \in Executions |-> IF exec'[f].status \in Finished THEN RevisionOf'[f] ELSE None]
  <2>1. /\ OutcomeOf = [f \in Executions |-> OutcomeOf[f]]
        /\ OutcomeOf' = [f \in Executions |-> OutcomeOf'[f]]
    BY DEF OutcomeOf
  <2>2. \A f \in Executions : RowsAgree(f) /\ RowsAgree(f)'
    BY DEF PipelineInv
  <2>3. QED
    BY <2>1, <2>2, OutcomeIsRevision, OutcomeIsRevisionNext
<1>4. CASE e \notin Published /\ e \in Published'
  <2>1. /\ starts' = starts /\ Published' = Published \cup {e} /\ RevisionOf[e] = None
        /\ RevisionOf'[e] \in Publishing!Reports
        /\ RevisionOf' = [x \in Executions |-> IF x = e THEN RevisionOf'[e] ELSE RevisionOf[x]]
    BY <1>2, <1>4, RevisionStep
  <2>2. \/ ServedOn' = [ServedOn EXCEPT ![Date[e]] = e]
        \/ ServedOn[Date[e]] # None /\ UNCHANGED ServedOn
    BY <1>2, <1>4, <2>1, ServedStep
  <2>3. UNCHANGED exec
    <3>1. ~(UNCHANGED product)
      BY <1>4 DEF Published
    <3>2. QED
      BY <1>1, <3>1, OneEnd
  <2>4. exec[e].status \notin Finished
    BY <1>4 DEF PipelineInv, RowsAgree, ReplayEnvelope, Published
  <2>5. OutcomeOf' = OutcomeOf
    <3>1. \A f \in Executions : exec[f].status \in Finished => RevisionOf'[f] = RevisionOf[f]
      BY <2>1, <2>4
    <3>2. QED
      BY <1>3, <2>3, <3>1
  <2>6. Publishing!Publish(e)
    BY <2>1, <2>2, <2>5 DEF Publishing!Publish
  <2>7. QED
    BY <2>6 DEF Publishing!Next
<1>5. CASE ~(e \notin Published /\ e \in Published')
  <2>1. RevisionOf' = RevisionOf /\ Published' = Published
    BY <1>2, <1>5, RevisionStep
  <2>2. ServedOn' = ServedOn
    <3>1. \A d \in Dates : ServedBy(d)' = ServedBy(d)
      <4> SUFFICES ASSUME NEW d \in Dates PROVE ServedBy(d)' = ServedBy(d)
        OBVIOUS
      <4>1. PublishedOn(d)' = PublishedOn(d)
        BY <2>1 DEF PublishedOn
      <4>2. QED
        BY <1>2, <2>1, <4>1, ServedStays
    <3>2. QED
      BY <3>1 DEF ServedOn, Dates
  <2>3. \A f \in Executions \ {e} : exec'[f] = exec[f]
    BY <1>2 DEF Frame
  <2>4. CASE exec[e].status \notin Finished /\ exec'[e].status \in Finished
    <3>1. OutcomeOf[e] = None
      BY <1>3, <2>4
    <3>2. e \in Published
      BY <2>1, <2>4 DEF PipelineInv, RowsAgree, ReplayEnvelope, Published
    <3>3. RevisionOf[e] # None
      BY <3>2, PublishedReports DEF PipelineInv, RevisionOf
    <3>4. OutcomeOf' = [OutcomeOf EXCEPT ![e] = RevisionOf[e]]
      BY <1>3, <2>1, <2>3, <2>4
    <3>5. Publishing!Acknowledge(e)
      BY <2>1, <2>2, <3>1, <3>3, <3>4 DEF Publishing!Acknowledge
    <3>6. QED
      BY <3>5 DEF Publishing!Next
  <2>5. CASE ~(exec[e].status \notin Finished /\ exec'[e].status \in Finished)
    <3>1. exec[e].status \in Finished => exec'[e].status \in Finished
      BY <1>1, OneEnd
    <3>2. OutcomeOf' = OutcomeOf
      BY <1>3, <2>1, <2>3, <2>5, <3>1
    <3>3. QED
      BY <2>1, <2>2, <3>2
  <2>6. QED
    BY <2>4, <2>5
<1>6. QED
  BY <1>4, <1>5

\* Attempts begin, deadlines pass and code is deployed unseen by readers.
LEMMA OthersStutter ==
    ASSUME PipelineInv,
           \/ \E w \in Workers, e \in Executions : Attempt(w, e)
           \/ \E e \in Executions : DeadlinePasses(e)
           \/ Deploy
           \/ UNCHANGED vars
    PROVE  UNCHANGED <<RevisionOf, ServedOn, OutcomeOf>>
<1>1. /\ UNCHANGED runs
      /\ \A f \in Executions :
            \/ exec'[f].status = exec[f].status
            \/ exec[f].status \notin Finished /\ exec'[f].status \notin Finished
  <2>1. exec \in [Executions -> ExecRows]
    BY DEF PipelineInv, TypeOK, ExecRows
  <2>2. CASE \E w \in Workers, e \in Executions : Attempt(w, e)
    <3>1. PICK w \in Workers, e \in Executions : Attempt(w, e)
      BY <2>2
    <3>2. /\ UNCHANGED runs /\ exec[e].status \notin Finished
          /\ exec' = [exec EXCEPT ![e] = Started(e)]
      BY <3>1 DEF Attempt
    <3>3. Started(e).status = "RUNNING"
      BY DEF Started
    <3>4. exec'[e].status = "RUNNING" /\ \A f \in Executions \ {e} : exec'[f] = exec[f]
      BY <2>1, <3>2, <3>3
    <3>5. QED
      BY <3>2, <3>4 DEF Finished
  <2>3. CASE \E e \in Executions : DeadlinePasses(e)
    <3>1. PICK e \in Executions : DeadlinePasses(e)
      BY <2>3
    <3>2. UNCHANGED runs /\ exec' = [exec EXCEPT ![e] = [exec[e] EXCEPT !.expired = TRUE]]
      BY <3>1 DEF DeadlinePasses
    <3>3. [exec[e] EXCEPT !.expired = TRUE].status = exec[e].status
      BY <2>1, ExecRow, StatusesType
    <3>4. \A f \in Executions : exec'[f].status = exec[f].status
      BY <2>1, <3>2, <3>3
    <3>5. QED
      BY <3>2, <3>4
  <2>4. CASE Deploy \/ UNCHANGED vars
    BY <2>4 DEF Deploy, vars, runs
  <2>5. QED
    BY <2>2, <2>3, <2>4
<1>2. Published' = Published
  BY <1>1 DEF runs, Published
<1>3. UNCHANGED RevisionOf
  BY <1>1, <1>2 DEF runs, RevisionOf, Report, Ready
<1>4. UNCHANGED ServedOn
  BY <1>1, <1>2 DEF runs, ServedOn, ServedBy, PublishedOn, StartedBy
<1>5. UNCHANGED OutcomeOf
  <2>1. \A f \in Executions : Report(f)' = Report(f)
    BY <1>1 DEF runs, Report, Ready
  <2>2. QED
    BY <1>1, <2>1 DEF OutcomeOf
<1>6. QED
  BY <1>3, <1>4, <1>5

LEMMA PromiseStart == Init => Publishing!Init
<1> SUFFICES ASSUME Init PROVE Publishing!Init
  OBVIOUS
<1>1. \A e \in Executions : exec[e].status \notin Finished /\ e \notin Published
  BY DEF Init, Finished, Published
<1>2. \A d \in Dates : PublishedOn(d) = {}
  BY <1>1 DEF PublishedOn, Published
<1>3. QED
  BY <1>1, <1>2 DEF Publishing!Init, RevisionOf, ServedOn, OutcomeOf, ServedBy, Dates,
                    Publishing!Dates

LEMMA PromiseStep ==
    PipelineInv /\ PipelineInv' /\ [Next]_vars => [Publishing!Next]_(Publishing!vars)
  BY WorkerImplements, OthersStutter DEF Next, Publishing!vars

\* execute_daily_pipeline, with its retries, crashes and concurrent revisions,
\* implements DailyPublication: a published revision never changes, readers move
\* only to the one just published, and success is reported for one's own.
THEOREM PipelineKeepsItsPromise == Spec => KeepsItsPromise
  BY PromiseStart, PromiseStep, PipelineInvariant, PTL
     DEF KeepsItsPromise, Publishing!Spec, Spec
=============================================================================
