------------------------- MODULE PublicationProofs -------------------------
(***************************************************************************)
(* Proofs about Publication, for every graph, set of runs, workers and     *)
(* windows, and every bound.                                               *)
(***************************************************************************)
EXTENDS Publication, FiniteSetTheorems, WellFoundedInduction, TLAPS

----------------------------------------------------------------------------
(* Attempts *)

Finished == {"COMPLETE", "PARTIAL"}
Statuses == {"ABSENT", "RUNNING", "FAILED"} \cup Finished

\* The run is being staged here, and here somebody has begun to stage it.
Staging == {"paper", "corpus", "aggregate", "publish", "delete"}
Inside  == Staging \cup {"discard"}
Places  == Inside \cup {"idle", "begin"}

Attempt(w) ==
    /\ pc[w] # "idle" <=> job[w] # None
    /\ pc[w] \in Staging => status[job[w]] = "RUNNING"
    /\ pc[w] = "discard" => status[job[w]] \in {"RUNNING"} \cup Finished

Exclusive == \A v, w \in Workers : v # w /\ pc[v] \in Inside /\ pc[w] \in Inside => job[v] # job[w]

\* The status of a run is the lock of its attempt: it leaves RUNNING only with the
\* one who has made it so.
AttemptInv ==
    /\ status \in [Runs -> Statuses]
    /\ pc \in [Workers -> Places]
    /\ job \in [Workers -> Runs \cup {None}]
    /\ \A w \in Workers : Attempt(w)
    /\ Exclusive

\* The other workers go on where they are.
OthersStay(w) == \A u \in Workers \ {w} : pc'[u] = pc[u] /\ job'[u] = job[u]

\* A step that leaves the rows of all runs alone.
Quiet(w) ==
    \/ \E r \in Runs : Open(w, r)
    \/ BeginRefused(w)
    \/ \E v \in Versions : GraphRefused(w, v) \/ GraphFails(w, v)
    \/ ReadRuns(w) \/ ReadGraphs(w) \/ Abandon(w) \/ AggregateRefused(w)
    \/ PublishRefused(w) \/ NarrativeFails(w) \/ StatementFails(w)
    \/ PickDoomed(w) \/ DiscardFails(w) \/ Crash(w) \/ LoseLock(w)

\* A step that writes rows of its run.
Writes(w) ==
    \/ Start(w) \/ Restart(w)
    \/ \E v \in Versions : Compare(w, v) \/ PersistGraph(w, v)
    \/ Aggregate(w) \/ Publish(w) \/ PublishAnswerLost(w) \/ Discard(w)

Periodic == ReadReports \/ ReadTrends \/ TrendsUnread \/ PersistPeriodic \/ PeriodicRefused

LEMMA NextKinds ==
    Next <=> (\E w \in Workers : Quiet(w) \/ Writes(w)) \/ Periodic
  BY DEF Next, Step, Quiet, Writes, Periodic

LEMMA QuietRows ==
    ASSUME NEW w \in Workers, Quiet(w)
    PROVE  UNCHANGED <<rows, others>>
  BY DEF Quiet, Open, BeginRefused, GraphRefused, GraphFails, ReadRuns, ReadGraphs, Abandon,
         AggregateRefused, PublishRefused, NarrativeFails, StatementFails, PickDoomed,
         DiscardFails, Crash, LoseLock, others

LEMMA PeriodicRows ==
    ASSUME Periodic
    PROVE  UNCHANGED <<rows, holder, pc, job, view>>
  BY DEF Periodic, ReadReports, ReadTrends, TrendsUnread, PersistPeriodic, PeriodicRefused

----------------------------------------------------------------------------
(* Where a step takes its worker *)

LEMMA LeaveMoves ==
    ASSUME AttemptInv, NEW w \in Workers, Leave(w)
    PROVE  OthersStay(w) /\ pc' \in [Workers -> Places] /\ job' \in [Workers -> Runs \cup {None}]
           /\ pc'[w] = "idle" /\ job'[w] = None
  BY DEF AttemptInv, Leave, Goto, OthersStay, Places

LEMMA GiveUpMoves ==
    ASSUME AttemptInv, NEW w \in Workers, GiveUp(w)
    PROVE  OthersStay(w) /\ pc' \in [Workers -> Places] /\ job' = job /\ pc'[w] = "discard"
  BY DEF AttemptInv, GiveUp, Goto, OthersStay, Places, Inside

\* What a quiet step does to the place and the run of its worker.
LEMMA QuietMoves ==
    ASSUME AttemptInv, NEW w \in Workers, Quiet(w)
    PROVE  /\ OthersStay(w)
           /\ pc' \in [Workers -> Places] /\ job' \in [Workers -> Runs \cup {None}]
           /\ \/ pc'[w] = "idle" /\ job'[w] = None
              \/ pc'[w] = "begin" /\ job'[w] \in Runs
              \/ pc'[w] = pc[w] /\ job'[w] = job[w]
              \/ pc[w] \in Staging /\ pc'[w] \in Inside /\ job'[w] = job[w]
              \/ pc[w] = "discard" /\ pc'[w] = "delete" /\ job'[w] = job[w] /\ MayDiscard(job[w])
<1>1. CASE \E r \in Runs : Open(w, r)
  BY <1>1 DEF AttemptInv, Open, Goto, OthersStay, Places
<1>2. CASE BeginRefused(w) \/ Abandon(w) \/ DiscardFails(w) \/ Crash(w)
  BY <1>2, LeaveMoves DEF BeginRefused, Abandon, DiscardFails, Crash
<1>3. CASE \/ \E v \in Versions : GraphRefused(w, v)
           \/ AggregateRefused(w) \/ PublishRefused(w) \/ NarrativeFails(w) \/ StatementFails(w)
  BY <1>3, GiveUpMoves DEF GraphRefused, AggregateRefused, PublishRefused, NarrativeFails,
     StatementFails, Staging, Inside, AttemptInv
<1>4. CASE (\E v \in Versions : GraphFails(w, v)) \/ LoseLock(w)
  BY <1>4 DEF GraphFails, LoseLock, AttemptInv, OthersStay
<1>5. CASE ReadRuns(w) \/ ReadGraphs(w)
  BY <1>5 DEF ReadRuns, ReadGraphs, AttemptInv, OthersStay, Goto, Staging, Inside, Places
<1>6. CASE PickDoomed(w)
  <2>1. CASE MayDiscard(job[w])
    BY <1>6, <2>1 DEF PickDoomed, AttemptInv, OthersStay, Goto, Staging, Inside, Places
  <2>2. CASE ~MayDiscard(job[w])
    BY <1>6, <2>2, LeaveMoves DEF PickDoomed
  <2>3. QED
    BY <2>1, <2>2
<1>7. QED
  BY <1>1, <1>2, <1>3, <1>4, <1>5, <1>6 DEF Quiet
\* A step that writes changes no status but that of its run.
LEMMA WriteMoves ==
    ASSUME AttemptInv, NEW w \in Workers, Writes(w)
    PROVE  /\ pc[w] # "idle" /\ job[w] \in Runs
           /\ OthersStay(w)
           /\ pc' \in [Workers -> Places] /\ job' \in [Workers -> Runs \cup {None}]
           /\ status' \in [Runs -> Statuses]
           /\ \A q \in Runs \ {job[w]} : status'[q] = status[q]
           /\ \/ /\ pc[w] = "begin" /\ status[job[w]] \in {"ABSENT", "FAILED"}
                 /\ pc'[w] = "paper" /\ job'[w] = job[w] /\ status'[job[w]] = "RUNNING"
              \/ /\ pc[w] \in Staging /\ status' = status
                 /\ pc'[w] \in Staging /\ job'[w] = job[w]
              \/ /\ pc[w] = "publish" /\ status'[job[w]] \in Finished
                 /\ \/ pc'[w] = "idle" /\ job'[w] = None
                    \/ pc'[w] = "discard" /\ job'[w] = job[w]
              \/ /\ pc[w] = "delete" /\ status'[job[w]] = "FAILED"
                 /\ pc'[w] = "idle" /\ job'[w] = None
<1>1. CASE Start(w) \/ Restart(w)
  <2>1. /\ pc[w] = "begin" /\ status[job[w]] \in {"ABSENT", "FAILED"}
        /\ status' = [status EXCEPT ![job[w]] = "RUNNING"]
        /\ pc' = [pc EXCEPT ![w] = "paper"] /\ job' = job
    BY <1>1 DEF Start, Restart, MayRestart, Launch, Goto
  <2>2. job[w] \in Runs
    BY <2>1 DEF AttemptInv, Attempt
  <2>3. QED
    BY <2>1, <2>2 DEF AttemptInv, OthersStay, Places, Inside, Staging, Statuses
<1>2. CASE \E v \in Versions : Compare(w, v) \/ PersistGraph(w, v)
  <2>1. pc[w] = "paper" /\ UNCHANGED <<status, pc, job>>
    BY <1>2 DEF Compare, PersistGraph
  <2>2. QED
    BY <2>1 DEF AttemptInv, Attempt, OthersStay, Staging
<1>3. CASE Aggregate(w)
  <2>1. pc[w] = "aggregate" /\ UNCHANGED <<status, job>> /\ pc' = [pc EXCEPT ![w] = "publish"]
    BY <1>3 DEF Aggregate, Goto
  <2>2. QED
    BY <2>1 DEF AttemptInv, Attempt, OthersStay, Places, Inside, Staging
<1>4. CASE Publish(w) \/ PublishAnswerLost(w)
  <2>1. /\ pc[w] = "publish" /\ status' = [status EXCEPT ![job[w]] = Planned(w).status]
        /\ Leave(w) \/ GiveUp(w)
    BY <1>4 DEF Publish, PublishAnswerLost, Commit
  <2>2. Planned(w).status \in Finished
    BY DEF Planned, Finished
  <2>3. job[w] \in Runs
    BY <2>1 DEF AttemptInv, Attempt
  <2>4. status' \in [Runs -> Statuses] /\ status'[job[w]] \in Finished
        /\ \A q \in Runs \ {job[w]} : status'[q] = status[q]
    BY <2>1, <2>2, <2>3 DEF AttemptInv, Statuses
  <2>5. QED
    BY <2>1, <2>3, <2>4, LeaveMoves, GiveUpMoves DEF AttemptInv
<1>5. CASE Discard(w)
  <2>1. pc[w] = "delete" /\ status' = [status EXCEPT ![job[w]] = "FAILED"] /\ Leave(w)
    BY <1>5 DEF Discard
  <2>2. job[w] \in Runs
    BY <2>1 DEF AttemptInv, Attempt
  <2>3. QED
    BY <2>1, <2>2, LeaveMoves DEF AttemptInv, Statuses
<1>6. QED
  BY <1>1, <1>2, <1>3, <1>4, <1>5 DEF Writes

LEMMA AttemptStart == Init => AttemptInv
  BY DEF Init, AttemptInv, Attempt, Exclusive, Statuses, Places, Inside, Staging

LEMMA AttemptStep == AttemptInv /\ [Next]_vars => AttemptInv'
<1> SUFFICES ASSUME AttemptInv, [Next]_vars PROVE AttemptInv'
  OBVIOUS
<1> USE DEF Finished
<1>1. ASSUME NEW w \in Workers, Quiet(w) PROVE AttemptInv'
  <2>1. status' = status
    BY <1>1, QuietRows DEF rows
  <2>2. ASSUME NEW u \in Workers PROVE Attempt(u)'
    <3>1. CASE u # w
      <4>1. pc'[u] = pc[u] /\ job'[u] = job[u]
        BY <1>1, <3>1, QuietMoves DEF OthersStay
      <4>2. QED
        BY <2>1, <4>1 DEF AttemptInv, Attempt
    <3>2. CASE u = w
      BY <1>1, <2>1, <3>2, QuietMoves, RunsAssumption, NoneIsNoReport
         DEF AttemptInv, Attempt, Staging, Inside, MayDiscard
    <3>3. QED
      BY <3>1, <3>2
  <2>3. QED
    BY <1>1, <2>1, <2>2, QuietMoves
       DEF AttemptInv, Exclusive, OthersStay, Inside, Staging
<1>2. ASSUME NEW w \in Workers, Writes(w) PROVE AttemptInv'
  <2>1. \A u \in Workers \ {w} : pc[u] \in Inside => job[u] # job[w]
    BY <1>2, WriteMoves DEF AttemptInv, Exclusive, Attempt, Inside, Staging
  <2>2. ASSUME NEW u \in Workers PROVE Attempt(u)'
    <3>1. CASE u # w
      <4>1. pc'[u] = pc[u] /\ job'[u] = job[u]
        BY <1>2, <3>1, WriteMoves DEF OthersStay
      <4>2. pc[u] \in Inside => job[u] \in Runs \ {job[w]}
        BY <2>1, <3>1 DEF AttemptInv, Attempt, Inside, Staging
      <4>3. QED
        BY <1>2, <4>1, <4>2, WriteMoves DEF AttemptInv, Attempt, Inside, Staging
    <3>2. CASE u = w
      BY <1>2, <3>2, WriteMoves, NoneIsNoReport DEF AttemptInv, Attempt, Staging, Inside
    <3>3. QED
      BY <3>1, <3>2
  <2>3. QED
    BY <1>2, <2>1, <2>2, WriteMoves DEF AttemptInv, Exclusive, OthersStay, Inside, Staging
<1>3. CASE Periodic \/ UNCHANGED vars
  <2>1. UNCHANGED <<status, pc, job>>
    BY <1>3, PeriodicRows DEF rows, vars
  <2>2. QED
    BY <2>1 DEF AttemptInv, Attempt, Exclusive
<1>4. QED
  BY <1>1, <1>2, <1>3, NextKinds

\* The attempts of every run keep apart, in every reachable state.
THEOREM AttemptsAreApart == Spec => []AttemptInv
  BY AttemptStart, AttemptStep, PTL DEF Spec

\* restart_product_run and start_product_run let at most one process go on with a
\* run, whoever has lost the lock of the date.
THEOREM OneAttempt == Spec => []OneAttemptPerRun
<1>1. AttemptInv => OneAttemptPerRun
  BY DEF AttemptInv, Attempt, Exclusive, OneAttemptPerRun, Places
<1>2. QED
  BY <1>1, AttemptsAreApart, PTL
\* Only the commit of a publication changes what is published.
LEMMA PublishedStep ==
    ASSUME AttemptInv, [Next]_vars
    PROVE  \/ Published' = Published
           \/ \E w \in Workers : /\ Publish(w) \/ PublishAnswerLost(w)
                                 /\ job[w] \in Runs \ Published
                                 /\ Published' = Published \cup {job[w]}
<1>1. CASE \E w \in Workers : Writes(w)
  <2>1. PICK w \in Workers : Writes(w)
    BY <1>1
  <2>2. CASE Publish(w) \/ PublishAnswerLost(w)
    <3>1. pc[w] = "publish" /\ status' = [status EXCEPT ![job[w]] = Planned(w).status]
      BY <2>2 DEF Publish, PublishAnswerLost, Commit
    <3>2. Planned(w).status \in Finished
      BY DEF Planned, Finished
    <3>3. job[w] \in Runs /\ \A q \in Runs \ {job[w]} : status'[q] = status[q]
      BY <2>1, WriteMoves
    <3>4. status'[job[w]] \in Finished /\ status[job[w]] = "RUNNING"
      BY <3>1, <3>2, <3>3 DEF AttemptInv, Attempt, Staging
    <3>5. QED
      BY <2>2, <3>3, <3>4 DEF Published, Finished
  <2>3. CASE ~(Publish(w) \/ PublishAnswerLost(w))
    <3>1. \/ status' = status
          \/ status[job[w]] \notin Finished /\ status'[job[w]] \notin Finished
      BY <2>1, <2>3
         DEF Writes, Start, Restart, MayRestart, Launch, Compare, PersistGraph, Aggregate, Discard,
             AttemptInv, Attempt, Staging, Finished
    <3>2. job[w] \in Runs /\ \A q \in Runs \ {job[w]} : status'[q] = status[q]
      BY <2>1, WriteMoves
    <3>3. QED
      BY <3>1, <3>2 DEF Published, Finished
  <2>4. QED
    BY <2>2, <2>3
<1>2. CASE (\E w \in Workers : Quiet(w)) \/ Periodic \/ UNCHANGED vars
  BY <1>2, QuietRows, PeriodicRows DEF Published, rows, vars
<1>3. QED
  BY <1>1, <1>2, NextKinds

----------------------------------------------------------------------------
(* Trends *)

Metric == Concepts \X (1 .. Cardinality(Versions))

SnapshotRows == [days : Windows, current : SUBSET Metric, preceding : SUBSET Metric, runs : SUBSET Runs]

\* Snapshots of which one has the shortest window.
Graded(S) == S # {} => \E s \in S : \A t \in S : s.days <= t.days /\ (t.days = s.days => t = s)

LEMMA MetricsType == \A qs : Metrics(qs) \in SUBSET Metric
<1> SUFFICES ASSUME NEW qs PROVE Metrics(qs) \in SUBSET Metric
  OBVIOUS
<1> DEFINE Count(c) == {v \in Versions : \E o \in occurrences : o.owner \in qs /\ o.ends = {v, c}}
<1>1. ASSUME NEW T \in SUBSET Versions, T # {} PROVE Cardinality(T) \in 1 .. Cardinality(Versions)
  <2>1. IsFiniteSet(Versions) /\ Cardinality(Versions) \in Nat
    BY GraphAssumption, FS_CardinalityType
  <2>2. IsFiniteSet(T) /\ Cardinality(T) <= Cardinality(Versions)
    BY <2>1, FS_Subset
  <2>3. Cardinality(T) \in Nat /\ Cardinality(T) # 0
    BY <1>1, <2>2, FS_CardinalityType, FS_EmptySet
  <2>4. QED
    BY <2>1, <2>2, <2>3
<1>2. \A c : Count(c) \in SUBSET Versions
  OBVIOUS
<1>3. Metrics(qs) = {<<c, Cardinality(Count(c))>> : c \in {x \in Concepts : Count(x) # {}}}
  BY DEF Metrics
<1> HIDE DEF Count
<1>4. \A c \in Concepts : Count(c) # {} => <<c, Cardinality(Count(c))>> \in Metric
  BY <1>1, <1>2 DEF Metric
<1>5. QED
  BY <1>3, <1>4

LEMMA SnapshotsType ==
    ASSUME NEW corpus \in SUBSET Runs, NEW last
    PROVE  /\ Snapshots(corpus, last) \in SUBSET SnapshotRows
           /\ Graded(Snapshots(corpus, last))
           /\ \A s \in Snapshots(corpus, last) : s.runs \subseteq corpus
<1>1. \A n \in Windows : /\ Snapshot(corpus, last, n) \in SnapshotRows
                         /\ Snapshot(corpus, last, n).days = n
                         /\ Snapshot(corpus, last, n).runs \subseteq corpus
  <2> SUFFICES ASSUME NEW n \in Windows
               PROVE /\ Snapshot(corpus, last, n) \in SnapshotRows
                     /\ Snapshot(corpus, last, n).days = n
                     /\ Snapshot(corpus, last, n).runs \subseteq corpus
    OBVIOUS
  <2> DEFINE current == {q \in corpus : Date[q] \in Days(last, n)}
             preceding == {q \in corpus : Date[q] \in Days(last - n, n)}
  <2>1. Snapshot(corpus, last, n) =
          [days |-> n, current |-> Metrics(current), preceding |-> Metrics(preceding),
           runs |-> current \cup preceding]
    BY DEF Snapshot
  <2>2. current \cup preceding \in SUBSET corpus
    OBVIOUS
  <2> HIDE DEF current, preceding
  <2>3. QED
    BY <2>1, <2>2, MetricsType DEF SnapshotRows
<1>2. PICK least \in Windows : \A n \in Windows : least <= n
  <2>1. Windows \subseteq Nat /\ Windows # {}
    BY WindowsAssumption
  <2>2. PICK x \in Windows : \A y \in Windows : <<y, x>> \notin OpToRel(<, Nat)
    BY <2>1, NatLessThanWellFounded, WFMin
  <2>3. \A y \in Windows : ~(y < x)
    BY <2>1, <2>2 DEF OpToRel
  <2>4. QED
    BY <2>1, <2>3
<1>3. QED
  BY <1>1, <1>2 DEF Snapshots, Graded

\* CHOOSE finds the shortest window.
LEMMA PrimaryIs ==
    ASSUME NEW S, NEW s \in S, \A t \in S : s.days <= t.days /\ (t.days = s.days => t = s),
           \A t \in S : t.days \in Nat
    PROVE  Primary(S) = s
<1> DEFINE Q(x) == x \in S /\ \A t \in S : x.days <= t.days
<1>1. Q(s)
  OBVIOUS
<1>2. Q(CHOOSE x : Q(x))
  BY <1>1
<1>3. \A x : Q(x) => x = s
  OBVIOUS
<1>4. Primary(S) = CHOOSE x : Q(x)
  BY DEF Primary
<1> HIDE DEF Q
<1>5. QED
  BY <1>2, <1>3, <1>4

\* What the graph has lost is lost from the snapshots, in each of its windows.
LEMMA WithoutType ==
    ASSUME NEW M, NEW m \in SUBSET M, NEW gone
    PROVE  Without(m, gone) \in SUBSET M /\ Without(m, gone) \subseteq m
           /\ \A x \in Without(m, gone) : x[1] \notin gone
  BY DEF Without

LEMMA TrendsWithoutRow ==
    ASSUME NEW M, NEW s \in [days : Windows, current : SUBSET M, preceding : SUBSET M, runs : SUBSET Runs],
           NEW gone
    PROVE  [s EXCEPT !.current = Without(@, gone), !.preceding = Without(@, gone)] =
             [days |-> s.days, current |-> Without(s.current, gone),
              preceding |-> Without(s.preceding, gone), runs |-> s.runs]
<1> DEFINE c == Without(s.current, gone)
           p == Without(s.preceding, gone)
           new == [s EXCEPT !.current = c, !.preceding = p]
<1> c \in SUBSET M /\ p \in SUBSET M
  BY DEF Without
<1> HIDE DEF c, p
<1>1. /\ new \in [days : Windows, current : SUBSET M, preceding : SUBSET M, runs : SUBSET Runs]
      /\ new.days = s.days /\ new.current = c /\ new.preceding = p /\ new.runs = s.runs
  OBVIOUS
<1> HIDE DEF new
<1>2. new = [days |-> s.days, current |-> c, preceding |-> p, runs |-> s.runs]
  BY <1>1
<1>3. QED
  BY <1>2 DEF new, c, p
LEMMA TrendsWithoutType ==
    ASSUME NEW M, NEW gone,
           NEW S \in SUBSET [days : Windows, current : SUBSET M, preceding : SUBSET M, runs : SUBSET Runs],
           NEW N, \A x \in M : x[1] \notin gone => x \in N
    PROVE  /\ TrendsWithout(S, gone) \in
                SUBSET [days : Windows, current : SUBSET N, preceding : SUBSET N, runs : SUBSET Runs]
           /\ \A t \in TrendsWithout(S, gone) : \E s \in S : s.runs = t.runs
           /\ Graded(S) => Graded(TrendsWithout(S, gone))
           /\ \A h : Graded(S) /\ h \subseteq Highlights(S) =>
                Without(h, gone) \subseteq Highlights(TrendsWithout(S, gone))
<1> DEFINE R == [days : Windows, current : SUBSET M, preceding : SUBSET M, runs : SUBSET Runs]
           Lost(s) == [s EXCEPT !.current = Without(@, gone), !.preceding = Without(@, gone)]
<1>1. TrendsWithout(S, gone) = {Lost(s) : s \in S}
  BY DEF TrendsWithout
<1>2. ASSUME NEW s \in S
      PROVE  /\ Lost(s) \in [days : Windows, current : SUBSET N, preceding : SUBSET N, runs : SUBSET Runs]
             /\ Lost(s).days = s.days /\ Lost(s).runs = s.runs
             /\ Lost(s).current = Without(s.current, gone)
  <2>1. s \in R
    OBVIOUS
  <2>2. Lost(s) = [days |-> s.days, current |-> Without(s.current, gone),
                   preceding |-> Without(s.preceding, gone), runs |-> s.runs]
    BY <2>1, TrendsWithoutRow
  <2>3. Without(s.current, gone) \in SUBSET N /\ Without(s.preceding, gone) \in SUBSET N
    BY <2>1 DEF Without
  <2> HIDE DEF Lost
  <2>4. QED
    BY <2>1, <2>2, <2>3
<1> HIDE DEF Lost
<1>3. \A s \in S : s.days \in Nat
  BY WindowsAssumption
<1>4. ASSUME S # {}, Graded(S)
      PROVE  \E s \in S : /\ \A t \in S : s.days <= t.days /\ (t.days = s.days => t = s)
                          /\ \A t \in TrendsWithout(S, gone) :
                                Lost(s).days <= t.days /\ (t.days = Lost(s).days => t = Lost(s))
                          /\ Primary(S) = s /\ Primary(TrendsWithout(S, gone)) = Lost(s)
  <2>1. PICK s \in S : \A t \in S : s.days <= t.days /\ (t.days = s.days => t = s)
    BY <1>4 DEF Graded
  <2>2. \A t \in TrendsWithout(S, gone) : /\ Lost(s).days <= t.days /\ (t.days = Lost(s).days => t = Lost(s))
                                          /\ t.days \in Nat
    BY <1>1, <1>2, <1>3, <2>1
  <2>3. Primary(S) = s
    BY <1>3, <2>1, PrimaryIs
  <2>4. Lost(s) \in TrendsWithout(S, gone)
    BY <1>1
  <2>5. Primary(TrendsWithout(S, gone)) = Lost(s)
    BY <2>2, <2>4, PrimaryIs
  <2>6. QED
    BY <2>1, <2>2, <2>3, <2>5
<1>5. ASSUME Graded(S) PROVE Graded(TrendsWithout(S, gone))
  <2>1. CASE S = {}
    BY <1>1, <2>1 DEF Graded
  <2>2. CASE S # {}
    <3>1. PICK s \in S : \A t \in TrendsWithout(S, gone) :
                             Lost(s).days <= t.days /\ (t.days = Lost(s).days => t = Lost(s))
      BY <1>4, <1>5, <2>2
    <3>2. Lost(s) \in TrendsWithout(S, gone)
      BY <1>1
    <3>3. QED
      BY <3>1, <3>2 DEF Graded
  <2>3. QED
    BY <2>1, <2>2
<1>6. ASSUME NEW h, Graded(S), h \subseteq Highlights(S)
      PROVE  Without(h, gone) \subseteq Highlights(TrendsWithout(S, gone))
  <2>1. CASE S = {}
    BY <1>1, <1>6, <2>1 DEF Highlights, Without
  <2>2. CASE S # {}
    <3>1. PICK s \in S : Primary(S) = s /\ Primary(TrendsWithout(S, gone)) = Lost(s)
      BY <1>4, <1>6, <2>2
    <3>2. TrendsWithout(S, gone) # {}
      BY <1>1, <2>2
    <3>3. Highlights(S) = s.current /\ Highlights(TrendsWithout(S, gone)) = Without(s.current, gone)
      BY <1>2, <2>2, <3>1, <3>2 DEF Highlights
    <3>4. QED
      BY <1>6, <3>3 DEF Without
  <2>3. QED
    BY <2>1, <2>2
<1>7. QED
  BY <1>1, <1>2, <1>5, <1>6

LEMMA TrendsWithoutRuns ==
    ASSUME NEW gone, NEW S \in SUBSET TrendRows
    PROVE  \A u \in TrendsWithout(S, gone) : \E s \in S : s.runs = u.runs
<1>1. ASSUME NEW s \in S
      PROVE  [s EXCEPT !.current = Without(@, gone), !.preceding = Without(@, gone)].runs = s.runs
  BY DEF TrendRows
<1>2. QED
  BY <1>1 DEF TrendsWithout

\* Highlights are metrics of their snapshots.
LEMMA HighlightsType ==
    ASSUME NEW M,
           NEW S \in SUBSET [days : Windows, current : SUBSET M, preceding : SUBSET M, runs : SUBSET Runs],
           Graded(S)
    PROVE  Highlights(S) \in SUBSET M
<1>1. CASE S = {}
  BY <1>1 DEF Highlights
<1>2. CASE S # {}
  <2>1. PICK s \in S : \A t \in S : s.days <= t.days /\ (t.days = s.days => t = s)
    BY <1>2 DEF Graded
  <2>2. \A t \in S : t.days \in Nat
    BY WindowsAssumption
  <2>3. Primary(S) = s
    BY <2>1, <2>2, PrimaryIs
  <2>4. QED
    BY <1>2, <2>3 DEF Highlights
<1>3. QED
  BY <1>1, <1>2

----------------------------------------------------------------------------
(* Types *)

OccurrenceRows == [space : Nat, version : Versions, ends : SUBSET (Versions \cup Concepts), owner : Runs]

Views ==
    [found : Statuses, todo : SUBSET Versions, graphs : SUBSET Versions, graphless : SUBSET Versions,
     corpus : SUBSET Runs, trends : SUBSET SnapshotRows, trendless : BOOLEAN,
     lineages : SUBSET [root : Versions, nodes : SUBSET Versions],
     failures : SUBSET Versions, doomed : SUBSET (Versions \cup Concepts)]

GraphType ==
    /\ entities \subseteq Versions \cup Concepts
    /\ occurrences \subseteq OccurrenceRows
    /\ \A o \in occurrences : Mention(o) \/ Edge(o)

ReportsType ==
    /\ report \in [Runs -> Reports \cup {None}]
    /\ \A r \in Runs : IF r \in Published THEN report[r] \in Reports ELSE report[r] = None

AggregatesType ==
    /\ trends \in [Runs -> SUBSET TrendRows]
    /\ \A r \in Runs : Graded(trends[r])
    /\ lineages \in [Runs -> SUBSET LineageRows]

\* A planned periodic report, before its references are checked.
PlannedRow(p) ==
    /\ p = [runs |-> p.runs, trends |-> p.trends, failures |-> p.failures, status |-> p.status,
            highlights |-> p.highlights]
    /\ p.runs \subseteq Runs /\ p.failures \subseteq Versions /\ p.status \in Finished

Draft(d) ==
    /\ d = [runs |-> d.runs, planned |-> d.planned]
    /\ d.runs \subseteq Published
    /\ d.planned = None \/ (PlannedRow(d.planned) /\ d.planned.runs = d.runs)

PeriodicType ==
    /\ periodic \in PeriodicReports \cup {None}
    /\ \A d \in drafts : Draft(d)

ViewsType ==
    /\ view \in [Workers -> Views]
    /\ \A w \in Workers : Graded(view[w].trends)

TypeInv ==
    /\ AttemptInv
    /\ item \in [Runs -> [Versions -> ItemRows]]
    /\ GraphType
    /\ ReportsType
    /\ AggregatesType
    /\ PeriodicType
    /\ holder \in [Dates -> Workers \cup {Nobody}]
    /\ ViewsType
    /\ FailedRunsLeaveNothing

\* The plan of items has rows for the papers of the analysis run.
LEMMA PlannedItemsType ==
    ASSUME NEW r \in Runs
    PROVE  /\ PlannedItems(r) \in [Versions -> ItemRows]
           /\ Papers(r) \in SUBSET Versions /\ Cards(r) \in SUBSET Versions
  BY SourcesAssumption DEF PlannedItems, ItemRows, NoItem, FreshItem, FailedItem, Papers, Readable,
     Cards

\* An item gets a stage.
LEMMA StageSet ==
    ASSUME item \in [Runs -> [Versions -> ItemRows]], NEW r \in Runs, NEW vs,
           NEW stage \in {"COMPARED", "GRAPH_UPDATED", "TREND_SNAPSHOTS_GENERATED"},
           SetStage(r, vs, stage)
    PROVE  /\ item' \in [Runs -> [Versions -> ItemRows]]
           /\ \A q \in Runs \ {r} : item'[q] = item[q]
           /\ \A v \in Versions : /\ item'[r][v].status = item[r][v].status
                                  /\ item'[r][v].stage = IF v \in vs THEN stage ELSE item[r][v].stage
<1> DEFINE new == [v \in Versions |-> IF v \in vs THEN [item[r][v] EXCEPT !.stage = stage] ELSE item[r][v]]
<1>1. item' = [item EXCEPT ![r] = new]
  BY DEF SetStage
<1>2. ASSUME NEW v \in Versions
      PROVE  /\ [item[r][v] EXCEPT !.stage = stage] \in ItemRows
             /\ [item[r][v] EXCEPT !.stage = stage].status = item[r][v].status
             /\ [item[r][v] EXCEPT !.stage = stage].stage = stage
  <2>1. item[r][v] \in ItemRows
    OBVIOUS
  <2>2. QED
    BY <2>1 DEF ItemRows
<1>3. /\ new \in [Versions -> ItemRows]
      /\ \A v \in Versions : /\ new[v].status = item[r][v].status
                             /\ new[v].stage = IF v \in vs THEN stage ELSE item[r][v].stage
  BY <1>2
<1> HIDE DEF new
<1>4. QED
  BY <1>1, <1>3
----------------------------------------------------------------------------
(* What the steps that write do to the rows *)

LEMMA WorkersRun ==
    ASSUME AttemptInv, NEW w \in Workers, Writes(w)
    PROVE  job[w] \in Runs /\ (pc[w] \in Staging => status[job[w]] = "RUNNING")
  BY WriteMoves DEF AttemptInv, Attempt

\* A failed run has nothing, so its restart has nothing to delete.
LEMMA LaunchRows ==
    ASSUME TypeInv, NEW w \in Workers, Start(w) \/ Restart(w), NEW r \in Runs, r = job[w]
    PROVE  /\ status[r] \in {"ABSENT", "FAILED"} /\ status' = [status EXCEPT ![r] = "RUNNING"]
           /\ item' = [item EXCEPT ![r] = PlannedItems(r)]
           /\ order' = StartsLast(r)
           /\ view' = [view EXCEPT ![w].todo = Papers(r)]
           /\ UNCHANGED <<entities, occurrences, trends, lineages, report, cascaded, periodic, drafts,
                          holder, job>>
<1>1. CASE Start(w)
  BY <1>1 DEF Start, Launch, others
<1>2. CASE Restart(w)
  <2>1. status[r] = "FAILED"
    BY <1>2 DEF Restart, MayRestart
  <2>2. Own(r) = {} /\ trends[r] = {} /\ lineages[r] = {}
    BY <2>1 DEF TypeInv, FailedRunsLeaveNothing
  <2>3. Doomed(r) = {}
    BY <2>2 DEF Doomed
  <2>4. /\ status' = [status EXCEPT ![r] = "RUNNING"]
        /\ item' = [item EXCEPT ![r] = PlannedItems(r)]
        /\ order' = StartsLast(r)
        /\ view' = [view EXCEPT ![w].todo = Papers(r)]
        /\ entities' = entities \ Doomed(r) /\ occurrences' = occurrences \ Own(r)
        /\ trends' = [trends EXCEPT ![r] = {}] /\ lineages' = [lineages EXCEPT ![r] = {}]
        /\ UNCHANGED <<report, cascaded, periodic, drafts, holder, job>>
    BY <1>2 DEF Restart, Launch, others, RemainingAggregates
  <2>5. trends' = trends /\ lineages' = lineages
    BY <2>2, <2>4 DEF TypeInv, AggregatesType
  <2>6. QED
    BY <2>1, <2>2, <2>3, <2>4, <2>5
<1>3. QED
  BY <1>1, <1>2

LEMMA LaunchItems ==
    ASSUME TypeInv, NEW w \in Workers, Start(w) \/ Restart(w), NEW r \in Runs, r = job[w]
    PROVE  /\ item' \in [Runs -> [Versions -> ItemRows]]
           /\ \A q \in Runs \ {r} : item'[q] = item[q]
           /\ item'[r] = PlannedItems(r)
  BY LaunchRows, PlannedItemsType DEF TypeInv

LEMMA CommitItems ==
    ASSUME TypeInv, NEW w \in Workers, Commit(w), NEW r \in Runs, r = job[w]
    PROVE  /\ item' \in [Runs -> [Versions -> ItemRows]]
           /\ \A q \in Runs \ {r} : item'[q] = item[q]
           /\ \A v \in Versions :
                item'[r][v] = IF Ready(r, v, Planned(w)) THEN [status |-> "COMPLETED", stage |-> "PUBLISHED"]
                              ELSE item[r][v]
<1> DEFINE done == [status |-> "COMPLETED", stage |-> "PUBLISHED"]
           new == [v \in Versions |-> IF Ready(r, v, Planned(w)) THEN done ELSE item[r][v]]
<1>1. item' = [item EXCEPT ![r] = new]
  BY DEF Commit
<1>2. done \in ItemRows /\ item[r] \in [Versions -> ItemRows]
  BY DEF ItemRows, TypeInv
<1> HIDE DEF done
<1>3. new \in [Versions -> ItemRows]
  BY <1>2
<1>4. \A v \in Versions : new[v] = IF Ready(r, v, Planned(w)) THEN done ELSE item[r][v]
  OBVIOUS
<1> HIDE DEF new
<1>5. QED
  BY <1>1, <1>3, <1>4 DEF TypeInv, done

LEMMA DiscardItems ==
    ASSUME TypeInv, NEW w \in Workers, Discard(w), NEW r \in Runs, r = job[w]
    PROVE  /\ item' \in [Runs -> [Versions -> ItemRows]]
           /\ \A q \in Runs \ {r} : item'[q] = item[q]
           /\ \A v \in Versions : item'[r][v].status # "IN_PROGRESS"
<1> DEFINE new == [v \in Versions |-> IF item[r][v].status = "IN_PROGRESS"
                                      THEN [item[r][v] EXCEPT !.status = "FAILED"] ELSE item[r][v]]
<1>1. item' = [item EXCEPT ![r] = new]
  BY DEF Discard
<1>2. ASSUME NEW v \in Versions
      PROVE  /\ [item[r][v] EXCEPT !.status = "FAILED"] \in ItemRows
             /\ [item[r][v] EXCEPT !.status = "FAILED"].status = "FAILED"
             /\ item[r][v] \in ItemRows
  <2>1. item[r][v] \in ItemRows
    BY DEF TypeInv
  <2>2. QED
    BY <2>1 DEF ItemRows
<1>3. new \in [Versions -> ItemRows] /\ \A v \in Versions : new[v].status # "IN_PROGRESS"
  BY <1>2
<1> HIDE DEF new
<1>4. QED
  BY <1>1, <1>3 DEF TypeInv

LEMMA ItemsStep ==
    ASSUME TypeInv, NEW w \in Workers, Writes(w)
    PROVE  /\ item' \in [Runs -> [Versions -> ItemRows]]
           /\ \A q \in Runs \ {job[w]} : item'[q] = item[q]
<1>1. PICK r \in Runs : r = job[w]
  BY WorkersRun DEF TypeInv
<1>2. CASE Start(w) \/ Restart(w)
  BY <1>1, <1>2, LaunchItems
<1>3. CASE \E v \in Versions : Compare(w, v) \/ PersistGraph(w, v)
  BY <1>1, <1>3, StageSet DEF TypeInv, Compare, PersistGraph
<1>4. CASE Aggregate(w)
  BY <1>1, <1>4, StageSet DEF TypeInv, Aggregate
<1>5. CASE Publish(w) \/ PublishAnswerLost(w)
  BY <1>1, <1>5, CommitItems DEF Publish, PublishAnswerLost
<1>6. CASE Discard(w)
  BY <1>1, <1>6, DiscardItems
<1>7. QED
  BY <1>2, <1>3, <1>4, <1>5, <1>6 DEF Writes

\* The graph of a paper mentions entities, and its edges join a paper with another.
LEMMA OccurrenceEnds ==
    ASSUME NEW v \in Versions, NEW ends \in Occurrences(v)
    PROVE  \/ \E e \in Versions \cup Concepts : ends = {e}
           \/ \E p \in Versions : \E e \in (Versions \cup Concepts) \ {p} : ends = {p, e}
<1> DEFINE Shape(x) == \/ \E e \in Versions \cup Concepts : x = {e}
                       \/ \E p \in Versions : \E e \in (Versions \cup Concepts) \ {p} : x = {p, e}
<1>1. \A p \in Versions : \A e \in (Versions \cup Concepts) \ {p} : \A x \in Link(p, e) : Shape(x)
  BY DEF Link
<1>2. \A p \in Versions : Shape({p})
  OBVIOUS
<1>3. \A p \in Versions : \A e \in About[p] : e \in (Versions \cup Concepts) \ {p}
  BY GraphAssumption
<1>4. \A t \in Targets[v] : t \in Versions /\ t \in (Versions \cup Concepts) \ {v}
  BY GraphAssumption
<1> HIDE DEF Shape
<1>5. \A x \in AnalysisGraph(v) : Shape(x)
  BY <1>1, <1>2, <1>3 DEF AnalysisGraph
<1>6. ASSUME NEW t \in Targets[v], NEW x \in ComparisonGraph(v, t) PROVE Shape(x)
  <2>1. CASE x \in {{v}} \cup Link(v, t)
    BY <1>1, <1>2, <1>4, <2>1
  <2>2. CASE x \in UNION {Link(v, e) : e \in About[v]}
    BY <1>1, <1>3, <2>2
  <2>3. CASE x \in UNION {Link(t, e) : e \in About[t]}
    BY <1>1, <1>3, <1>4, <2>3
  <2>4. QED
    BY <1>6, <2>1, <2>2, <2>3 DEF ComparisonGraph
<1>7. Shape(ends)
  BY <1>5, <1>6 DEF Occurrences
<1>8. QED
  BY <1>7 DEF Shape

\* The rows of the graph keep referring to entities that exist.
LEMMA GraphStep ==
    ASSUME TypeInv, NEW w \in Workers, Writes(w)
    PROVE  GraphType'
<1>1. PICK r \in Runs : r = job[w]
  BY WorkersRun DEF TypeInv
<1>2. GraphType
  BY DEF TypeInv
<1>3. CASE UNCHANGED <<entities, occurrences>>
  BY <1>2, <1>3 DEF GraphType, Mention, Edge
<1>4. CASE \E v \in Versions : PersistGraph(w, v)
  <2>1. PICK v \in Versions : PersistGraph(w, v)
    BY <1>4
  <2> DEFINE new == {Stored(<<v, ends>>, r) : ends \in Occurrences(v) \ {o.ends : o \in Rivals(r, v)}}
  <2>2. entities' = entities \cup Mentioned(v) /\ occurrences' = occurrences \cup new
    BY <1>1, <2>1 DEF PersistGraph
  <2>3. \A ends \in Occurrences(v) :
          /\ ends \in SUBSET (Versions \cup Concepts)
          /\ \/ \E e \in Versions \cup Concepts : ends = {e}
             \/ \E p \in Versions : \E e \in (Versions \cup Concepts) \ {p} : ends = {p, e}
    BY OccurrenceEnds
  <2>4. Mentioned(v) \subseteq Versions \cup Concepts /\ \A ends \in Occurrences(v) : ends \subseteq Mentioned(v)
    BY <2>3 DEF Mentioned
  <2>5. ASSUME NEW o \in new
        PROVE  o \in OccurrenceRows /\ (Mention(o)' \/ Edge(o)')
    <3>1. PICK ends \in Occurrences(v) : o = [space |-> Space[r], version |-> v, ends |-> ends, owner |-> r]
      BY DEF Stored
    <3>2. o \in OccurrenceRows
      BY <2>3, <3>1, RunsAssumption DEF OccurrenceRows
    <3>3. ends \subseteq entities'
      BY <2>2, <2>4
    <3>4. QED
      BY <2>3, <3>1, <3>2, <3>3 DEF Mention, Edge
  <2>6. ASSUME NEW o \in occurrences
        PROVE  Mention(o)' \/ Edge(o)'
    BY <1>2, <2>2 DEF GraphType, Mention, Edge
  <2> HIDE DEF new
  <2>7. QED
    BY <1>2, <2>2, <2>4, <2>5, <2>6 DEF GraphType
<1>5. CASE Discard(w)
  <2> DEFINE gone == view[w].doomed
             swept == {o \in occurrences \ Own(r) : o.ends \cap gone # {}}
  <2>1. entities' = entities \ gone /\ occurrences' = occurrences \ (Own(r) \cup swept)
    BY <1>1, <1>5 DEF Discard
  <2>2. ASSUME NEW o \in occurrences'
        PROVE  o \in occurrences /\ o.ends \cap gone = {}
    BY <2>1
  <2>3. \A o \in occurrences' : Mention(o)' \/ Edge(o)'
    BY <1>2, <2>1, <2>2 DEF GraphType, Mention, Edge
  <2>4. QED
    BY <1>2, <2>1, <2>3 DEF GraphType
<1>6. QED
  BY <1>1, <1>3, <1>4, <1>5, LaunchRows DEF Writes, Compare, Aggregate, Publish, PublishAnswerLost, Commit
LEMMA FailedStep ==
    ASSUME TypeInv, NEW w \in Workers, Writes(w)
    PROVE  FailedRunsLeaveNothing'
<1>1. PICK r \in Runs : r = job[w]
  BY WorkersRun DEF TypeInv
<1>2. AttemptInv /\ FailedRunsLeaveNothing /\ trends \in [Runs -> SUBSET TrendRows]
      /\ lineages \in [Runs -> SUBSET LineageRows]
  BY DEF TypeInv, AggregatesType
<1>3. \A q \in Runs \ {r} : status'[q] = status[q] /\ item'[q] = item[q]
  BY <1>1, <1>2, WriteMoves, ItemsStep
<1>4. CASE Discard(w)
  <2> DEFINE gone == view[w].doomed
             swept == {o \in occurrences \ Own(r) : o.ends \cap gone # {}}
             lostTrends == [q \in Runs |-> TrendsWithout(trends[q], gone)]
             lostLineages == [q \in Runs |-> LineagesWithout(lineages[q], gone)]
  <2>1. /\ occurrences' = occurrences \ (Own(r) \cup swept)
        /\ trends' = [lostTrends EXCEPT ![r] = {}] /\ lineages' = [lostLineages EXCEPT ![r] = {}]
    BY <1>1, <1>4 DEF Discard, RemainingAggregates
  <2>2. trends'[r] = {} /\ lineages'[r] = {} /\ Own(r)' = {}
    BY <2>1 DEF Own
  <2>3. ItemsIn(r, "IN_PROGRESS")' = {}
    BY <1>1, <1>4, DiscardItems DEF ItemsIn
  <2>4. ASSUME NEW q \in Runs \ {r}, status[q] = "FAILED"
        PROVE  /\ Own(q)' = {} /\ trends'[q] = {} /\ lineages'[q] = {}
               /\ ItemsIn(q, "IN_PROGRESS")' = {}
    <3>1. Own(q) = {} /\ trends[q] = {} /\ lineages[q] = {} /\ ItemsIn(q, "IN_PROGRESS") = {}
      BY <1>2, <2>4 DEF FailedRunsLeaveNothing
    <3>2. trends'[q] = {} /\ lineages'[q] = {}
      BY <2>1, <3>1 DEF TrendsWithout, LineagesWithout
    <3>3. QED
      BY <1>3, <2>1, <3>1, <3>2 DEF Own, ItemsIn
  <2>5. QED
    BY <1>3, <2>2, <2>3, <2>4 DEF FailedRunsLeaveNothing
<1>5. CASE ~Discard(w)
  <2>1. status'[r] # "FAILED"
    BY <1>1, <1>2, <1>5, WriteMoves
       DEF Writes, Start, Restart, Compare, PersistGraph, Aggregate, Publish, PublishAnswerLost, Commit,
           AttemptInv, Attempt, Staging, Finished
  <2>2. \A q \in Runs \ {r} : Own(q)' \subseteq Own(q)
    <3>1. CASE \E v \in Versions : PersistGraph(w, v)
      BY <1>1, <3>1 DEF PersistGraph, Stored, Own
    <3>2. CASE ~\E v \in Versions : PersistGraph(w, v)
      BY <1>1, <1>5, <3>2, LaunchRows
         DEF Writes, Compare, Aggregate, Publish, PublishAnswerLost, Commit, Own
    <3>3. QED
      BY <3>1, <3>2
  <2>3. \A q \in Runs \ {r} : trends'[q] = trends[q] /\ lineages'[q] = lineages[q]
    BY <1>1, <1>2, <1>5, LaunchRows
       DEF Writes, Compare, PersistGraph, Aggregate, Publish, PublishAnswerLost, Commit
  <2>4. QED
    BY <1>2, <1>3, <2>1, <2>2, <2>3 DEF FailedRunsLeaveNothing, ItemsIn
<1>6. QED
  BY <1>4, <1>5

----------------------------------------------------------------------------
(* Reports, trends and lineages refer to entities that exist *)

LEMMA EntitiesGrow ==
    ASSUME entities \subseteq entities'
    PROVE  /\ MetricRows \subseteq MetricRows' /\ Reports \subseteq Reports'
           /\ PeriodicReports \subseteq PeriodicReports'
           /\ TrendRows \subseteq TrendRows' /\ LineageRows \subseteq LineageRows'
<1>1. MetricRows \subseteq MetricRows'
  BY DEF MetricRows
<1>2. Reports \subseteq Reports'
  BY <1>1 DEF Reports
<1>3. PeriodicReports \subseteq PeriodicReports'
  BY <1>1 DEF PeriodicReports
<1>4. TrendRows \subseteq TrendRows'
  BY <1>1 DEF TrendRows
<1>5. LineageRows \subseteq LineageRows'
  BY DEF LineageRows
<1>6. QED
  BY <1>1, <1>2, <1>3, <1>4, <1>5

\* Entities go only with a discarded run.
LEMMA EntitiesStay ==
    ASSUME TypeInv, NEW w \in Workers, Writes(w), ~Discard(w)
    PROVE  entities \subseteq entities'
  BY LaunchRows, WorkersRun
     DEF Writes, Compare, PersistGraph, Aggregate, Publish, PublishAnswerLost, Commit, TypeInv

LEMMA MetricsWithout ==
    ASSUME NEW gone, entities' = entities \ gone
    PROVE  /\ \A x \in MetricRows : x[1] \notin gone => x \in MetricRows'
           /\ \A h \in SUBSET MetricRows : Without(h, gone) \in SUBSET MetricRows'
  BY DEF MetricRows, Without

LEMMA ReportWithoutType ==
    ASSUME NEW gone, entities' = entities \ gone, NEW x \in Reports
    PROVE  /\ ReportWithout(x, gone) \in Reports'
           /\ ReportWithout(x, gone).status = x.status /\ ReportWithout(x, gone).cards = x.cards
           /\ ReportWithout(x, gone).graphless = x.graphless
           /\ ReportWithout(x, gone).highlights = Without(x.highlights, gone)
<1> DEFINE h == Without(x.highlights, gone)
<1>1. /\ x \in [cards : SUBSET Versions, failures : SUBSET Versions, graphless : SUBSET Versions,
                trendless : BOOLEAN, highlights : SUBSET MetricRows, status : {"COMPLETE", "PARTIAL"}]
      /\ x.status = "COMPLETE" <=> x.failures = {}
  BY DEF Reports
<1>2. h \in SUBSET MetricRows'
  BY <1>1, MetricsWithout
<1>3. x # None
  <2>1. MetricRows \subseteq Concepts \X Nat
    BY GraphAssumption, FS_CardinalityType DEF MetricRows
  <2>2. x \in [cards : SUBSET Versions, failures : SUBSET Versions, graphless : SUBSET Versions,
               trendless : BOOLEAN, highlights : SUBSET (Concepts \X Nat),
               status : {"COMPLETE", "PARTIAL"}]
    BY <1>1, <2>1
  <2>3. QED
    BY <2>2, NoneIsNoReport
<1>4. ReportWithout(x, gone) = [x EXCEPT !.highlights = h]
  BY <1>3 DEF ReportWithout
<1> HIDE DEF h
<1>5. /\ [x EXCEPT !.highlights = h] \in
            [cards : SUBSET Versions, failures : SUBSET Versions, graphless : SUBSET Versions,
             trendless : BOOLEAN, highlights : SUBSET MetricRows', status : {"COMPLETE", "PARTIAL"}]
      /\ [x EXCEPT !.highlights = h].status = x.status
      /\ [x EXCEPT !.highlights = h].failures = x.failures
      /\ [x EXCEPT !.highlights = h].cards = x.cards
      /\ [x EXCEPT !.highlights = h].graphless = x.graphless
      /\ [x EXCEPT !.highlights = h].highlights = h
  BY <1>1, <1>2
<1>6. QED
  BY <1>1, <1>4, <1>5 DEF Reports, h

LEMMA PeriodicWithoutType ==
    ASSUME NEW gone, entities' = entities \ gone, NEW x \in PeriodicReports, x # None
    PROVE  /\ ReportWithout(x, gone) \in PeriodicReports'
           /\ ReportWithout(x, gone).runs = x.runs
<1> DEFINE h == Without(x.highlights, gone)
<1>1. x \in [runs : SUBSET Runs, trends : Runs \cup {None}, failures : SUBSET Versions,
             status : {"COMPLETE", "PARTIAL"}, highlights : SUBSET MetricRows]
  BY DEF PeriodicReports
<1>2. h \in SUBSET MetricRows'
  BY <1>1, MetricsWithout
<1>3. ReportWithout(x, gone) = [x EXCEPT !.highlights = h]
  BY DEF ReportWithout
<1> HIDE DEF h
<1>4. /\ [x EXCEPT !.highlights = h] \in
            [runs : SUBSET Runs, trends : Runs \cup {None}, failures : SUBSET Versions,
             status : {"COMPLETE", "PARTIAL"}, highlights : SUBSET MetricRows']
      /\ [x EXCEPT !.highlights = h].runs = x.runs
  BY <1>1, <1>2
<1>5. QED
  BY <1>3, <1>4 DEF PeriodicReports
\* The report an attempt commits.
LEMMA CommitReport ==
    ASSUME TypeInv, NEW w \in Workers, Commit(w), NEW r \in Runs, r = job[w]
    PROVE  Planned(w) \in Reports /\ report' = [report EXCEPT ![r] = Planned(w)]
<1>1. /\ view[w] \in Views
      /\ trends[r] \in SUBSET TrendRows /\ Graded(trends[r])
  BY DEF TypeInv, ViewsType, AggregatesType
<1>2. Planned(w).highlights \subseteq Highlights(trends[r])
  BY DEF Commit, Highlightable
<1>3. Highlights(trends[r]) \in SUBSET MetricRows
  <2>1. trends[r] \in SUBSET [days : Windows, current : SUBSET MetricRows, preceding : SUBSET MetricRows,
                              runs : SUBSET Runs]
    BY <1>1 DEF TrendRows
  <2>2. QED
    BY <1>1, <2>1, HighlightsType
<1>4. Cards(r) \in SUBSET Versions
  BY PlannedItemsType
<1> DEFINE h == Highlights(view[w].trends)
           st == IF view[w].failures = {} THEN "COMPLETE" ELSE "PARTIAL"
<1>5. Planned(w) = [cards |-> Cards(r), failures |-> view[w].failures, graphless |-> view[w].graphless,
                    trendless |-> view[w].trendless, highlights |-> h, status |-> st]
  BY DEF Planned
<1>6. st \in {"COMPLETE", "PARTIAL"} /\ (st = "COMPLETE" <=> view[w].failures = {})
  OBVIOUS
<1> HIDE DEF h, st
<1>7. h \in SUBSET MetricRows
  BY <1>2, <1>3, <1>5
<1>8. view[w].failures \in SUBSET Versions /\ view[w].graphless \in SUBSET Versions
      /\ view[w].trendless \in BOOLEAN
  BY <1>1 DEF Views
<1>9. Planned(w) \in Reports
  BY <1>4, <1>5, <1>6, <1>7, <1>8 DEF Reports
<1>10. QED
  BY <1>9 DEF Commit, InsertReport

LEMMA ReportsStep ==
    ASSUME TypeInv, NEW w \in Workers, Writes(w)
    PROVE  ReportsType'
<1>1. PICK r \in Runs : r = job[w]
  BY WorkersRun DEF TypeInv
<1>2. ReportsType /\ AttemptInv
  BY DEF TypeInv
<1>3. Next
  BY NextKinds
<1>4. CASE Publish(w) \/ PublishAnswerLost(w)
  <2>1. Commit(w)
    BY <1>4 DEF Publish, PublishAnswerLost
  <2>2. Planned(w) \in Reports' /\ report' = [report EXCEPT ![r] = Planned(w)]
    BY <1>1, <2>1, CommitReport, EntitiesGrow DEF Commit
  <2>3. status' = [status EXCEPT ![r] = Planned(w).status]
    BY <1>1, <2>1 DEF Commit
  <2>4. r \in Published' /\ \A q \in Runs \ {r} : q \in Published' <=> q \in Published
    <3>1. Planned(w).status \in Finished
      BY DEF Planned, Finished
    <3>2. QED
      BY <1>2, <2>3, <3>1 DEF AttemptInv, Published, Finished
  <2>5. Reports \subseteq Reports'
    BY <2>1, EntitiesGrow DEF Commit
  <2>6. QED
    BY <1>2, <2>2, <2>4, <2>5 DEF ReportsType
<1>5. CASE ~(Publish(w) \/ PublishAnswerLost(w))
  <2>1. Published' = Published
    <3>1. \/ status' = status
          \/ status[job[w]] \notin Finished /\ status'[job[w]] \notin Finished
      BY <1>5, WriteMoves, <1>2
         DEF Writes, Start, Restart, MayRestart, Launch, Compare, PersistGraph, Aggregate, Discard,
             AttemptInv, Attempt, Staging, Finished
    <3>2. job[w] \in Runs /\ \A q \in Runs \ {job[w]} : status'[q] = status[q]
      BY <1>2, WriteMoves
    <3>3. QED
      BY <3>1, <3>2 DEF Published, Finished
  <2>2. CASE Discard(w)
    <3>1. /\ entities' = entities \ view[w].doomed
          /\ report' = [q \in Runs |-> ReportWithout(report[q], view[w].doomed)]
      BY <2>2 DEF Discard
    <3>2. ASSUME NEW q \in Runs
          PROVE  IF q \in Published THEN ReportWithout(report[q], view[w].doomed) \in Reports'
                 ELSE ReportWithout(report[q], view[w].doomed) = None
      <4>1. CASE q \in Published
        BY <1>2, <3>1, <4>1, ReportWithoutType DEF ReportsType
      <4>2. CASE q \notin Published
        BY <1>2, <4>2 DEF ReportsType, ReportWithout
      <4>3. QED
        BY <4>1, <4>2
    <3>3. QED
      BY <2>1, <3>1, <3>2 DEF ReportsType
  <2>3. CASE ~Discard(w)
    <3>1. report' = report
      BY <1>1, <1>5, <2>3, LaunchRows DEF Writes, Compare, PersistGraph, Aggregate
    <3>2. Reports \subseteq Reports'
      BY <2>3, EntitiesStay, EntitiesGrow
    <3>3. QED
      BY <1>2, <2>1, <3>1, <3>2 DEF ReportsType
  <2>4. QED
    BY <2>2, <2>3
<1>6. QED
  BY <1>4, <1>5

\* What can be stored counts and connects entities that exist.
LEMMA StorableType ==
    ASSUME TypeInv, NEW w \in Workers, Storable(w)
    PROVE  view[w].trends \in SUBSET TrendRows /\ view[w].lineages \in SUBSET LineageRows
<1>1. /\ view[w].trends \in SUBSET SnapshotRows
      /\ view[w].lineages \in SUBSET [root : Versions, nodes : SUBSET Versions]
  BY DEF TypeInv, ViewsType, Views
<1>2. ASSUME NEW s \in view[w].trends
      PROVE  s \in TrendRows
  <2>1. s \in SnapshotRows
    BY <1>1
  <2>2. \A m \in s.current \cup s.preceding : m[1] \in entities
    BY DEF Storable, CountedEntities
  <2>3. \A m \in s.current \cup s.preceding : m \in MetricRows
    BY <2>1, <2>2 DEF SnapshotRows, Metric, MetricRows
  <2>4. QED
    BY <2>1, <2>3 DEF SnapshotRows, TrendRows
<1>3. ASSUME NEW l \in view[w].lineages
      PROVE  l \in LineageRows
  <2>1. l \in [root : Versions, nodes : SUBSET Versions]
    BY <1>1
  <2>2. ASSUME NEW n \in l.nodes PROVE n \in entities
    <3>1. PICK o \in occurrences : o.ends = {n}
      BY DEF Storable
    <3>2. Mention(o) \/ Edge(o)
      BY DEF TypeInv, GraphType
    <3>3. QED
      BY <3>1, <3>2 DEF Mention, Edge
  <2>3. QED
    BY <2>1, <2>2 DEF LineageRows
<1>4. QED
  BY <1>2, <1>3

LEMMA LineagesWithoutType ==
    ASSUME NEW gone, entities' = entities \ gone, NEW S \in SUBSET LineageRows
    PROVE  LineagesWithout(S, gone) \in SUBSET LineageRows'
<1>1. ASSUME NEW l \in S
      PROVE  [l EXCEPT !.nodes = @ \ gone] \in LineageRows'
  <2>1. l \in [root : Versions, nodes : SUBSET (Versions \cap entities)]
    BY DEF LineageRows
  <2> DEFINE n == l.nodes \ gone
  <2>2. n \in SUBSET (Versions \cap entities')
    BY <2>1
  <2> HIDE DEF n
  <2>3. [l EXCEPT !.nodes = n] \in [root : Versions, nodes : SUBSET (Versions \cap entities')]
    BY <2>1, <2>2
  <2>4. QED
    BY <2>3 DEF LineageRows, n
<1>2. QED
  BY <1>1 DEF LineagesWithout

LEMMA AggregatesStep ==
    ASSUME TypeInv, NEW w \in Workers, Writes(w)
    PROVE  AggregatesType'
<1>1. PICK r \in Runs : r = job[w]
  BY WorkersRun DEF TypeInv
<1>2. AggregatesType
  BY DEF TypeInv
<1>3. CASE Aggregate(w)
  <2>1. /\ trends' = [trends EXCEPT ![r] = view[w].trends]
        /\ lineages' = [lineages EXCEPT ![r] = view[w].lineages]
        /\ Storable(w) /\ entities' = entities
    BY <1>1, <1>3 DEF Aggregate
  <2>2. view[w].trends \in SUBSET TrendRows' /\ view[w].lineages \in SUBSET LineageRows'
    BY <2>1, StorableType, EntitiesGrow
  <2>3. Graded(view[w].trends)
    BY DEF TypeInv, ViewsType
  <2>4. TrendRows \subseteq TrendRows' /\ LineageRows \subseteq LineageRows'
    BY <2>1, EntitiesGrow
  <2>5. trends' \in [Runs -> SUBSET TrendRows'] /\ lineages' \in [Runs -> SUBSET LineageRows']
    BY <1>2, <2>1, <2>2, <2>4 DEF AggregatesType
  <2>6. \A q \in Runs : Graded(trends'[q])
    BY <1>2, <2>1, <2>3 DEF AggregatesType
  <2>7. QED
    BY <2>5, <2>6 DEF AggregatesType
<1>4. CASE Discard(w)
  <2> DEFINE gone == view[w].doomed
             lostTrends == [q \in Runs |-> TrendsWithout(trends[q], gone)]
             lostLineages == [q \in Runs |-> LineagesWithout(lineages[q], gone)]
  <2>1. /\ entities' = entities \ gone
        /\ trends' = [lostTrends EXCEPT ![r] = {}] /\ lineages' = [lostLineages EXCEPT ![r] = {}]
    BY <1>1, <1>4 DEF Discard, RemainingAggregates
  <2>2. ASSUME NEW q \in Runs
        PROVE  /\ TrendsWithout(trends[q], gone) \in SUBSET TrendRows'
               /\ Graded(TrendsWithout(trends[q], gone))
               /\ LineagesWithout(lineages[q], gone) \in SUBSET LineageRows'
    <3>1. trends[q] \in SUBSET TrendRows /\ Graded(trends[q]) /\ lineages[q] \in SUBSET LineageRows
      BY <1>2 DEF AggregatesType
    <3>2. \A x \in MetricRows : x[1] \notin gone => x \in MetricRows'
      BY <2>1, MetricsWithout
    <3>3. /\ TrendsWithout(trends[q], gone) \in
                SUBSET [days : Windows, current : SUBSET MetricRows', preceding : SUBSET MetricRows',
                        runs : SUBSET Runs]
          /\ Graded(TrendsWithout(trends[q], gone))
      BY <3>1, <3>2, TrendsWithoutType DEF TrendRows
    <3>4. QED
      BY <2>1, <3>1, <3>3, LineagesWithoutType DEF TrendRows
  <2>3. Graded({})
    BY DEF Graded
  <2> HIDE DEF gone
  <2>4. trends' \in [Runs -> SUBSET TrendRows'] /\ lineages' \in [Runs -> SUBSET LineageRows']
    BY <2>1, <2>2
  <2>5. \A q \in Runs : Graded(trends'[q])
    BY <2>1, <2>2, <2>3
  <2>6. QED
    BY <2>4, <2>5 DEF AggregatesType
<1>5. CASE ~Aggregate(w) /\ ~Discard(w)
  <2>1. trends' = trends /\ lineages' = lineages
    BY <1>1, <1>5, LaunchRows DEF Writes, Compare, PersistGraph, Publish, PublishAnswerLost, Commit
  <2>2. TrendRows \subseteq TrendRows' /\ LineageRows \subseteq LineageRows'
    BY <1>5, EntitiesStay, EntitiesGrow
  <2>3. QED
    BY <1>2, <2>1, <2>2 DEF AggregatesType
<1>6. QED
  BY <1>3, <1>4, <1>5

----------------------------------------------------------------------------
(* The periodic report *)

\* What is published stays so.
LEMMA PublishedGrows ==
    ASSUME AttemptInv, [Next]_vars
    PROVE  Published \subseteq Published'
  BY PublishedStep

LEMMA DraftsStay ==
    ASSUME AttemptInv, [Next]_vars, NEW d, Draft(d)
    PROVE  Draft(d)'
  BY PublishedGrows DEF Draft

\* The plan of a period is a report about the runs that were read.
LEMMA PlannedPeriodType ==
    ASSUME TypeInv, NEW qs \in SUBSET Published
    PROVE  PlannedRow(PlannedPeriod(qs)) /\ PlannedPeriod(qs).runs = qs
<1> DEFINE failures == UNION {report[r].failures : r \in qs}
           st == IF failures = {} THEN "COMPLETE" ELSE "PARTIAL"
           highlights == report[Latest(qs)].highlights
           last == LatestTrends
<1>1. PlannedPeriod(qs) = [runs |-> qs, trends |-> last, failures |-> failures, status |-> st,
                           highlights |-> highlights]
  BY DEF PlannedPeriod
<1>2. qs \in SUBSET Runs
  BY DEF Published
<1>3. failures \in SUBSET Versions
  <2>1. \A r \in qs : report[r] \in Reports
    BY DEF TypeInv, ReportsType, Published
  <2>2. \A r \in qs : report[r].failures \in SUBSET Versions
    BY <2>1 DEF Reports
  <2>3. QED
    BY <2>2
<1>4. st \in Finished
  BY DEF Finished
<1> HIDE DEF failures, st, highlights, last
<1>5. QED
  BY <1>1, <1>2, <1>3, <1>4 DEF PlannedRow

\* What may be inserted highlights metrics of entities that exist.
LEMMA InsertableType ==
    ASSUME TypeInv, NEW d, PlannedRow(d.planned), Insertable(d)
    PROVE  d.planned \in PeriodicReports
<1> DEFINE p == d.planned
<1>1. p.trends \in Runs \cup {None}
  BY DEF Insertable, Served, Published
<1>2. p.highlights \in SUBSET MetricRows
  <2>1. CASE p.trends = None
    BY <2>1 DEF Insertable, Highlightable, Highlights
  <2>2. CASE p.trends \in Runs
    <3>1. trends[p.trends] \in SUBSET [days : Windows, current : SUBSET MetricRows,
                                      preceding : SUBSET MetricRows, runs : SUBSET Runs]
      BY <2>2 DEF TypeInv, AggregatesType, TrendRows
    <3>2. Highlights(trends[p.trends]) \in SUBSET MetricRows
      BY <2>2, <3>1, HighlightsType DEF TypeInv, AggregatesType
    <3>3. p.highlights \subseteq Highlights(trends[p.trends])
      BY <2>2, NoneIsNoReport DEF Insertable, Highlightable
    <3>4. QED
      BY <3>2, <3>3
  <2>3. QED
    BY <1>1, <2>1, <2>2
<1>3. p = [runs |-> p.runs, trends |-> p.trends, failures |-> p.failures, status |-> p.status,
           highlights |-> p.highlights]
      /\ p.runs \subseteq Runs /\ p.failures \subseteq Versions /\ p.status \in Finished
  BY DEF PlannedRow
<1> HIDE DEF p
<1>4. p \in PeriodicReports
  BY <1>1, <1>2, <1>3 DEF PeriodicReports, Finished
<1>5. QED
  BY <1>4 DEF p

LEMMA PeriodicStep ==
    ASSUME TypeInv, [Next]_vars
    PROVE  PeriodicType'
<1>1. PeriodicType /\ AttemptInv
  BY DEF TypeInv
<1>2. \A d \in drafts : Draft(d)'
  BY <1>1, DraftsStay DEF PeriodicType
<1>3. CASE (\E w \in Workers : Quiet(w)) \/ UNCHANGED vars
  <2>1. UNCHANGED <<entities, periodic, drafts>>
    BY <1>3, QuietRows DEF rows, others, vars
  <2>2. PeriodicReports \subseteq PeriodicReports'
    BY <2>1, EntitiesGrow
  <2>3. QED
    BY <1>1, <1>2, <2>1, <2>2 DEF PeriodicType
<1>4. ASSUME NEW w \in Workers, Writes(w) PROVE PeriodicType'
  <2>1. drafts' = drafts
    BY <1>4, LaunchRows, WorkersRun, <1>1
       DEF Writes, Compare, PersistGraph, Aggregate, Publish, PublishAnswerLost, Commit, Discard, others
  <2>2. CASE Discard(w)
    <3>1. /\ entities' = entities \ view[w].doomed
          /\ periodic' = ReportWithout(periodic, view[w].doomed)
      BY <2>2 DEF Discard
    <3>2. ReportWithout(periodic, view[w].doomed) \in PeriodicReports' \cup {None}
      <4>1. CASE periodic = None
        BY <4>1 DEF ReportWithout
      <4>2. CASE periodic # None
        BY <1>1, <3>1, <4>2, PeriodicWithoutType DEF PeriodicType
      <4>3. QED
        BY <4>1, <4>2
    <3>3. QED
      BY <1>2, <2>1, <3>1, <3>2 DEF PeriodicType
  <2>3. CASE ~Discard(w)
    <3>1. periodic' = periodic
      BY <1>4, <2>3, LaunchRows, WorkersRun, <1>1
         DEF Writes, Compare, PersistGraph, Aggregate, Publish, PublishAnswerLost, Commit, others
    <3>2. PeriodicReports \subseteq PeriodicReports'
      BY <1>4, <2>3, EntitiesStay, EntitiesGrow
    <3>3. QED
      BY <1>1, <1>2, <2>1, <3>1, <3>2 DEF PeriodicType
  <2>4. QED
    BY <2>2, <2>3
<1>5. ASSUME Periodic PROVE PeriodicType'
  <2>1. entities' = entities /\ Published' = Published
    BY <1>5, PeriodicRows DEF rows, Published
  <2>2. PeriodicReports \subseteq PeriodicReports'
    BY <2>1, EntitiesGrow
  <2>3. CASE ReadReports
    <3>1. drafts' = drafts \cup {[runs |-> Served, planned |-> None]} /\ periodic' = periodic
      BY <2>3 DEF ReadReports
    <3>2. Served \subseteq Published
      BY DEF Served
    <3> DEFINE S == Served
    <3>3. S \subseteq Published'
      BY <2>1, <3>2
    <3> HIDE DEF S
    <3>4. PICK d : d = [runs |-> S, planned |-> None]
      OBVIOUS
    <3>5. Draft(d)'
      BY <3>3, <3>4 DEF Draft
    <3>6. drafts' = drafts \cup {d}
      BY <3>1, <3>4 DEF S
    <3>7. QED
      BY <1>1, <1>2, <2>2, <3>1, <3>5, <3>6 DEF PeriodicType
  <2>4. CASE ReadTrends
    <3>1. PICK d \in drafts : drafts' = (drafts \ {d}) \cup {[d EXCEPT !.planned = PlannedPeriod(d.runs)]}
      BY <2>4 DEF ReadTrends
    <3>2. periodic' = periodic
      BY <2>4 DEF ReadTrends
    <3>3. Draft(d)
      BY <1>1 DEF PeriodicType
    <3>4. PICK p : p = PlannedPeriod(d.runs)
      OBVIOUS
    <3>5. PlannedRow(p) /\ p.runs = d.runs
      BY <3>3, <3>4, PlannedPeriodType DEF Draft
    <3>6. PICK e : e = [d EXCEPT !.planned = p]
      OBVIOUS
    <3>7. e = [runs |-> d.runs, planned |-> p]
      BY <3>3, <3>6 DEF Draft
    <3>8. Draft(e)'
      BY <2>1, <3>3, <3>5, <3>7 DEF Draft, PlannedRow
    <3>9. QED
      BY <1>1, <1>2, <2>2, <3>1, <3>2, <3>4, <3>6, <3>8 DEF PeriodicType
  <2>5. CASE PersistPeriodic
    <3>1. PICK d \in drafts : /\ d.planned # None
                              /\ periodic # None \/ Insertable(d)
                              /\ periodic' = Persisted(d)
                              /\ drafts' = drafts \ {d}
      BY <2>5 DEF PersistPeriodic
    <3>2. periodic' \in PeriodicReports \cup {None}
      <4>1. CASE periodic # None
        BY <1>1, <3>1, <4>1 DEF Persisted, PeriodicType
      <4>2. CASE periodic = None
        BY <1>1, <3>1, <4>2, InsertableType DEF Persisted, PeriodicType, Draft
      <4>3. QED
        BY <4>1, <4>2
    <3>3. QED
      BY <1>2, <2>2, <3>1, <3>2 DEF PeriodicType
  <2>6. CASE TrendsUnread \/ PeriodicRefused
    <3>1. drafts' \subseteq drafts /\ periodic' = periodic
      BY <2>6 DEF TrendsUnread, PeriodicRefused
    <3>2. QED
      BY <1>1, <1>2, <2>2, <3>1 DEF PeriodicType
  <2>7. QED
    BY <1>5, <2>3, <2>4, <2>5, <2>6 DEF Periodic
<1>6. QED
  BY <1>3, <1>4, <1>5, NextKinds

----------------------------------------------------------------------------
(* Locks and what attempts know *)

LEMMA HolderStep ==
    ASSUME TypeInv, [Next]_vars
    PROVE  holder' \in [Dates -> Workers \cup {Nobody}]
<1>1. holder \in [Dates -> Workers \cup {Nobody}] /\ AttemptInv
  BY DEF TypeInv
<1>2. ASSUME NEW w \in Workers, Leave(w) PROVE holder' \in [Dates -> Workers \cup {Nobody}]
  BY <1>1, <1>2 DEF Leave
<1>3. ASSUME NEW w \in Workers, Quiet(w) PROVE holder' \in [Dates -> Workers \cup {Nobody}]
  <2>1. CASE \E r \in Runs : Open(w, r)
    BY <1>1, <2>1 DEF Open
  <2>2. CASE LoseLock(w)
    BY <1>1, <2>2 DEF LoseLock
  <2>3. CASE Leave(w) \/ holder' = holder
    BY <1>1, <1>2, <2>3
  <2>4. QED
    BY <1>3, <2>1, <2>2, <2>3
       DEF Quiet, BeginRefused, GraphRefused, GraphFails, ReadRuns, ReadGraphs, Abandon, AggregateRefused,
           PublishRefused, NarrativeFails, StatementFails, PickDoomed, DiscardFails, Crash, GiveUp
<1>4. ASSUME NEW w \in Workers, Writes(w) PROVE holder' \in [Dates -> Workers \cup {Nobody}]
  <2>1. Leave(w) \/ holder' = holder
    BY <1>4 DEF Writes, Start, Restart, Launch, Compare, PersistGraph, Aggregate, Publish,
                PublishAnswerLost, Discard, GiveUp
  <2>2. QED
    BY <1>1, <1>2, <1>4, <2>1
<1>5. CASE Periodic \/ UNCHANGED vars
  BY <1>1, <1>5, PeriodicRows DEF vars
<1>6. QED
  BY <1>3, <1>4, <1>5, NextKinds

\* The papers a corpus connects with one are papers.
LEMMA RelatedType == \A corpus, v : Related(corpus, v) \in SUBSET Versions
  BY DEF Related

LEMMA VisibleType == \A r \in Runs : Visible(r) \in SUBSET Runs
  BY DEF Visible, Published

LEMMA DoomedType ==
    ASSUME GraphType, NEW r
    PROVE  Doomed(r) \in SUBSET (Versions \cup Concepts)
<1>1. \A o \in occurrences : o.ends \in SUBSET (Versions \cup Concepts)
  BY DEF GraphType, OccurrenceRows
<1>2. QED
  BY <1>1 DEF Doomed, Own

\* What a step learns replaces the view of its worker with another view.
LEMMA ViewSet ==
    ASSUME ViewsType, NEW w \in Workers, NEW x \in Views, Graded(x.trends), view' = [view EXCEPT ![w] = x]
    PROVE  ViewsType'
  BY DEF ViewsType

LEMMA BlankType == BlankView \in Views /\ BlankView.trends = {}
<1>1. "ABSENT" \in Statuses
  BY DEF Statuses
<1>2. QED
  BY <1>1 DEF BlankView, Views

LEMMA BlankSet ==
    ASSUME ViewsType, NEW w \in Workers, view' = [view EXCEPT ![w] = BlankView]
    PROVE  ViewsType'
<1>1. Graded({})
  BY DEF Graded
<1>2. QED
  BY <1>1, BlankType, ViewSet

\* Fields of a view one by one.
LEMMA ViewFields ==
    ASSUME NEW x \in Views
    PROVE  /\ \A f \in Statuses : LET y == [x EXCEPT !.found = f] IN y \in Views /\ y.trends = x.trends
           /\ \A T \in SUBSET Versions :
                LET y == [x EXCEPT !.todo = T] IN y \in Views /\ y.trends = x.trends
           /\ \A C \in SUBSET Runs : LET y == [x EXCEPT !.corpus = C] IN y \in Views /\ y.trends = x.trends
           /\ \A F \in SUBSET Versions :
                LET y == [x EXCEPT !.failures = F] IN y \in Views /\ y.trends = x.trends
           /\ \A D \in SUBSET (Versions \cup Concepts) :
                LET y == [x EXCEPT !.doomed = D] IN y \in Views /\ y.trends = x.trends
<1>1. x \in Views
  OBVIOUS
<1>2. QED
  BY <1>1 DEF Views

LEMMA ViewPapers ==
    ASSUME NEW x \in Views, NEW T \in SUBSET Versions, NEW G \in SUBSET Versions
    PROVE  /\ [x EXCEPT !.todo = T, !.graphs = G] \in Views
           /\ [x EXCEPT !.todo = T, !.graphs = G].trends = x.trends
           /\ [x EXCEPT !.todo = T, !.graphless = G] \in Views
           /\ [x EXCEPT !.todo = T, !.graphless = G].trends = x.trends
<1>1. x \in Views
  OBVIOUS
<1>2. QED
  BY <1>1 DEF Views

LEMMA QuietViews ==
    ASSUME TypeInv, NEW w \in Workers, Quiet(w)
    PROVE  ViewsType'
<1>1. ViewsType /\ AttemptInv /\ GraphType
  BY DEF TypeInv
<1>2. view[w] \in Views /\ Graded(view[w].trends)
  BY <1>1 DEF ViewsType
<1>3. view = [u \in Workers |-> view[u]]
  BY <1>1 DEF ViewsType
<1>4. CASE Leave(w) \/ GiveUp(w)
  BY <1>1, <1>4, BlankSet DEF Leave, GiveUp
<1>5. CASE \E r \in Runs : Open(w, r)
  <2>1. PICK r \in Runs : view' = [view EXCEPT ![w].found = status[r]]
    BY <1>5 DEF Open
  <2> DEFINE x == [view[w] EXCEPT !.found = status[r]]
  <2>2. view' = [view EXCEPT ![w] = x]
    BY <2>1
  <2>3. x \in Views /\ x.trends = view[w].trends
    BY <1>1, <1>2, ViewFields DEF AttemptInv
  <2> HIDE DEF x
  <2>4. QED
    BY <1>1, <1>2, <2>2, <2>3, ViewSet
<1>6. CASE \E v \in Versions : GraphFails(w, v)
  <2>1. PICK v \in Versions :
          view' = [view EXCEPT ![w].todo = @ \ {v}, ![w].graphless = @ \cup {v}]
    BY <1>6 DEF GraphFails
  <2> DEFINE T == view[w].todo \ {v}
             G == view[w].graphless \cup {v}
             x == [view[w] EXCEPT !.todo = T, !.graphless = G]
  <2>2. view' = [view EXCEPT ![w] = x]
    BY <1>1, <2>1 DEF ViewsType, Views
  <2>3. T \in SUBSET Versions /\ G \in SUBSET Versions
    BY <1>2 DEF Views
  <2> HIDE DEF T, G
  <2>4. x \in Views /\ x.trends = view[w].trends
    BY <1>2, <2>3, ViewPapers
  <2> HIDE DEF x
  <2>5. QED
    BY <1>1, <1>2, <2>2, <2>4, ViewSet
<1>7. CASE ReadRuns(w)
  <2> DEFINE C == Visible(job[w])
             x == [view[w] EXCEPT !.corpus = C]
  <2>1. view' = [view EXCEPT ![w] = x]
    BY <1>7 DEF ReadRuns
  <2>2. C \in SUBSET Runs
    <3>1. job[w] \in Runs
      BY <1>1, <1>7 DEF ReadRuns, AttemptInv, Attempt
    <3>2. QED
      BY <3>1, VisibleType
  <2> HIDE DEF C
  <2>3. x \in Views /\ x.trends = view[w].trends
    BY <1>2, <2>2, ViewFields
  <2> HIDE DEF x
  <2>4. QED
    BY <1>1, <1>2, <2>1, <2>3, ViewSet
<1>8. CASE ReadGraphs(w)
  <2>1. PICK trendless \in BOOLEAN, roots \in SUBSET view[w].graphs :
          view' = [view EXCEPT
                ![w].trendless = trendless,
                ![w].trends = IF trendless THEN {} ELSE Snapshots(view[w].corpus, Date[job[w]]),
                ![w].lineages = {[root |-> v, nodes |-> Related(view[w].corpus, v)] : v \in roots}]
    BY <1>8 DEF ReadGraphs
  <2> DEFINE S == IF trendless THEN {} ELSE Snapshots(view[w].corpus, Date[job[w]])
             L == {[root |-> v, nodes |-> Related(view[w].corpus, v)] : v \in roots}
             x == [view[w] EXCEPT !.trendless = trendless, !.trends = S, !.lineages = L]
  <2>2. view' = [view EXCEPT ![w] = x]
    <3>1. view[w] = [view[w] EXCEPT !.found = view[w].found]
      BY <1>2 DEF Views
    <3>2. QED
      BY <2>1
  <2>3. S \in SUBSET SnapshotRows /\ Graded(S)
    <3>1. CASE trendless
      BY <3>1 DEF Graded
    <3>2. CASE ~trendless
      <4>1. view[w].corpus \in SUBSET Runs
        BY <1>2 DEF Views
      <4>2. QED
        BY <3>2, <4>1, SnapshotsType
    <3>3. QED
      BY <3>1, <3>2
  <2>4. L \in SUBSET [root : Versions, nodes : SUBSET Versions]
    <3>1. roots \in SUBSET Versions
      BY <1>2 DEF Views
    <3>2. QED
      BY <3>1, RelatedType
  <2> HIDE DEF S, L
  <2>5. x \in Views /\ x.trends = S
    <3>1. PICK y \in Views : y = view[w]
      BY <1>2
    <3>2. [y EXCEPT !.trendless = trendless, !.trends = S, !.lineages = L] \in Views
      BY <2>3, <2>4 DEF Views
    <3>3. [y EXCEPT !.trendless = trendless, !.trends = S, !.lineages = L].trends = S
      BY <2>3, <2>4 DEF Views
    <3>4. QED
      BY <3>1, <3>2, <3>3
  <2> HIDE DEF x
  <2>6. QED
    BY <1>1, <2>2, <2>3, <2>5, ViewSet
<1>9. CASE PickDoomed(w) /\ ~Leave(w)
  <2> DEFINE D == Doomed(job[w])
             x == [view[w] EXCEPT !.doomed = D]
  <2>1. view' = [view EXCEPT ![w] = x]
    BY <1>9 DEF PickDoomed
  <2>2. D \in SUBSET (Versions \cup Concepts)
    BY <1>1, DoomedType
  <2> HIDE DEF D
  <2>3. x \in Views /\ x.trends = view[w].trends
    BY <1>2, <2>2, ViewFields
  <2> HIDE DEF x
  <2>4. QED
    BY <1>1, <1>2, <2>1, <2>3, ViewSet
<1>10. CASE LoseLock(w)
  BY <1>1, <1>10 DEF LoseLock, ViewsType
<1>11. QED
  BY <1>4, <1>5, <1>6, <1>7, <1>8, <1>9, <1>10
     DEF Quiet, BeginRefused, GraphRefused, Abandon, AggregateRefused, PublishRefused, NarrativeFails,
         StatementFails, DiscardFails, Crash

LEMMA WriteViews ==
    ASSUME TypeInv, NEW w \in Workers, Writes(w)
    PROVE  ViewsType'
<1>1. ViewsType /\ AttemptInv /\ GraphType
  BY DEF TypeInv
<1>2. view[w] \in Views /\ Graded(view[w].trends)
  BY <1>1 DEF ViewsType
<1>3. PICK r \in Runs : r = job[w]
  BY <1>1, WorkersRun
<1>4. CASE Leave(w) \/ GiveUp(w)
  BY <1>1, <1>4, BlankSet DEF Leave, GiveUp
<1>5. CASE Start(w) \/ Restart(w)
  <2>1. view' = [view EXCEPT ![w] = [view[w] EXCEPT !.todo = Papers(r)]]
    BY <1>3, <1>5, LaunchRows
  <2> DEFINE x == [view[w] EXCEPT !.todo = Papers(r)]
  <2>2. x \in Views /\ x.trends = view[w].trends
    BY <1>2, ViewFields, PlannedItemsType
  <2>3. view' = [view EXCEPT ![w] = x]
    BY <2>1
  <2> HIDE DEF x
  <2>4. QED
    BY <1>1, <1>2, <2>2, <2>3, ViewSet
<1>6. CASE \E v \in Versions : Compare(w, v)
  BY <1>1, <1>6 DEF Compare, ViewsType
<1>7. CASE \E v \in Versions : PersistGraph(w, v)
  <2>1. PICK v \in Versions :
          view' = [view EXCEPT ![w].todo = @ \ {v}, ![w].graphs = @ \cup {v}]
    BY <1>7 DEF PersistGraph
  <2> DEFINE T == view[w].todo \ {v}
             G == view[w].graphs \cup {v}
             x == [view[w] EXCEPT !.todo = T, !.graphs = G]
  <2>2. view' = [view EXCEPT ![w] = x]
    BY <1>1, <2>1 DEF ViewsType, Views
  <2>3. T \in SUBSET Versions /\ G \in SUBSET Versions
    BY <1>2 DEF Views
  <2> HIDE DEF T, G
  <2>4. x \in Views /\ x.trends = view[w].trends
    BY <1>2, <2>3, ViewPapers
  <2> HIDE DEF x
  <2>5. QED
    BY <1>1, <1>2, <2>2, <2>4, ViewSet
<1>8. CASE Aggregate(w)
  <2> DEFINE F == Failures(r)
             x == [view[w] EXCEPT !.failures = F]
  <2>1. view' = [view EXCEPT ![w] = x]
    BY <1>3, <1>8 DEF Aggregate
  <2>2. F \in SUBSET Versions
    BY DEF Failures, ItemsIn
  <2> HIDE DEF F
  <2>3. x \in Views /\ x.trends = view[w].trends
    BY <1>2, <2>2, ViewFields
  <2> HIDE DEF x
  <2>4. QED
    BY <1>1, <1>2, <2>1, <2>3, ViewSet
<1>9. QED
  BY <1>4, <1>5, <1>6, <1>7, <1>8 DEF Writes, Publish, PublishAnswerLost, Discard

----------------------------------------------------------------------------

LEMMA TypeStart == Init => TypeInv
<1> SUFFICES ASSUME Init PROVE TypeInv
  OBVIOUS
<1>1. item \in [Runs -> [Versions -> ItemRows]]
  BY DEF Init, NoItem, ItemRows
<1>2. GraphType
  BY DEF Init, GraphType
<1>3. ReportsType
  BY DEF Init, ReportsType, Published
<1>4. AggregatesType
  BY DEF Init, AggregatesType, Graded
<1>5. PeriodicType
  BY DEF Init, PeriodicType
<1>6. holder \in [Dates -> Workers \cup {Nobody}]
  BY DEF Init
<1>7. ViewsType
  <2>1. Graded({})
    BY DEF Graded
  <2>2. QED
    BY <2>1, BlankType DEF Init, ViewsType
<1>8. FailedRunsLeaveNothing
  BY DEF Init, FailedRunsLeaveNothing
<1>9. QED
  BY <1>1, <1>2, <1>3, <1>4, <1>5, <1>6, <1>7, <1>8, AttemptStart DEF TypeInv

LEMMA TypeStep == TypeInv /\ [Next]_vars => TypeInv'
<1> SUFFICES ASSUME TypeInv, [Next]_vars PROVE TypeInv'
  OBVIOUS
<1>1. AttemptInv' /\ PeriodicType' /\ holder' \in [Dates' -> Workers \cup {Nobody}]
  BY AttemptStep, PeriodicStep, HolderStep DEF TypeInv, Dates
<1>2. CASE \E w \in Workers : Writes(w)
  <2>1. PICK w \in Workers : Writes(w)
    BY <1>2
  <2>2. QED
    BY <1>1, <2>1, ItemsStep, GraphStep, ReportsStep, AggregatesStep, FailedStep, WriteViews DEF TypeInv
<1>3. CASE (\E w \in Workers : Quiet(w)) \/ Periodic \/ UNCHANGED vars
  <2>1. UNCHANGED rows
    BY <1>3, QuietRows, PeriodicRows DEF vars, rows
  <2>2. item' \in [Runs -> [Versions -> ItemRows]]
    BY <2>1 DEF TypeInv, rows
  <2>3. GraphType'
    BY <2>1 DEF TypeInv, rows, GraphType, Mention, Edge
  <2>4. ReportsType'
    BY <2>1 DEF TypeInv, rows, ReportsType, Reports, MetricRows, Published
  <2>5. AggregatesType'
    BY <2>1 DEF TypeInv, rows, AggregatesType, TrendRows, LineageRows, MetricRows
  <2>6. FailedRunsLeaveNothing'
    BY <2>1 DEF TypeInv, rows, FailedRunsLeaveNothing, Own, ItemsIn
  <2>7. ViewsType'
    <3>1. CASE \E w \in Workers : Quiet(w)
      BY <3>1, QuietViews
    <3>2. CASE Periodic \/ UNCHANGED vars
      BY <3>2, PeriodicRows DEF vars, ViewsType, TypeInv
    <3>3. QED
      BY <1>3, <3>1, <3>2
  <2>8. QED
    BY <1>1, <2>2, <2>3, <2>4, <2>5, <2>6, <2>7 DEF TypeInv
<1>4. QED
  BY <1>2, <1>3, NextKinds

\* The rows of every reachable state are typed, and what they refer to exists.
THEOREM TypeInvariant == Spec => []TypeInv
  BY TypeStart, TypeStep, PTL DEF Spec

\* The references that the database checks, and the one it does not: a run has a
\* report exactly when it is published, which is for finalize_product_publication.
THEOREM TypeCorrect == Spec => []TypeOK
<1>1. TypeInv => TypeOK
  <2> SUFFICES ASSUME TypeInv PROVE TypeOK
    OBVIOUS
  <2>1. status \in [Runs -> {"ABSENT", "RUNNING", "FAILED", "COMPLETE", "PARTIAL"}]
    BY DEF TypeInv, AttemptInv, Statuses, Finished
  <2>2. \A r \in Runs : trends[r] \subseteq TrendRows /\ lineages[r] \subseteq LineageRows
    BY DEF TypeInv, AggregatesType
  <2>3. QED
    BY <2>1, <2>2 DEF TypeInv, TypeOK, GraphType, ReportsType, PeriodicType
<1>2. QED
  BY <1>1, TypeInvariant, PTL

\* fail_product_run, also when it waits for other transactions, leaves nothing of
\* the run, and nothing is added to a failed run before it restarts.
THEOREM FailedRunsClean == Spec => []FailedRunsLeaveNothing
<1>1. TypeInv => FailedRunsLeaveNothing
  BY DEF TypeInv
<1>2. QED
  BY <1>1, TypeInvariant, PTL

----------------------------------------------------------------------------
(* What trends count *)

\* What an attempt has read is visible to its run.
Reads(w) ==
    /\ pc[w] = "corpus" => view[w].corpus \subseteq Visible(job[w])
    /\ pc[w] = "aggregate" => \A s \in view[w].trends : s.runs \subseteq Visible(job[w])

TrendInv ==
    /\ \A w \in Workers : Reads(w)
    /\ \A r \in Runs : \A s \in trends[r] : s.runs \subseteq Visible(r)
    /\ \A r \in Published : report[r].highlights \subseteq Highlights(trends[r])

\* The views of the other workers stay.
LEMMA ViewsStay ==
    ASSUME TypeInv, NEW w \in Workers, Quiet(w) \/ Writes(w), NEW u \in Workers, u # w
    PROVE  view'[u] = view[u] /\ pc'[u] = pc[u] /\ job'[u] = job[u]
<1>1. AttemptInv
  BY DEF TypeInv
<1>2. pc'[u] = pc[u] /\ job'[u] = job[u]
  BY <1>1, QuietMoves, WriteMoves DEF OthersStay
<1>3. view'[u] = view[u]
  <2>1. view = [x \in Workers |-> view[x]]
    BY DEF TypeInv, ViewsType
  <2>2. CASE Leave(w) \/ GiveUp(w) \/ view' = view
    BY <2>1, <2>2 DEF Leave, GiveUp
  <2>3. CASE ~(Leave(w) \/ GiveUp(w) \/ view' = view) /\ Quiet(w)
    BY <2>1, <2>3 DEF Quiet, Open, BeginRefused, GraphRefused, GraphFails, ReadRuns, ReadGraphs, Abandon,
         AggregateRefused, PublishRefused, NarrativeFails, StatementFails, PickDoomed,
         DiscardFails, Crash, LoseLock
  <2>4. CASE ~(Leave(w) \/ GiveUp(w) \/ view' = view) /\ Writes(w)
    BY <2>1, <2>4 DEF Writes, Start, Restart, Launch, Compare, PersistGraph, Aggregate, Publish,
         PublishAnswerLost, Discard
  <2>5. QED
    BY <2>2, <2>3, <2>4
<1>4. QED
  BY <1>2, <1>3

LEMMA VisibleGrows ==
    ASSUME Published \subseteq Published'
    PROVE  \A r \in Runs : Visible(r) \subseteq Visible(r)'
  BY DEF Visible

\* Quiet steps read what is visible.
LEMMA ReadsStep ==
    ASSUME TypeInv, TrendInv, NEW w \in Workers, Quiet(w) \/ Writes(w)
    PROVE  \A u \in Workers : Reads(u)'
<1>1. AttemptInv /\ Published \subseteq Published'
  BY PublishedGrows, NextKinds DEF TypeInv
<1>2. ASSUME NEW u \in Workers, pc'[u] = pc[u], job'[u] = job[u], view'[u] = view[u]
      PROVE  Reads(u)'
  <2>1. PICK r \in Runs \cup {None} : r = job[u]
    BY <1>1 DEF AttemptInv
  <2>2. pc[u] \in {"corpus", "aggregate"} => r \in Runs
    BY <1>1, <2>1 DEF AttemptInv, Attempt
  <2>3. pc[u] \in {"corpus", "aggregate"} => Visible(r) \subseteq Visible(r)'
    BY <1>1, <2>2, VisibleGrows
  <2>4. QED
    BY <1>2, <2>1, <2>3 DEF TrendInv, Reads
<1>3. ASSUME NEW u \in Workers, u # w PROVE Reads(u)'
  BY <1>2, <1>3, ViewsStay
<1>4. Reads(w)'
  <2>1. CASE pc'[w] \notin {"corpus", "aggregate"}
    BY <2>1 DEF Reads
  <2>2. CASE LoseLock(w)
    BY <1>2, <2>2 DEF LoseLock
  <2>3. CASE ReadRuns(w)
    <3>1. PICK r \in Runs : r = job[w]
      BY <1>1, <2>3 DEF ReadRuns, AttemptInv, Attempt
    <3>2. view'[w].corpus = Visible(r) /\ Visible(r)' = Visible(r) /\ pc'[w] = "corpus" /\ job'[w] = r
      BY <1>1, <2>3, <3>1 DEF ReadRuns, TypeInv, ViewsType, Views, AttemptInv, Goto, Visible, Published, rows
    <3>3. QED
      BY <3>2 DEF Reads
  <2>4. CASE ReadGraphs(w)
    <3>1. PICK r \in Runs : r = job[w]
      BY <1>1, <2>4 DEF ReadGraphs, AttemptInv, Attempt
    <3>2. pc'[w] = "aggregate" /\ job'[w] = r /\ Visible(r)' = Visible(r)
      BY <1>1, <2>4, <3>1 DEF ReadGraphs, AttemptInv, Goto, Visible, Published, rows
    <3>3. view'[w].trends \subseteq Snapshots(view[w].corpus, Date[r])
      <4>1. PICK trendless \in BOOLEAN, roots \in SUBSET view[w].graphs :
              view' = [view EXCEPT
                ![w].trendless = trendless,
                ![w].trends = IF trendless THEN {} ELSE Snapshots(view[w].corpus, Date[job[w]]),
                ![w].lineages = {[root |-> v, nodes |-> Related(view[w].corpus, v)] : v \in roots}]
        BY <2>4 DEF ReadGraphs
      <4> DEFINE S == IF trendless THEN {} ELSE Snapshots(view[w].corpus, Date[r])
                 L == {[root |-> v, nodes |-> Related(view[w].corpus, v)] : v \in roots}
                 x == [view[w] EXCEPT !.trendless = trendless, !.trends = S, !.lineages = L]
      <4>2. view' = [view EXCEPT ![w] = x]
        BY <3>1, <4>1
      <4>3. view[w] \in Views
        BY DEF TypeInv, ViewsType
      <4> HIDE DEF S, L
      <4>4. x.trends = S
        BY <4>3 DEF Views
      <4> HIDE DEF x
      <4>5. view'[w] = x
        BY <4>2 DEF TypeInv, ViewsType
      <4>6. QED
        BY <4>4, <4>5 DEF S
    <3>4. view[w].corpus \in SUBSET Runs
      BY DEF TypeInv, ViewsType, Views
    <3>5. \A s \in view'[w].trends : s.runs \subseteq view[w].corpus
      BY <3>3, <3>4, SnapshotsType
    <3>6. view[w].corpus \subseteq Visible(r)
      BY <2>4, <3>1 DEF ReadGraphs, TrendInv, Reads
    <3>7. QED
      BY <3>2, <3>5, <3>6 DEF Reads
  <2>5. CASE Writes(w)
    <3>1. CASE \E v \in Versions : Compare(w, v) \/ PersistGraph(w, v)
      BY <1>1, <2>1, <3>1 DEF Compare, PersistGraph
    <3>2. CASE Aggregate(w)
      BY <1>1, <2>1, <3>2 DEF Aggregate, Goto, AttemptInv
    <3>3. CASE Start(w) \/ Restart(w)
      BY <1>1, <2>1, <3>3 DEF Start, Restart, Launch, Goto, AttemptInv
    <3>4. CASE Leave(w) \/ GiveUp(w)
      BY <1>1, <2>1, <3>4, LeaveMoves, GiveUpMoves
    <3>5. QED
      BY <2>5, <3>1, <3>2, <3>3, <3>4 DEF Writes, Publish, PublishAnswerLost, Discard
  <2>6. CASE Leave(w) \/ GiveUp(w)
    BY <1>1, <2>1, <2>6, LeaveMoves, GiveUpMoves
  <2>7. CASE \E r \in Runs : Open(w, r)
    BY <1>1, <2>1, <2>7 DEF Open, Goto, AttemptInv
  <2>8. CASE \E v \in Versions : GraphFails(w, v)
    BY <1>1, <2>1, <2>8 DEF GraphFails
  <2>9. CASE PickDoomed(w)
    BY <1>1, <2>1, <2>6, <2>9 DEF PickDoomed, Goto, AttemptInv
  <2>10. QED
    BY <2>1, <2>2, <2>3, <2>4, <2>5, <2>6, <2>7, <2>8, <2>9
       DEF Quiet, BeginRefused, GraphRefused, Abandon, AggregateRefused, PublishRefused, NarrativeFails,
           StatementFails, DiscardFails, Crash
<1>5. QED
  BY <1>3, <1>4

LEMMA TrendStart == Init => TrendInv
  BY DEF Init, TrendInv, Reads, Published

\* The trends of a run are stored by its attempt, and lose rows with the entities.
LEMMA TrendRunsStep ==
    ASSUME TypeInv, TrendInv, NEW w \in Workers, Writes(w)
    PROVE  \A r \in Runs : \A s \in trends'[r] : s.runs \subseteq Visible(r)'
<1>1. AttemptInv /\ Published \subseteq Published'
  BY PublishedGrows, NextKinds DEF TypeInv
<1>2. \A r \in Runs : Visible(r) \subseteq Visible(r)'
  BY <1>1, VisibleGrows
<1>3. PICK q \in Runs : q = job[w]
  BY <1>1, WorkersRun
<1>4. trends \in [Runs -> SUBSET TrendRows]
  BY DEF TypeInv, AggregatesType
<1>5. CASE Aggregate(w)
  <2>1. trends' = [trends EXCEPT ![q] = view[w].trends] /\ pc[w] = "aggregate"
    BY <1>3, <1>5 DEF Aggregate
  <2>2. \A s \in view[w].trends : s.runs \subseteq Visible(q)
    BY <1>3, <2>1 DEF TrendInv, Reads
  <2>3. QED
    BY <1>2, <1>4, <2>1, <2>2 DEF TrendInv
<1>6. CASE Discard(w)
  <2> DEFINE gone == view[w].doomed
             lost == [r \in Runs |-> TrendsWithout(trends[r], gone)]
  <2>1. trends' = [lost EXCEPT ![q] = {}]
    BY <1>3, <1>6 DEF Discard, RemainingAggregates
  <2>2. ASSUME NEW r \in Runs, NEW t \in TrendsWithout(trends[r], gone)
        PROVE  \E s \in trends[r] : s.runs = t.runs
    <3>1. trends[r] \in SUBSET TrendRows
      BY <1>4
    <3>2. QED
      BY <2>2, <3>1, TrendsWithoutRuns
  <2>3. QED
    BY <1>2, <2>1, <2>2 DEF TrendInv
<1>7. CASE ~Aggregate(w) /\ ~Discard(w)
  <2>1. trends' = trends
    BY <1>3, <1>7, LaunchRows DEF Writes, Compare, PersistGraph, Publish, PublishAnswerLost, Commit
  <2>2. QED
    BY <1>2, <2>1 DEF TrendInv
<1>8. QED
  BY <1>5, <1>6, <1>7

\* A report highlights what its trends count, before and after a cascade.
LEMMA HighlightsStep ==
    ASSUME TypeInv, TrendInv, NEW w \in Workers, Writes(w)
    PROVE  \A r \in Published' : report'[r].highlights \subseteq Highlights(trends'[r])
<1>1. AttemptInv /\ ReportsType
  BY DEF TypeInv
<1>2. PICK q \in Runs : q = job[w]
  BY <1>1, WorkersRun
<1>3. trends \in [Runs -> SUBSET TrendRows] /\ \A r \in Runs : Graded(trends[r])
  BY DEF TypeInv, AggregatesType
<1>4. CASE Publish(w) \/ PublishAnswerLost(w)
  <2>1. Commit(w)
    BY <1>4 DEF Publish, PublishAnswerLost
  <2>2. report' = [report EXCEPT ![q] = Planned(w)] /\ trends' = trends
    BY <1>2, <2>1, CommitReport DEF Commit
  <2>3. Planned(w).highlights \subseteq Highlights(trends[q])
    BY <1>2, <2>1 DEF Commit, Highlightable
  <2>4. Published' \subseteq Published \cup {q}
    BY <1>1, <1>2, WriteMoves DEF Published
  <2>5. QED
    BY <1>1, <2>2, <2>3, <2>4 DEF TrendInv, ReportsType
<1>5. CASE ~(Publish(w) \/ PublishAnswerLost(w))
  <2>1. Published' = Published /\ q \notin Published'
    <3>1. \/ pc[w] = "begin" /\ status[q] \in {"ABSENT", "FAILED"} /\ status'[q] = "RUNNING"
          \/ pc[w] \in Staging /\ status' = status
          \/ pc[w] = "delete" /\ status'[q] = "FAILED"
      BY <1>1, <1>2, <1>5, WriteMoves
         DEF Writes, Start, Restart, Compare, PersistGraph, Aggregate, Discard
    <3>2. status[q] \notin Finished /\ status'[q] \notin Finished
      BY <1>1, <1>2, <3>1 DEF AttemptInv, Attempt, Staging, Finished
    <3>3. QED
      BY <1>1, <1>2, <3>2, WriteMoves DEF Published, Finished
  <2>2. CASE Discard(w)
    <3> DEFINE gone == view[w].doomed
               lost == [r \in Runs |-> TrendsWithout(trends[r], gone)]
    <3>1. /\ trends' = [lost EXCEPT ![q] = {}] /\ entities' = entities \ gone
          /\ report' = [r \in Runs |-> ReportWithout(report[r], gone)]
      BY <1>2, <2>2 DEF Discard, RemainingAggregates
    <3>2. ASSUME NEW r \in Published
          PROVE  ReportWithout(report[r], gone).highlights \subseteq Highlights(TrendsWithout(trends[r], gone))
      <4>1. r \in Runs /\ report[r] \in Reports
        BY <1>1, <3>2 DEF ReportsType, Published
      <4>2. ReportWithout(report[r], gone).highlights = Without(report[r].highlights, gone)
        BY <3>1, <4>1, ReportWithoutType
      <4>3. report[r].highlights \subseteq Highlights(trends[r])
        BY <3>2 DEF TrendInv
      <4>4. trends[r] \in SUBSET [days : Windows, current : SUBSET MetricRows, preceding : SUBSET MetricRows,
                                  runs : SUBSET Runs] /\ Graded(trends[r])
        BY <1>3, <4>1 DEF TrendRows
      <4>5. \A x \in MetricRows : x[1] \notin gone => x \in MetricRows
        OBVIOUS
      <4>6. Without(report[r].highlights, gone) \subseteq Highlights(TrendsWithout(trends[r], gone))
        BY <4>3, <4>4, <4>5, TrendsWithoutType
      <4>7. QED
        BY <4>2, <4>6
    <3>3. \A r \in Published : r \in Runs /\ r # q
      BY <2>1 DEF Published
    <3> HIDE DEF gone
    <3>4. QED
      BY <2>1, <3>1, <3>2, <3>3
  <2>3. CASE ~Discard(w)
    <3>1. report' = report
      BY <1>2, <1>5, <2>3, LaunchRows DEF Writes, Compare, PersistGraph, Aggregate
    <3>2. \A r \in Runs \ {q} : trends'[r] = trends[r]
      BY <1>2, <1>3, <1>5, <2>3, LaunchRows DEF Writes, Compare, PersistGraph, Aggregate
    <3>3. QED
      BY <2>1, <3>1, <3>2 DEF TrendInv, Published
  <2>4. QED
    BY <2>2, <2>3
<1>6. QED
  BY <1>4, <1>5

LEMMA TrendStep == TypeInv /\ TrendInv /\ [Next]_vars => TrendInv'
<1> SUFFICES ASSUME TypeInv, TrendInv, [Next]_vars PROVE TrendInv'
  OBVIOUS
<1>1. CASE \E w \in Workers : Writes(w)
  BY <1>1, ReadsStep, TrendRunsStep, HighlightsStep DEF TrendInv
<1>2. CASE (\E w \in Workers : Quiet(w)) \/ Periodic \/ UNCHANGED vars
  <2>1. UNCHANGED rows
    BY <1>2, QuietRows, PeriodicRows DEF vars, rows
  <2>2. \A u \in Workers : Reads(u)'
    <3>1. CASE \E w \in Workers : Quiet(w)
      BY <3>1, ReadsStep
    <3>2. CASE Periodic \/ UNCHANGED vars
      BY <3>2, PeriodicRows DEF vars, rows, TrendInv, Reads, Visible, Published
    <3>3. QED
      BY <1>2, <3>1, <3>2
  <2>3. QED
    BY <2>1, <2>2 DEF TrendInv, rows, Visible, Published
<1>3. QED
  BY <1>1, <1>2, NextKinds

\* What attempts have read and trends count stays visible to their run.
THEOREM TrendInvariant == Spec => []TrendInv
  BY TrendStart, TrendStep, TypeInvariant, PTL DEF Spec

\* get_graph_corpus reads the published runs up to the date and the run itself, and
\* what it read stays published: no trend counts a run that fails later.
THEOREM TrendsAreFinal == Spec => []TrendsCountPublishedWork
<1>1. TypeInv /\ TrendInv => TrendsCountPublishedWork
  BY DEF TrendInv, TrendsCountPublishedWork, Visible, Published
<1>2. QED
  BY <1>1, TrendInvariant, TypeInvariant, PTL

----------------------------------------------------------------------------
(* Graphs *)

GraphStages == {"GRAPH_UPDATED", "TREND_SNAPSHOTS_GENERATED"}

\* An item whose run has stored or used the whole graph of its paper.
InGraph(r, v) ==
    \/ status[r] = "RUNNING" /\ item[r][v].stage \in GraphStages
    \/ r \in Published /\ v \in WithGraph(r)

Has(r, v) ==
    \A ends \in Occurrences(v) :
        \E o \in occurrences \cup cascaded : o.space = Space[r] /\ o.version = v /\ o.ends = ends

\* The cascade has taken an occurrence that was in the place of this one.
Replaced(o) == \E c \in cascaded : c.space = o.space /\ c.version = o.version /\ c.ends = o.ends

Safe(r, v) == \A o \in Rivals(r, v) : MayUse(r, o) \/ Replaced(o)

\* The papers an attempt has stored the graph of.
Graphs(w) ==
    /\ pc[w] \in {"idle", "begin"} => view[w].graphs = {}
    /\ pc[w] \in {"paper", "corpus", "aggregate"} =>
         \A v \in view[w].graphs : item[job[w]][v].stage \in GraphStages

GraphInv ==
    /\ cascaded \subseteq OccurrenceRows
    /\ \A r \in Runs \ Published : ItemsIn(r, "COMPLETED") = {}
    /\ \A w \in Workers : Graphs(w)
    /\ \A r \in Runs, v \in Versions : InGraph(r, v) => Has(r, v) /\ Safe(r, v)

LEMMA GraphStart == Init => GraphInv
  BY DEF Init, GraphInv, Graphs, InGraph, Published, ItemsIn, NoItem, BlankView

\* Whoever writes a run is the only one inside it.
LEMMA Apart ==
    ASSUME AttemptInv, NEW w \in Workers, Writes(w)
    PROVE  \A u \in Workers \ {w} : pc[u] \in Inside => job[u] # job[w]
  BY WriteMoves DEF AttemptInv, Exclusive, Attempt, Inside, Staging, Finished

\* What a quiet step does to the graphs its worker knows of.
LEMMA QuietGraphs ==
    ASSUME TypeInv, NEW w \in Workers, Quiet(w)
    PROVE  \/ pc'[w] \in {"idle", "discard"} /\ view'[w].graphs = {}
           \/ pc[w] = "idle" /\ pc'[w] = "begin" /\ view'[w].graphs = view[w].graphs
           \/ pc'[w] = pc[w] /\ job'[w] = job[w] /\ view'[w].graphs = view[w].graphs
           \/ pc[w] \in {"paper", "corpus"} /\ pc'[w] \in {"corpus", "aggregate"} /\ job'[w] = job[w]
              /\ view'[w].graphs = view[w].graphs
           \/ pc'[w] = "delete"
<1>1. AttemptInv /\ view \in [Workers -> Views]
  BY DEF TypeInv, ViewsType
<1>2. view[w] \in Views /\ view = [u \in Workers |-> view[u]] /\ pc = [u \in Workers |-> pc[u]]
  BY <1>1 DEF AttemptInv
<1>3. CASE Leave(w) \/ GiveUp(w)
  BY <1>1, <1>3, LeaveMoves, GiveUpMoves DEF Leave, GiveUp, BlankView
<1>4. CASE \E r \in Runs : Open(w, r)
  <2>1. PICK r \in Runs : Open(w, r)
    BY <1>4
  <2>2. view' = [view EXCEPT ![w] = [view[w] EXCEPT !.found = status[r]]] /\ pc[w] = "idle"
        /\ pc' = [pc EXCEPT ![w] = "begin"]
    BY <2>1 DEF Open, Goto
  <2>3. QED
    BY <1>1, <1>2, <2>2 DEF Views
<1>5. CASE \E v \in Versions : GraphFails(w, v)
  <2>1. PICK v \in Versions : GraphFails(w, v)
    BY <1>5
  <2>2. view' = [view EXCEPT ![w].todo = @ \ {v}, ![w].graphless = @ \cup {v}] /\ UNCHANGED <<pc, job>>
    BY <2>1 DEF GraphFails
  <2>3. view'[w].graphs = view[w].graphs
    BY <1>1, <1>2, <2>2 DEF Views
  <2>4. QED
    BY <2>2, <2>3
<1>6. CASE ReadRuns(w)
  <2>1. view' = [view EXCEPT ![w].corpus = Visible(job[w])] /\ job' = job
        /\ pc[w] = "paper" /\ pc' = [pc EXCEPT ![w] = "corpus"]
    BY <1>6 DEF ReadRuns, Goto
  <2>2. view'[w].graphs = view[w].graphs
    BY <1>1, <1>2, <2>1 DEF Views
  <2>3. QED
    BY <1>1, <1>2, <2>1, <2>2
<1>7. CASE ReadGraphs(w)
  <2>1. job' = job /\ pc[w] = "corpus" /\ pc' = [pc EXCEPT ![w] = "aggregate"]
    BY <1>7 DEF ReadGraphs, Goto
  <2>2. PICK trendless \in BOOLEAN, roots \in SUBSET view[w].graphs :
              view' = [view EXCEPT
                ![w].trendless = trendless,
                ![w].trends = IF trendless THEN {} ELSE Snapshots(view[w].corpus, Date[job[w]]),
                ![w].lineages = {[root |-> v, nodes |-> Related(view[w].corpus, v)] : v \in roots}]
    BY <1>7 DEF ReadGraphs
  <2> DEFINE S == IF trendless THEN {} ELSE Snapshots(view[w].corpus, Date[job[w]])
             L == {[root |-> v, nodes |-> Related(view[w].corpus, v)] : v \in roots}
             x == [view[w] EXCEPT !.trendless = trendless, !.trends = S, !.lineages = L]
  <2>3. view' = [view EXCEPT ![w] = x]
    BY <2>2
  <2> HIDE DEF S, L
  <2>4. x.graphs = view[w].graphs
    BY <1>2 DEF Views
  <2> HIDE DEF x
  <2>5. view'[w] = x
    BY <1>2, <2>3
  <2>6. QED
    BY <1>2, <2>1, <2>4, <2>5
<1>8. CASE PickDoomed(w) /\ ~Leave(w)
  BY <1>1, <1>2, <1>8 DEF PickDoomed, Goto
<1>9. CASE LoseLock(w)
  BY <1>9 DEF LoseLock
<1>10. QED
  BY <1>3, <1>4, <1>5, <1>6, <1>7, <1>8, <1>9
     DEF Quiet, BeginRefused, GraphRefused, Abandon, AggregateRefused, PublishRefused, NarrativeFails,
         StatementFails, DiscardFails, Crash

\* An occurrence that a run may use is its own or of a published run, so what one of
\* them has is not what a discarded run has.
LEMMA KeptWithPublished ==
    ASSUME NEW r, NEW v, Has(r, v), Safe(r, v),
           Published \subseteq Published', cascaded \subseteq cascaded',
           \A o \in occurrences : o \in occurrences' \/ o \in cascaded' \/ ~MayUse(r, o),
           \A o \in occurrences' : o \in occurrences \/ (o.owner = r) \/ Replaced(o)'
                \/ o.space # Space[r] \/ o.version # v \/ o.ends \notin Occurrences(v)
    PROVE  Has(r, v)' /\ Safe(r, v)'
<1>1. ASSUME NEW o \in occurrences, o \in Rivals(r, v), MayUse(r, o) PROVE MayUse(r, o)'
  BY <1>1 DEF MayUse
<1>2. ASSUME NEW o, Replaced(o) PROVE Replaced(o)'
  BY <1>2 DEF Replaced
<1>3. Has(r, v)'
  <2>1. ASSUME NEW ends \in Occurrences(v)
        PROVE  \E o \in occurrences' \cup cascaded' : o.space = Space[r] /\ o.version = v /\ o.ends = ends
    <3>1. PICK o \in occurrences \cup cascaded : o.space = Space[r] /\ o.version = v /\ o.ends = ends
      BY DEF Has
    <3>2. CASE o \in cascaded \/ o \in occurrences' \/ o \in cascaded'
      BY <3>1, <3>2
    <3>3. CASE o \in occurrences /\ ~MayUse(r, o)
      <4>1. o \in Rivals(r, v)
        BY <3>1, <3>3 DEF Rivals
      <4>2. ~MayUse(r, o)
        BY <3>3
      <4>3. PICK c \in cascaded : c.space = o.space /\ c.version = o.version /\ c.ends = o.ends
        BY <4>1, <4>2 DEF Safe, Replaced
      <4>4. QED
        BY <3>1, <4>3
    <3>4. QED
      BY <3>1, <3>2, <3>3
  <2>2. QED
    BY <2>1 DEF Has
<1>4. Safe(r, v)'
  <2>1. ASSUME NEW o \in Rivals(r, v)' PROVE MayUse(r, o)' \/ Replaced(o)'
    <3>1. o \in occurrences' /\ o.space = Space[r] /\ o.version = v /\ o.ends \in Occurrences(v)
      BY DEF Rivals
    <3>2. CASE o \in occurrences
      <4>1. o \in Rivals(r, v)
        BY <3>1, <3>2 DEF Rivals
      <4>2. QED
        BY <1>1, <1>2, <3>2, <4>1 DEF Safe
    <3>3. CASE o.owner = r
      BY <3>3 DEF MayUse
    <3>4. QED
      BY <3>1, <3>2, <3>3
  <2>2. QED
    BY <2>1 DEF Safe
<1>5. QED
  BY <1>3, <1>4

\* persist_product_graph gives a paper its whole graph, and no other paper an
\* occurrence that it did not have.
LEMMA PersistKeeps ==
    ASSUME TypeInv, GraphInv, NEW w \in Workers, NEW v \in Versions, PersistGraph(w, v)
    PROVE  \A q \in Runs, u \in Versions : InGraph(q, u)' => Has(q, u)' /\ Safe(q, u)'
<1>1. PICK r \in Runs : r = job[w] /\ status[r] = "RUNNING"
  <2>1. Writes(w) /\ pc[w] = "paper"
    BY DEF Writes, PersistGraph
  <2>2. QED
    BY <2>1, WorkersRun DEF TypeInv, Staging
<1> DEFINE new == {Stored(<<v, ends>>, r) : ends \in Occurrences(v) \ {o.ends : o \in Rivals(r, v)}}
<1>2. /\ \A o \in Rivals(r, v) : MayUse(r, o)
      /\ occurrences' = occurrences \cup new
      /\ UNCHANGED <<status, cascaded, report>>
      /\ SetStage(r, {v}, "GRAPH_UPDATED")
  BY <1>1 DEF PersistGraph
<1>3. item \in [Runs -> [Versions -> ItemRows]]
  BY DEF TypeInv
<1>4. /\ \A q \in Runs \ {r} : item'[q] = item[q]
      /\ \A u \in Versions : /\ item'[r][u].status = item[r][u].status
                             /\ item'[r][u].stage = IF u \in {v} THEN "GRAPH_UPDATED" ELSE item[r][u].stage
  BY <1>2, <1>3, StageSet
<1>5. ASSUME NEW o \in new
      PROVE  /\ o.space = Space[r] /\ o.version = v /\ o.owner = r /\ o.ends \in Occurrences(v)
             /\ \A x \in Rivals(r, v) : x.ends # o.ends
  <2>1. PICK ends \in Occurrences(v) \ {x.ends : x \in Rivals(r, v)} :
          o = [space |-> Space[r], version |-> v, ends |-> ends, owner |-> r]
    BY DEF Stored
  <2>2. QED
    BY <2>1
<1>6. ASSUME NEW ends \in Occurrences(v)
      PROVE  \E o \in occurrences' : o.space = Space[r] /\ o.version = v /\ o.ends = ends
  <2>1. CASE \E x \in Rivals(r, v) : x.ends = ends
    BY <1>2, <2>1 DEF Rivals
  <2>2. CASE ~\E x \in Rivals(r, v) : x.ends = ends
    <3>1. Stored(<<v, ends>>, r) \in new
      BY <2>2
    <3>2. /\ Stored(<<v, ends>>, r).space = Space[r] /\ Stored(<<v, ends>>, r).version = v
          /\ Stored(<<v, ends>>, r).ends = ends
      BY DEF Stored
    <3>3. QED
      BY <1>2, <3>1, <3>2
  <2>3. QED
    BY <2>1, <2>2
<1> HIDE DEF new
<1>7. Published' = Published
  BY <1>2 DEF Published
<1>8. Has(r, v)' /\ Safe(r, v)'
  <2>1. Has(r, v)'
    BY <1>6 DEF Has
  <2>2. \A o \in Rivals(r, v)' : o \in Rivals(r, v) \/ o.owner = r
    BY <1>2, <1>5 DEF Rivals
  <2>3. Safe(r, v)'
    BY <1>2, <1>7, <2>2 DEF Safe, MayUse
  <2>4. QED
    BY <2>1, <2>3
<1>9. ASSUME NEW q \in Runs, NEW u \in Versions, q # r \/ u # v, InGraph(q, u)'
      PROVE  Has(q, u)' /\ Safe(q, u)'
  <2>1. InGraph(q, u)
    <3>1. item'[q][u].stage = item[q][u].stage /\ item'[q][u].status = item[q][u].status
      BY <1>4, <1>9
    <3>2. QED
      BY <1>2, <1>7, <1>9, <3>1 DEF InGraph, WithGraph, ItemsIn
  <2>2. Has(q, u) /\ Safe(q, u)
    BY <2>1 DEF GraphInv
  <2>3. ASSUME NEW o \in new
        PROVE  \/ Replaced(o)' \/ o.space # Space[q] \/ o.version # u \/ o.ends \notin Occurrences(u)
    <3>1. CASE o.space = Space[q] /\ o.version = u /\ o.ends \in Occurrences(u)
      <4>1. PICK x \in occurrences \cup cascaded : x.space = Space[q] /\ x.version = u /\ x.ends = o.ends
        BY <2>2, <3>1 DEF Has
      <4>2. x \notin occurrences
        BY <1>5, <3>1, <4>1 DEF Rivals
      <4>3. x \in cascaded'
        BY <1>2, <4>1, <4>2
      <4>4. QED
        BY <3>1, <4>1, <4>3 DEF Replaced
    <3>2. QED
      BY <3>1
  <2>4. \A o \in occurrences' : o \in occurrences \/ (o.owner = q) \/ Replaced(o)'
                \/ o.space # Space[q] \/ o.version # u \/ o.ends \notin Occurrences(u)
    BY <1>2, <2>3
  <2>5. \A o \in occurrences : o \in occurrences' \/ o \in cascaded' \/ ~MayUse(q, o)
    BY <1>2
  <2>6. Published \subseteq Published' /\ cascaded \subseteq cascaded'
    BY <1>2, <1>7
  <2>7. QED
    BY <2>2, <2>4, <2>5, <2>6, KeptWithPublished
<1>10. QED
  BY <1>8, <1>9

\* fail_product_run deletes what is of no published run, or says that it has.
LEMMA DiscardKeeps ==
    ASSUME TypeInv, GraphInv, NEW w \in Workers, Discard(w)
    PROVE  \A q \in Runs, u \in Versions : InGraph(q, u)' => Has(q, u)' /\ Safe(q, u)'
<1>1. PICK r \in Runs : r = job[w] /\ status[r] = "RUNNING"
  <2>1. Writes(w) /\ pc[w] = "delete"
    BY DEF Writes, Discard
  <2>2. QED
    BY <2>1, WorkersRun DEF TypeInv, Staging
<1> DEFINE gone == view[w].doomed
           swept == {o \in occurrences \ Own(r) : o.ends \cap gone # {}}
<1>2. /\ status' = [status EXCEPT ![r] = "FAILED"]
      /\ occurrences' = occurrences \ (Own(r) \cup swept) /\ cascaded' = cascaded \cup swept
      /\ entities' = entities \ gone
      /\ report' = [q \in Runs |-> ReportWithout(report[q], gone)]
  BY <1>1 DEF Discard
<1>3. \A q \in Runs \ {r} : item'[q] = item[q]
  BY <1>1, DiscardItems
<1>4. status'[r] = "FAILED" /\ \A q \in Runs \ {r} : status'[q] = status[q]
  BY <1>2 DEF TypeInv, AttemptInv
<1>5. Published' = Published /\ r \notin Published
  BY <1>1, <1>4 DEF Published
<1> HIDE DEF gone, swept
<1>6. \A q \in Published : report'[q].graphless = report[q].graphless
  <2>1. ASSUME NEW q \in Published PROVE report'[q].graphless = report[q].graphless
    <3>1. q \in Runs /\ report[q] \in Reports
      BY DEF TypeInv, ReportsType, Published
    <3>2. QED
      BY <1>2, <3>1, ReportWithoutType
  <2>2. QED
    BY <2>1
<1>7. ASSUME NEW q \in Runs, NEW u \in Versions, InGraph(q, u)'
      PROVE  Has(q, u)' /\ Safe(q, u)'
  <2>1. q # r
    BY <1>4, <1>5, <1>7 DEF InGraph
  <2>2. InGraph(q, u)
    BY <1>3, <1>4, <1>5, <1>6, <1>7, <2>1 DEF InGraph, WithGraph, ItemsIn
  <2>3. Has(q, u) /\ Safe(q, u)
    BY <2>2 DEF GraphInv
  <2>4. \A o \in occurrences : o \in occurrences' \/ o \in cascaded' \/ ~MayUse(q, o)
    BY <1>2, <1>5, <2>1 DEF Own, MayUse
  <2>5. \A o \in occurrences' : o \in occurrences \/ (o.owner = q) \/ Replaced(o)'
                \/ o.space # Space[q] \/ o.version # u \/ o.ends \notin Occurrences(u)
    BY <1>2
  <2>6. Published \subseteq Published' /\ cascaded \subseteq cascaded'
    BY <1>2, <1>5
  <2>7. QED
    BY <2>3, <2>4, <2>5, <2>6, KeptWithPublished
<1>8. QED
  BY <1>7

\* The other steps leave the graph, and make no item look as if it had one.
LEMMA OthersKeep ==
    ASSUME GraphInv, UNCHANGED <<occurrences, cascaded>>, Published \subseteq Published',
           NEW q \in Runs, NEW u \in Versions, InGraph(q, u), InGraph(q, u)'
    PROVE  Has(q, u)' /\ Safe(q, u)'
<1>1. Has(q, u) /\ Safe(q, u)
  BY DEF GraphInv
<1>2. QED
  BY <1>1 DEF Has, Safe, Rivals, MayUse, Replaced

\* A plan of items has no graph and no paper that is published.
LEMMA PlannedStages ==
    ASSUME NEW r \in Runs, NEW v \in Versions
    PROVE  PlannedItems(r)[v].stage \notin GraphStages /\ PlannedItems(r)[v].status # "COMPLETED"
  BY DEF PlannedItems, GraphStages, NoItem, FreshItem, FailedItem

LEMMA GraphsKept ==
    ASSUME TypeInv, GraphInv, NEW w \in Workers, Writes(w)
    PROVE  \A q \in Runs, u \in Versions : InGraph(q, u)' => Has(q, u)' /\ Safe(q, u)'
<1>1. PICK r \in Runs : r = job[w]
  BY WorkersRun DEF TypeInv
<1>2. AttemptInv /\ Published \subseteq Published' /\ item \in [Runs -> [Versions -> ItemRows]]
  BY PublishedGrows, NextKinds DEF TypeInv
<1>3. CASE (\E v \in Versions : PersistGraph(w, v)) \/ Discard(w)
  BY <1>3, PersistKeeps, DiscardKeeps
<1>4. CASE ~((\E v \in Versions : PersistGraph(w, v)) \/ Discard(w))
  <2>1. UNCHANGED <<occurrences, cascaded>>
    BY <1>1, <1>4, LaunchRows DEF Writes, Compare, Aggregate, Publish, PublishAnswerLost, Commit
  <2>2. ASSUME NEW q \in Runs, NEW u \in Versions, InGraph(q, u)'
        PROVE  InGraph(q, u)
    <3>1. CASE q # r
      <4>1. item'[q] = item[q] /\ status'[q] = status[q]
        BY <1>1, <1>2, <3>1, ItemsStep, WriteMoves
      <4>2. report'[q] = report[q]
        <5>1. CASE Publish(w) \/ PublishAnswerLost(w)
          BY <1>1, <3>1, <5>1, CommitReport DEF Publish, PublishAnswerLost, TypeInv, ReportsType
        <5>2. CASE ~(Publish(w) \/ PublishAnswerLost(w))
          BY <1>1, <1>4, <5>2, LaunchRows DEF Writes, Compare, Aggregate
        <5>3. QED
          BY <5>1, <5>2
      <4>3. QED
        BY <2>2, <4>1, <4>2 DEF InGraph, WithGraph, ItemsIn, Published
    <3>2. CASE q = r /\ (Start(w) \/ Restart(w))
      <4>1. item'[r] = PlannedItems(r) /\ status'[r] = "RUNNING"
        BY <1>1, <3>2, LaunchItems, LaunchRows DEF TypeInv, AttemptInv
      <4>2. QED
        BY <2>2, <3>2, <4>1, PlannedStages DEF InGraph, Published
    <3>3. CASE q = r /\ \E v \in Versions : Compare(w, v)
      <4>1. PICK v \in Versions : SetStage(r, {v}, "COMPARED") /\ status' = status /\ status[r] = "RUNNING"
        BY <1>1, <3>3 DEF Compare, ItemAt
      <4>2. item'[r][u].stage \in {"COMPARED", item[r][u].stage}
        BY <1>2, <4>1, StageSet
      <4>3. QED
        BY <2>2, <3>3, <4>1, <4>2 DEF InGraph, Published, GraphStages
    <3>4. CASE q = r /\ Aggregate(w)
      <4> DEFINE vs == IF view[w].trendless THEN {} ELSE view[w].graphs
      <4>1. SetStage(r, vs, "TREND_SNAPSHOTS_GENERATED") /\ status' = status /\ status[r] = "RUNNING"
            /\ pc[w] = "aggregate"
        BY <1>1, <3>4 DEF Aggregate
      <4>2. vs \subseteq view[w].graphs
        OBVIOUS
      <4> HIDE DEF vs
      <4>3. item'[r][u].stage = IF u \in vs THEN "TREND_SNAPSHOTS_GENERATED" ELSE item[r][u].stage
        BY <1>2, <4>1, StageSet
      <4>4. u \in vs => item[r][u].stage \in GraphStages
        BY <1>1, <4>1, <4>2 DEF GraphInv, Graphs
      <4>5. QED
        BY <2>2, <3>4, <4>1, <4>3, <4>4 DEF InGraph, Published
    <3>5. CASE q = r /\ (Publish(w) \/ PublishAnswerLost(w))
      <4>1. Commit(w)
        BY <3>5 DEF Publish, PublishAnswerLost
      <4>2. status[r] = "RUNNING" /\ status'[r] \in Finished /\ r \notin Published
        <5>1. status[r] = "RUNNING" /\ status' = [status EXCEPT ![r] = Planned(w).status]
          BY <1>1, <4>1 DEF Commit, Publishable
        <5>2. Planned(w).status \in Finished
          BY DEF Planned, Finished
        <5>3. QED
          BY <1>2, <5>1, <5>2 DEF AttemptInv, Published
      <4>3. u \in ItemsIn(r, "COMPLETED")' /\ u \notin report'[r].graphless
        BY <2>2, <3>5, <4>2 DEF InGraph, WithGraph, Finished
      <4>4. report'[r].graphless = view[w].graphless
        <5>1. report'[r] = Planned(w)
          BY <1>1, <4>1, CommitReport DEF TypeInv, ReportsType
        <5>2. QED
          BY <5>1 DEF Planned
      <4>5. Ready(r, u, Planned(w))
        <5>1. item[r][u].status # "COMPLETED"
          BY <4>2 DEF GraphInv, ItemsIn
        <5>2. item'[r][u].status = "COMPLETED"
          BY <4>3 DEF ItemsIn
        <5>3. QED
          BY <1>1, <4>1, <5>1, <5>2, CommitItems
      <4>6. item[r][u].stage \in GraphStages
        <5>1. Planned(w).graphless = view[w].graphless
          BY DEF Planned
        <5>2. u \notin Planned(w).graphless
          BY <4>3, <4>4, <5>1
        <5>3. QED
          BY <4>5, <5>2 DEF Ready, GraphStages
      <4>7. QED
        BY <3>5, <4>2, <4>6 DEF InGraph
    <3>6. QED
      BY <1>4, <3>1, <3>2, <3>3, <3>4, <3>5 DEF Writes
  <2>3. QED
    BY <1>2, <2>1, <2>2, OthersKeep
<1>5. QED
  BY <1>3, <1>4

\* Only papers of published runs are completed.
LEMMA CompletedStep ==
    ASSUME TypeInv, GraphInv, NEW w \in Workers, Writes(w)
    PROVE  \A q \in Runs \ Published' : ItemsIn(q, "COMPLETED")' = {}
<1>1. PICK r \in Runs : r = job[w]
  BY WorkersRun DEF TypeInv
<1>2. AttemptInv /\ Published \subseteq Published' /\ item \in [Runs -> [Versions -> ItemRows]]
  BY PublishedGrows, NextKinds DEF TypeInv
<1>3. \A q \in Runs \ {r} : item'[q] = item[q]
  BY <1>1, ItemsStep
<1>4. ASSUME r \notin Published', NEW u \in Versions PROVE item'[r][u].status # "COMPLETED"
  <2>1. item[r][u].status # "COMPLETED"
    BY <1>2, <1>4 DEF GraphInv, ItemsIn
  <2>2. CASE Start(w) \/ Restart(w)
    BY <1>1, <2>2, LaunchItems, PlannedStages
  <2>3. CASE \E v \in Versions : Compare(w, v) \/ PersistGraph(w, v)
    BY <1>1, <1>2, <2>1, <2>3, StageSet DEF Compare, PersistGraph
  <2>4. CASE Aggregate(w)
    BY <1>1, <1>2, <2>1, <2>4, StageSet DEF Aggregate
  <2>5. CASE Publish(w) \/ PublishAnswerLost(w)
    <3>1. pc[w] = "publish" /\ status'[r] = Planned(w).status
      BY <1>1, <1>2, <2>5 DEF Publish, PublishAnswerLost, Commit, AttemptInv
    <3>2. r \in Published'
      BY <3>1 DEF Planned, Published
    <3>3. QED
      BY <1>4, <3>2
  <2>6. CASE Discard(w)
    <3> DEFINE new == [v \in Versions |-> IF item[r][v].status = "IN_PROGRESS"
                                          THEN [item[r][v] EXCEPT !.status = "FAILED"] ELSE item[r][v]]
    <3>1. item' = [item EXCEPT ![r] = new]
      BY <1>1, <2>6 DEF Discard
    <3>2. item'[r][u] \in {item[r][u], [item[r][u] EXCEPT !.status = "FAILED"]}
      BY <1>2, <3>1
    <3>3. item[r][u] \in ItemRows
      BY <1>2
    <3>4. [item[r][u] EXCEPT !.status = "FAILED"].status = "FAILED"
      BY <3>3 DEF ItemRows
    <3>5. QED
      BY <2>1, <3>2, <3>4
  <2>7. QED
    BY <2>2, <2>3, <2>4, <2>5, <2>6 DEF Writes
<1>5. QED
  BY <1>2, <1>3, <1>4 DEF GraphInv, ItemsIn

LEMMA CascadedStep ==
    ASSUME TypeInv, GraphInv, NEW w \in Workers, Writes(w)
    PROVE  cascaded' \subseteq OccurrenceRows
<1>1. cascaded \subseteq OccurrenceRows /\ occurrences \subseteq OccurrenceRows
  BY DEF GraphInv, TypeInv, GraphType
<1>2. CASE Discard(w)
  <2>1. cascaded' \subseteq cascaded \cup occurrences
    BY <1>2 DEF Discard
  <2>2. QED
    BY <1>1, <2>1
<1>3. CASE ~Discard(w)
  BY <1>1, <1>3, LaunchRows, WorkersRun
     DEF TypeInv, Writes, Compare, PersistGraph, Aggregate, Publish, PublishAnswerLost, Commit
<1>4. QED
  BY <1>2, <1>3

\* An attempt keeps to the papers whose graph it has stored.
LEMMA GraphsStep ==
    ASSUME TypeInv, GraphInv, NEW w \in Workers, Quiet(w) \/ Writes(w)
    PROVE  \A u \in Workers : Graphs(u)'
<1>1. AttemptInv /\ item \in [Runs -> [Versions -> ItemRows]] /\ view \in [Workers -> Views]
  BY DEF TypeInv, ViewsType
<1>2. ASSUME NEW u \in Workers, u # w PROVE Graphs(u)'
  <2>1. pc'[u] = pc[u] /\ job'[u] = job[u] /\ view'[u] = view[u]
    BY <1>2, ViewsStay
  <2>2. PICK q \in Runs \cup {None} : q = job[u]
    BY <1>1 DEF AttemptInv
  <2>3. pc[u] \in {"paper", "corpus", "aggregate"} => q \in Runs /\ item'[q] = item[q]
    <3>1. CASE Quiet(w)
      BY <1>1, <2>2, <3>1, QuietRows DEF rows, AttemptInv, Attempt
    <3>2. CASE Writes(w)
      BY <1>1, <1>2, <2>2, <3>2, ItemsStep, Apart DEF AttemptInv, Attempt, Inside, Staging
    <3>3. QED
      BY <3>1, <3>2
  <2>4. QED
    BY <2>1, <2>2, <2>3 DEF GraphInv, Graphs
<1>3. CASE Quiet(w)
  <2>1. item' = item
    BY <1>3, QuietRows DEF rows
  <2>2. Graphs(w)
    BY DEF GraphInv
  <2>3. Graphs(w)'
    BY <1>3, <2>1, <2>2, QuietGraphs DEF Graphs
  <2>4. QED
    BY <1>2, <2>3
<1>4. CASE Writes(w)
  <2>1. PICK r \in Runs : r = job[w]
    BY <1>1, <1>4, WorkersRun
  <2>2. Graphs(w) /\ view[w] \in Views
    BY <1>1 DEF GraphInv
  <2>3. CASE Start(w) \/ Restart(w)
    <3>1. view' = [view EXCEPT ![w].todo = Papers(r)] /\ pc[w] = "begin" /\ pc' = [pc EXCEPT ![w] = "paper"]
      BY <2>1, <2>3, LaunchRows DEF Start, Restart, Launch, Goto
    <3>2. view'[w].graphs = {} /\ pc'[w] = "paper"
      BY <1>1, <2>2, <3>1 DEF Views, Graphs, AttemptInv
    <3>3. QED
      BY <1>2, <3>2 DEF Graphs
  <2>4. CASE \E v \in Versions : Compare(w, v)
    <3>1. PICK v \in Versions : /\ SetStage(r, {v}, "COMPARED") /\ UNCHANGED <<pc, job, view>>
                                /\ item[r][v].stage = "EVIDENCE_EXTRACTED" /\ pc[w] = "paper"
      BY <2>1, <2>4 DEF Compare, ItemAt
    <3>2. \A u \in Versions : item'[r][u].stage = IF u \in {v} THEN "COMPARED" ELSE item[r][u].stage
      BY <1>1, <3>1, StageSet
    <3>3. view[w].graphs \subseteq Versions
      BY <2>2 DEF Views
    <3>4. \A u \in view[w].graphs : u # v /\ item'[r][u].stage \in GraphStages
      BY <2>1, <2>2, <3>1, <3>2, <3>3 DEF Graphs, GraphStages
    <3>5. QED
      BY <1>2, <2>1, <3>1, <3>4 DEF Graphs
  <2>5. CASE \E v \in Versions : PersistGraph(w, v)
    <3>1. PICK v \in Versions : PersistGraph(w, v)
      BY <2>5
    <3>2. /\ SetStage(r, {v}, "GRAPH_UPDATED") /\ UNCHANGED <<pc, job>> /\ pc[w] = "paper"
          /\ view' = [view EXCEPT ![w].todo = @ \ {v}, ![w].graphs = @ \cup {v}]
      BY <2>1, <3>1 DEF PersistGraph
    <3>3. \A u \in Versions : item'[r][u].stage = IF u \in {v} THEN "GRAPH_UPDATED" ELSE item[r][u].stage
      BY <1>1, <3>2, StageSet
    <3>4. view'[w].graphs = view[w].graphs \cup {v} /\ view[w].graphs \subseteq Versions
      BY <1>1, <2>2, <3>2 DEF Views
    <3>5. \A u \in view'[w].graphs : item'[r][u].stage \in GraphStages
      BY <2>1, <2>2, <3>2, <3>3, <3>4 DEF Graphs, GraphStages
    <3>6. QED
      BY <1>2, <2>1, <3>2, <3>5 DEF Graphs
  <2>6. CASE Aggregate(w)
    <3>1. pc' = [pc EXCEPT ![w] = "publish"]
      BY <2>6 DEF Aggregate, Goto
    <3>2. QED
      BY <1>1, <1>2, <3>1 DEF Graphs, AttemptInv
  <2>7. CASE Publish(w) \/ PublishAnswerLost(w) \/ Discard(w)
    <3>1. Leave(w) \/ GiveUp(w)
      BY <2>7 DEF Publish, PublishAnswerLost, Discard
    <3>2. view'[w].graphs = {} /\ pc'[w] \in {"idle", "discard"}
      BY <1>1, <3>1, LeaveMoves, GiveUpMoves DEF Leave, GiveUp, BlankView
    <3>3. QED
      BY <1>2, <3>2 DEF Graphs
  <2>8. QED
    BY <1>4, <2>3, <2>4, <2>5, <2>6, <2>7 DEF Writes
<1>5. QED
  BY <1>3, <1>4

LEMMA GraphInvStep == TypeInv /\ GraphInv /\ [Next]_vars => GraphInv'
<1> SUFFICES ASSUME TypeInv, GraphInv, [Next]_vars PROVE GraphInv'
  OBVIOUS
<1>1. CASE \E w \in Workers : Writes(w)
  BY <1>1, GraphsStep, GraphsKept, CompletedStep, CascadedStep DEF GraphInv
<1>2. CASE (\E w \in Workers : Quiet(w)) \/ Periodic \/ UNCHANGED vars
  <2>1. UNCHANGED rows
    BY <1>2, QuietRows, PeriodicRows DEF vars, rows
  <2>2. \A u \in Workers : Graphs(u)'
    <3>1. CASE \E w \in Workers : Quiet(w)
      BY <3>1, GraphsStep
    <3>2. CASE Periodic \/ UNCHANGED vars
      BY <3>2, PeriodicRows DEF vars, rows, GraphInv, Graphs
    <3>3. QED
      BY <1>2, <3>1, <3>2
  <2>3. Published' = Published /\ occurrences' = occurrences /\ cascaded' = cascaded /\ item' = item
        /\ report' = report /\ status' = status
    BY <2>1 DEF rows, Published
  <2>4. \A q \in Runs, u \in Versions : InGraph(q, u)' => InGraph(q, u)
    BY <2>3 DEF InGraph, WithGraph, ItemsIn
  <2>5. \A q \in Runs, u \in Versions : InGraph(q, u)' => Has(q, u)' /\ Safe(q, u)'
    BY <2>3, <2>4, OthersKeep
  <2>6. \A q \in Runs \ Published' : ItemsIn(q, "COMPLETED")' = {}
    BY <2>3 DEF GraphInv, ItemsIn
  <2>7. QED
    BY <2>2, <2>3, <2>5, <2>6 DEF GraphInv
<1>3. QED
  BY <1>1, <1>2, NextKinds

\* What a run uses of the shared graph is its own or published, or was until a
\* cascade took it.
THEOREM GraphInvariant == Spec => []GraphInv
  BY GraphStart, GraphInvStep, TypeInvariant, PTL DEF Spec

\* persist_product_graph and fail_product_run between them lose no part of a
\* published graph but by ON DELETE CASCADE.
THEOREM GraphsAreWhole == Spec => []OnlyCascadesLoseGraphs
<1>1. GraphInv => OnlyCascadesLoseGraphs
  BY DEF GraphInv, InGraph, Has, OnlyCascadesLoseGraphs, Complete, WithGraph, ItemsIn, Published
<1>2. QED
  BY <1>1, GraphInvariant, PTL

\* _validate_reusable_occurrence_owner lets a run use only what cannot be discarded
\* later, wherever no cascade has interfered.
THEOREM SharedGraphsAreFinal == Spec => []SharedGraphsArePublished
<1>1. TypeInv /\ GraphInv => SharedGraphsArePublished
  <2> SUFFICES ASSUME TypeInv, GraphInv, NEW r \in Published, NEW v \in WithGraph(r), NEW o \in Rivals(r, v)
               PROVE  \/ o.owner \in Published /\ Date[o.owner] <= Date[r]
                      \/ \E c \in cascaded : [c EXCEPT !.owner = o.owner] = o
    BY DEF SharedGraphsArePublished
  <2>1. r \in Runs /\ v \in Versions /\ Date[r] \in Nat
    BY RunsAssumption DEF Published, WithGraph, ItemsIn
  <2>2. MayUse(r, o) \/ Replaced(o)
    BY <2>1 DEF GraphInv, InGraph, Safe
  <2>3. CASE MayUse(r, o)
    BY <2>1, <2>3 DEF MayUse
  <2>4. CASE Replaced(o)
    <3>1. PICK c \in cascaded : c.space = o.space /\ c.version = o.version /\ c.ends = o.ends
      BY <2>4 DEF Replaced
    <3>2. c \in OccurrenceRows /\ o \in OccurrenceRows
      BY DEF GraphInv, TypeInv, GraphType, Rivals
    <3>3. [c EXCEPT !.owner = o.owner] = o
      BY <3>1, <3>2 DEF OccurrenceRows
    <3>4. QED
      BY <3>3
  <2>5. QED
    BY <2>2, <2>3, <2>4
<1>2. QED
  BY <1>1, GraphInvariant, TypeInvariant, PTL

----------------------------------------------------------------------------
(* The order of the starts *)

StartsAreOrdered ==
    \A q, r \in Runs :
        /\ StartedBy(q, r) => StartedBy(q, q) /\ StartedBy(r, r)
        /\ StartedBy(q, q) /\ StartedBy(r, r) => StartedBy(q, r) \/ StartedBy(r, q)
        /\ StartedBy(q, r) /\ StartedBy(r, q) => q = r
        /\ \A x \in Runs : StartedBy(q, r) /\ StartedBy(r, x) => StartedBy(q, x)

PublishedOn(d) == {r \in Published \ Smoke : Date[r] = d}

Newest(d, r) == r \in PublishedOn(d) /\ \A q \in PublishedOn(d) : StartedBy(q, r)

\* A set with at most one run of each date.
OneOfEachDate(qs) == \A q, r \in qs : Date[q] = Date[r] => q = r

OrderInv ==
    /\ StartsAreOrdered
    /\ \A r \in Runs : status[r] # "ABSENT" => StartedBy(r, r)
    /\ \A d \in Dates : PublishedOn(d) # {} => \E r \in Runs : Newest(d, r)
    /\ \A d \in drafts : OneOfEachDate(d.runs)
    /\ periodic # None => OneOfEachDate(periodic.runs)

LEMMA OrderStart == Init => OrderInv
  BY DEF Init, OrderInv, StartsAreOrdered, StartedBy, PublishedOn, Published

LEMMA StartsLastOrder ==
    ASSUME NEW e \in Runs, order' = StartsLast(e), NEW f \in Runs, NEW g \in Runs
    PROVE  /\ f # e /\ g # e =>
                (StartedBy(f, g)' <=> StartedBy(f, g) /\ StartedBy(f, f) /\ StartedBy(g, g))
           /\ g = e => (StartedBy(f, g)' <=> f = e \/ StartedBy(f, f))
           /\ f = e /\ g # e => ~StartedBy(f, g)'
  BY DEF StartsLast, StartedBy

LEMMA StartsStayOrdered ==
    ASSUME StartsAreOrdered, NEW e \in Runs, order' = StartsLast(e)
    PROVE  StartsAreOrdered'
<1> DEFINE S(f) == StartedBy(f, f)
           Before(f, g) == StartedBy(f, g)
<1>1. ASSUME NEW f \in Runs, NEW g \in Runs
      PROVE  Before(f, g)' <=> \/ f # e /\ g # e /\ Before(f, g)
                               \/ g = e /\ (f = e \/ S(f))
  BY StartsLastOrder DEF StartsAreOrdered
<1>2. ASSUME NEW f \in Runs, NEW g \in Runs
      PROVE  /\ Before(f, g) => S(f) /\ S(g)
             /\ S(f) /\ S(g) => Before(f, g) \/ Before(g, f)
             /\ Before(f, g) /\ Before(g, f) => f = g
             /\ \A h \in Runs : Before(f, g) /\ Before(g, h) => Before(f, h)
  BY DEF StartsAreOrdered
<1> SUFFICES ASSUME NEW f \in Runs, NEW g \in Runs, NEW h \in Runs
             PROVE  /\ Before(f, g)' => S(f)' /\ S(g)'
                    /\ S(f)' /\ S(g)' => Before(f, g)' \/ Before(g, f)'
                    /\ Before(f, g)' /\ Before(g, f)' => f = g
                    /\ Before(f, g)' /\ Before(g, h)' => Before(f, h)'
  BY DEF StartsAreOrdered
<1> HIDE DEF Before
<1>3. /\ S(f)' <=> f = e \/ S(f)
      /\ S(g)' <=> g = e \/ S(g)
  BY <1>1 DEF Before
<1> HIDE DEF S
<1>4. QED
  BY <1>1, <1>2, <1>3

\* The order changes only with the start of a run that is not published.
LEMMA OrderKinds ==
    ASSUME TypeInv, [Next]_vars
    PROVE  \/ order' = order /\ \A q \in Runs : status'[q] # "ABSENT" => status[q] # "ABSENT"
           \/ \E r \in Runs : /\ order' = StartsLast(r) /\ r \notin Published /\ Published' = Published
                              /\ \A q \in Runs \ {r} : status'[q] = status[q]
<1>1. CASE \E w \in Workers : Start(w) \/ Restart(w)
  <2>1. PICK w \in Workers : Start(w) \/ Restart(w)
    BY <1>1
  <2>2. PICK r \in Runs : r = job[w]
    BY <2>1, WorkersRun DEF TypeInv, Writes
  <2>3. /\ status[r] \in {"ABSENT", "FAILED"} /\ status' = [status EXCEPT ![r] = "RUNNING"]
        /\ order' = StartsLast(r)
    BY <2>1, <2>2, LaunchRows
  <2>4. QED
    BY <2>3 DEF TypeInv, AttemptInv, Published
<1>2. ASSUME NEW w \in Workers, Writes(w), ~(Start(w) \/ Restart(w))
      PROVE  order' = order /\ \A q \in Runs : status'[q] # "ABSENT" => status[q] # "ABSENT"
  <2>1. order' = order
    BY <1>2 DEF Writes, Compare, PersistGraph, Aggregate, Publish, PublishAnswerLost, Commit, Discard
  <2>2. pc[w] \in Staging
    BY <1>2 DEF Writes, Compare, PersistGraph, Aggregate, Publish, PublishAnswerLost, Commit, Discard, Staging
  <2>3. job[w] \in Runs /\ status[job[w]] = "RUNNING"
    BY <1>2, <2>2, WorkersRun DEF TypeInv
  <2>4. \A q \in Runs \ {job[w]} : status'[q] = status[q]
    BY <1>2, WriteMoves DEF TypeInv
  <2>5. QED
    BY <2>1, <2>3, <2>4
<1>3. CASE (\E w \in Workers : Quiet(w)) \/ Periodic \/ UNCHANGED vars
  BY <1>3, QuietRows, PeriodicRows DEF vars, rows
<1>4. QED
  BY <1>1, <1>2, <1>3, NextKinds

\* A run that a step publishes had been started before.
LEMMA PublishedStarted ==
    ASSUME TypeInv, OrderInv, [Next]_vars
    PROVE  /\ StartsAreOrdered'
           /\ \A r \in Runs : status'[r] # "ABSENT" => StartedBy(r, r)'
           /\ \A r \in Published' : r \in Runs /\ StartedBy(r, r)
<1>1. CASE order' = order /\ \A q \in Runs : status'[q] # "ABSENT" => status[q] # "ABSENT"
  BY <1>1 DEF OrderInv, StartsAreOrdered, StartedBy, Published
<1>2. CASE \E r \in Runs : /\ order' = StartsLast(r) /\ r \notin Published /\ Published' = Published
                           /\ \A q \in Runs \ {r} : status'[q] = status[q]
  <2>1. PICK r \in Runs : /\ order' = StartsLast(r) /\ r \notin Published /\ Published' = Published
                          /\ \A q \in Runs \ {r} : status'[q] = status[q]
    BY <1>2
  <2>2. StartsAreOrdered'
    BY <2>1, StartsStayOrdered DEF OrderInv
  <2>3. \A q \in Runs : status'[q] # "ABSENT" => StartedBy(q, q)'
    BY <2>1, StartsLastOrder DEF OrderInv
  <2>4. \A q \in Published' : q \in Runs /\ StartedBy(q, q)
    BY <2>1 DEF OrderInv, Published
  <2>5. QED
    BY <2>2, <2>3, <2>4
<1>3. QED
  BY <1>1, <1>2, OrderKinds

\* Publication by publication, a date has a newest one.
LEMMA NewestStep ==
    ASSUME TypeInv, OrderInv, [Next]_vars, NEW d \in Dates, PublishedOn(d)' # {}
    PROVE  \E r \in Runs : Newest(d, r)'
<1>1. CASE \E e \in Runs : order' = StartsLast(e) /\ e \notin Published /\ Published' = Published
  <2>1. PICK e \in Runs : order' = StartsLast(e) /\ e \notin Published /\ Published' = Published
    BY <1>1
  <2>2. PublishedOn(d)' = PublishedOn(d)
    BY <2>1 DEF PublishedOn
  <2>3. PICK n \in Runs : Newest(d, n)
    BY <2>2 DEF OrderInv
  <2>4. \A q \in PublishedOn(d) : q \in Runs /\ q # e /\ StartedBy(q, q)
    BY <2>1 DEF PublishedOn, OrderInv, Published
  <2>5. \A q \in PublishedOn(d) : StartedBy(q, n)'
    BY <2>1, <2>3, <2>4, StartsLastOrder DEF Newest
  <2>6. Newest(d, n)'
    BY <2>2, <2>3, <2>5 DEF Newest
  <2>7. QED
    BY <2>6
<1>2. CASE order' = order /\ PublishedOn(d)' = PublishedOn(d)
  BY <1>2 DEF OrderInv, Newest, StartedBy
<1>3. ASSUME order' = order, NEW e \in Runs \ Published, Published' = Published \cup {e},
             PublishedOn(d)' # PublishedOn(d)
      PROVE  \E r \in Runs : Newest(d, r)'
  <2>1. PublishedOn(d)' = PublishedOn(d) \cup {e} /\ e \in PublishedOn(d)'
    BY <1>3 DEF PublishedOn
  <2>2. \A q \in PublishedOn(d)' : q \in Runs /\ StartedBy(q, q) /\ StartedBy(q, q)'
    BY <1>3, PublishedStarted DEF PublishedOn, StartedBy
  <2>3. CASE PublishedOn(d) = {}
    <3>1. Newest(d, e)'
      BY <2>1, <2>2, <2>3 DEF Newest
    <3>2. QED
      BY <1>3, <3>1
  <2>4. CASE PublishedOn(d) # {}
    <3>1. PICK n \in Runs : Newest(d, n)
      BY <2>4 DEF OrderInv
    <3>2. n \in PublishedOn(d)' /\ StartedBy(n, n) /\ StartedBy(e, e)
      BY <2>1, <2>2, <3>1 DEF Newest
    <3>3. CASE StartedBy(e, n)
      <4>1. Newest(d, n)'
        BY <1>3, <2>1, <3>1, <3>3 DEF Newest, StartedBy
      <4>2. QED
        BY <4>1
    <3>4. CASE StartedBy(n, e)
      <4>1. \A q \in PublishedOn(d) : q \in Runs /\ StartedBy(q, e)
        BY <1>3, <2>1, <2>2, <3>1, <3>4 DEF Newest, OrderInv, StartsAreOrdered
      <4>2. Newest(d, e)'
        BY <1>3, <2>1, <3>2, <4>1 DEF Newest, StartedBy
      <4>3. QED
        BY <1>3, <4>2
    <3>5. QED
      BY <1>3, <3>2, <3>3, <3>4 DEF OrderInv, StartsAreOrdered
  <2>5. QED
    BY <2>3, <2>4
<1>4. CASE order' = order
  <2>1. \/ PublishedOn(d)' = PublishedOn(d)
        \/ \E e \in Runs \ Published : Published' = Published \cup {e} /\ PublishedOn(d)' # PublishedOn(d)
    BY PublishedStep DEF PublishedOn, TypeInv
  <2>2. QED
    BY <1>2, <1>3, <1>4, <2>1
<1>5. QED
  BY <1>1, <1>4, OrderKinds

\* Of each date at most one run is served.
LEMMA ServedOnce ==
    ASSUME StartsAreOrdered
    PROVE  OneOfEachDate(Served)
  BY DEF OneOfEachDate, Served, StartsAreOrdered, Published

\* The drafts are of runs that were served together.
LEMMA PeriodStep ==
    ASSUME TypeInv, OrderInv, [Next]_vars
    PROVE  /\ \A d \in drafts' : OneOfEachDate(d.runs)
           /\ periodic' # None => OneOfEachDate(periodic'.runs)
<1>1. /\ \A d \in drafts : OneOfEachDate(d.runs) /\ Draft(d)
      /\ periodic # None => OneOfEachDate(periodic.runs)
      /\ periodic \in PeriodicReports \cup {None}
  BY DEF OrderInv, TypeInv, PeriodicType
<1>2. CASE (\E w \in Workers : Quiet(w)) \/ UNCHANGED vars
  BY <1>1, <1>2, QuietRows DEF others, vars
<1>3. ASSUME NEW w \in Workers, Writes(w)
      PROVE  /\ \A d \in drafts' : OneOfEachDate(d.runs)
             /\ periodic' # None => OneOfEachDate(periodic'.runs)
  <2>1. drafts' = drafts
    BY <1>3, LaunchRows, WorkersRun
       DEF TypeInv, Writes, Compare, PersistGraph, Aggregate, Publish, PublishAnswerLost, Commit, Discard, others
  <2>2. CASE Discard(w)
    <3>1. entities' = entities \ view[w].doomed /\ periodic' = ReportWithout(periodic, view[w].doomed)
      BY <2>2 DEF Discard
    <3>2. CASE periodic = None
      BY <1>1, <2>1, <3>1, <3>2 DEF ReportWithout
    <3>3. CASE periodic # None
      <4>1. periodic'.runs = periodic.runs
        BY <1>1, <3>1, <3>3, PeriodicWithoutType
      <4>2. QED
        BY <1>1, <2>1, <3>3, <4>1
    <3>4. QED
      BY <3>2, <3>3
  <2>3. CASE ~Discard(w)
    <3>1. periodic' = periodic
      BY <1>3, <2>3, LaunchRows, WorkersRun
         DEF TypeInv, Writes, Compare, PersistGraph, Aggregate, Publish, PublishAnswerLost, Commit, others
    <3>2. QED
      BY <1>1, <2>1, <3>1
  <2>4. QED
    BY <2>2, <2>3
<1>4. CASE ReadReports
  <2> DEFINE S == Served
             d == [runs |-> S, planned |-> None]
  <2>1. drafts' = drafts \cup {d} /\ periodic' = periodic
    BY <1>4 DEF ReadReports
  <2>2. OneOfEachDate(S)
    BY ServedOnce DEF OrderInv
  <2> HIDE DEF S
  <2>3. d.runs = S
    OBVIOUS
  <2> HIDE DEF d
  <2>4. QED
    BY <1>1, <2>1, <2>2, <2>3
<1>5. CASE ReadTrends
  <2>1. PICK d \in drafts : drafts' = (drafts \ {d}) \cup {[d EXCEPT !.planned = PlannedPeriod(d.runs)]}
    BY <1>5 DEF ReadTrends
  <2>2. periodic' = periodic
    BY <1>5 DEF ReadTrends
  <2>3. PICK p : p = PlannedPeriod(d.runs)
    OBVIOUS
  <2>4. [d EXCEPT !.planned = p].runs = d.runs
    BY <1>1 DEF Draft
  <2>5. QED
    BY <1>1, <2>1, <2>2, <2>3, <2>4
<1>6. CASE PersistPeriodic
  <2>1. PICK d \in drafts : /\ d.planned # None
                            /\ periodic' = IF periodic = None THEN d.planned ELSE periodic
                            /\ drafts' = drafts \ {d}
    BY <1>6 DEF PersistPeriodic, Persisted
  <2>2. d.planned.runs = d.runs
    BY <1>1, <2>1 DEF Draft
  <2>3. QED
    BY <1>1, <2>1, <2>2
<1>7. CASE TrendsUnread \/ PeriodicRefused
  <2>1. drafts' \subseteq drafts /\ periodic' = periodic
    BY <1>7 DEF TrendsUnread, PeriodicRefused
  <2>2. QED
    BY <1>1, <2>1
<1>8. QED
  BY <1>2, <1>3, <1>4, <1>5, <1>6, <1>7, NextKinds DEF Periodic

LEMMA OrderStep == TypeInv /\ OrderInv /\ [Next]_vars => OrderInv'
<1> SUFFICES ASSUME TypeInv, OrderInv, [Next]_vars PROVE OrderInv'
  OBVIOUS
<1>1. StartsAreOrdered' /\ \A r \in Runs : status'[r] # "ABSENT" => StartedBy(r, r)'
  BY PublishedStarted
<1>2. \A d \in Dates : PublishedOn(d)' # {} => \E r \in Runs : Newest(d, r)'
  BY NewestStep
<1>3. /\ \A d \in drafts' : OneOfEachDate(d.runs)
      /\ periodic' # None => OneOfEachDate(periodic'.runs)
  BY PeriodStep
<1>4. QED
  BY <1>1, <1>2, <1>3 DEF OrderInv, Dates, OneOfEachDate

\* Starts stay ordered, a date that has publications has a newest one, and a draft has
\* one run of each date.
THEOREM OrderInvariant == Spec => []OrderInv
  BY OrderStart, OrderStep, TypeInvariant, PTL DEF Spec

\* A periodic report is of one publication per date, although the runs it was
\* planned from need not be the ones that are served when it is persisted.
THEOREM PeriodsCountDatesOnce == Spec => []PeriodCountsDatesOnce
<1>1. OrderInv => PeriodCountsDatesOnce
  BY DEF OrderInv, OneOfEachDate, PeriodCountsDatesOnce
<1>2. QED
  BY <1>1, OrderInvariant, PTL

----------------------------------------------------------------------------
(* The refinement *)

\* What readers of a date get.
ServedBy(d) == IF \E r \in Served : Date[r] = d THEN CHOOSE r \in Served : Date[r] = d ELSE None

Row(r) == [cards |-> report[r].cards, ready |-> ItemsIn(r, "COMPLETED"), status |-> status[r]]

\* Readers get the newest publication of a date.
LEMMA ServedIsNewest ==
    ASSUME StartsAreOrdered, NEW d, NEW n \in Runs, Newest(d, n)
    PROVE  ServedBy(d) = n
<1>1. n \in Served /\ Date[n] = d
  BY DEF Newest, PublishedOn, Served
<1>2. \A r \in Served : Date[r] = d => r = n
  BY DEF Newest, PublishedOn, Served, StartsAreOrdered, Published
<1> DEFINE Q(x) == x \in Served /\ Date[x] = d
<1>3. Q(CHOOSE x : Q(x)) /\ \A x : Q(x) => x = n
  BY <1>1, <1>2
<1>4. (CHOOSE x \in Served : Date[x] = d) = CHOOSE x : Q(x)
  OBVIOUS
<1> HIDE DEF Q
<1>5. (CHOOSE x \in Served : Date[x] = d) = n
  BY <1>3, <1>4
<1>6. QED
  BY <1>1, <1>5 DEF ServedBy

LEMMA ServedIsNewestNext ==
    ASSUME StartsAreOrdered', NEW d, NEW n \in Runs, Newest(d, n)'
    PROVE  ServedBy(d)' = n
<1>1. n \in Served' /\ Date[n] = d
  BY DEF Newest, PublishedOn, Served
<1>2. \A r \in Served' : Date[r] = d => r = n
  BY DEF Newest, PublishedOn, Served, StartsAreOrdered, Published
<1> DEFINE Q(x) == x \in Served' /\ Date[x] = d
<1>3. Q(CHOOSE x : Q(x)) /\ \A x : Q(x) => x = n
  BY <1>1, <1>2
<1>4. (CHOOSE x \in Served' : Date[x] = d) = CHOOSE x : Q(x)
  OBVIOUS
<1> HIDE DEF Q
<1>5. (CHOOSE x \in Served' : Date[x] = d) = n
  BY <1>3, <1>4
<1>6. QED
  BY <1>1, <1>5 DEF ServedBy

LEMMA NobodyServed ==
    ASSUME NEW d, PublishedOn(d) = {}
    PROVE  ServedBy(d) = None
  BY DEF ServedBy, Served, PublishedOn

LEMMA NobodyServedNext ==
    ASSUME NEW d, PublishedOn(d)' = {}
    PROVE  ServedBy(d)' = None
  BY DEF ServedBy, Served, PublishedOn

\* Without a publication readers of a date go on getting the same one.
LEMMA ServedStays ==
    ASSUME TypeInv, OrderInv, OrderInv', [Next]_vars, NEW d \in Dates, PublishedOn(d)' = PublishedOn(d)
    PROVE  ServedBy(d)' = ServedBy(d)
<1>1. CASE PublishedOn(d) = {}
  BY <1>1, NobodyServed, NobodyServedNext
<1>2. CASE PublishedOn(d) # {}
  <2>1. PICK n \in Runs : Newest(d, n)
    BY <1>2 DEF OrderInv
  <2>2. \A q \in PublishedOn(d) : q \in Runs /\ StartedBy(q, q)
    BY DEF OrderInv, PublishedOn, Published
  <2>3. \A q \in PublishedOn(d) : StartedBy(q, n)'
    <3>1. CASE order' = order
      BY <2>1, <3>1 DEF Newest, StartedBy
    <3>2. CASE \E e \in Runs : order' = StartsLast(e) /\ e \notin Published
      <4>1. PICK e \in Runs : order' = StartsLast(e) /\ e \notin Published
        BY <3>2
      <4>2. \A q \in PublishedOn(d) : q # e
        BY <4>1 DEF PublishedOn
      <4>3. n \in PublishedOn(d) /\ \A q \in PublishedOn(d) : StartedBy(q, n)
        BY <2>1 DEF Newest
      <4>4. QED
        BY <2>2, <4>1, <4>2, <4>3, StartsLastOrder
    <3>3. QED
      BY <3>1, <3>2, OrderKinds
  <2>4. Newest(d, n)'
    BY <2>1, <2>3 DEF Newest
  <2>5. QED
    BY <2>1, <2>4, ServedIsNewest, ServedIsNewestNext DEF OrderInv
<1>3. QED
  BY <1>1, <1>2

\* A publication never changes.
LEMMA RowStays ==
    ASSUME TypeInv, [Next]_vars, NEW q \in Published
    PROVE  q \in Published' /\ Row(q)' = Row(q)
<1>1. q \in Runs /\ report[q] \in Reports /\ AttemptInv
  BY DEF TypeInv, ReportsType, Published
<1>2. q \in Published'
  BY <1>1, PublishedGrows
<1>3. CASE (\E w \in Workers : Quiet(w)) \/ Periodic \/ UNCHANGED vars
  BY <1>2, <1>3, QuietRows, PeriodicRows DEF vars, rows, Row, ItemsIn
<1>4. ASSUME NEW w \in Workers, Writes(w) PROVE Row(q)' = Row(q)
  <2>1. PICK r \in Runs : r = job[w]
    BY <1>1, <1>4, WorkersRun
  <2>2. q # r
    <3>1. status[r] \in {"ABSENT", "FAILED", "RUNNING"}
      BY <1>1, <1>4, <2>1, WriteMoves DEF AttemptInv, Attempt, Staging
    <3>2. QED
      BY <3>1 DEF Published
  <2>3. item'[q] = item[q] /\ status'[q] = status[q]
    BY <1>1, <1>4, <2>1, <2>2, ItemsStep, WriteMoves
  <2>4. report'[q].cards = report[q].cards
    <3>1. CASE Discard(w)
      <4>1. /\ entities' = entities \ view[w].doomed
            /\ report' = [x \in Runs |-> ReportWithout(report[x], view[w].doomed)]
        BY <3>1 DEF Discard
      <4>2. QED
        BY <1>1, <4>1, ReportWithoutType
    <3>2. CASE Publish(w) \/ PublishAnswerLost(w)
      <4>1. report' = [report EXCEPT ![r] = Planned(w)]
        BY <2>1, <3>2, CommitReport DEF Publish, PublishAnswerLost
      <4>2. QED
        BY <1>1, <2>2, <4>1 DEF TypeInv, ReportsType
    <3>3. CASE ~Discard(w) /\ ~(Publish(w) \/ PublishAnswerLost(w))
      BY <1>4, <2>1, <3>3, LaunchRows DEF Writes, Compare, PersistGraph, Aggregate
    <3>4. QED
      BY <3>1, <3>2, <3>3
  <2>5. QED
    BY <2>3, <2>4 DEF Row, ItemsIn
<1>5. QED
  BY <1>2, <1>3, <1>4, NextKinds

\* A publication has a card for each paper of the run, and is complete when all of
\* them are ready.
LEMMA CommitRow ==
    ASSUME TypeInv, GraphInv, NEW w \in Workers, Commit(w), NEW r \in Runs, r = job[w]
    PROVE  Row(r)' \in Publishing!Reports
<1>1. /\ Publishable(r, Planned(w)) /\ status' = [status EXCEPT ![r] = Planned(w).status]
      /\ report' = [report EXCEPT ![r] = Planned(w)]
  BY DEF Commit, InsertReport
<1>2. /\ Planned(w).cards = ItemsIn(r, "FAILED") \cup {v \in Versions : Ready(r, v, Planned(w))}
      /\ Planned(w).failures = ItemsIn(r, "FAILED")
      /\ status[r] = "RUNNING"
  BY <1>1 DEF Publishable, Failures
<1>3. /\ Planned(w).status = IF Planned(w).failures = {} THEN "COMPLETE" ELSE "PARTIAL"
  BY DEF Planned
<1>4. report'[r] = Planned(w) /\ status'[r] = Planned(w).status
  BY <1>1 DEF TypeInv, ReportsType, AttemptInv
<1> DEFINE ready == {v \in Versions : Ready(r, v, Planned(w))}
<1>5. ItemsIn(r, "COMPLETED")' = ready
  <2>1. \A v \in Versions : item[r][v].status # "COMPLETED"
    BY <1>2 DEF GraphInv, ItemsIn, Published
  <2>2. \A v \in Versions :
                item'[r][v] = IF Ready(r, v, Planned(w)) THEN [status |-> "COMPLETED", stage |-> "PUBLISHED"]
                              ELSE item[r][v]
    BY CommitItems
  <2>3. QED
    BY <2>1, <2>2 DEF ItemsIn
<1>6. \A v \in ready : v \notin ItemsIn(r, "FAILED")
  BY DEF Ready, ItemsIn
<1>7. ItemsIn(r, "FAILED") \subseteq Versions /\ ready \subseteq Versions
  BY DEF ItemsIn
<1> DEFINE cards == Planned(w).cards
           st == Planned(w).status
<1>8. Row(r)' = [cards |-> cards, ready |-> ready, status |-> st]
  BY <1>4, <1>5 DEF Row
<1> HIDE DEF ready, cards, st
<1>9. /\ cards \in SUBSET Versions /\ ready \in SUBSET Versions /\ st \in {"COMPLETE", "PARTIAL"}
      /\ ready \subseteq cards /\ (st = "COMPLETE" <=> ready = cards)
  BY <1>2, <1>3, <1>6, <1>7 DEF ready, cards, st
<1>10. QED
  BY <1>8, <1>9 DEF Publishing!Reports

LEMMA PromiseStart == Init => Publishing!Init
<1> SUFFICES ASSUME Init PROVE Publishing!Init
  OBVIOUS
<1>1. Published = {}
  BY DEF Init, Published
<1>2. Served = {}
  BY <1>1 DEF Served
<1>3. Revision = [r \in Runs \ Smoke |-> None]
  BY <1>1 DEF Revision
<1>4. ServedOn = [d \in {Date[r] : r \in Runs \ Smoke} |-> None]
  BY <1>2 DEF ServedOn
<1>5. QED
  BY <1>3, <1>4 DEF Publishing!Init, Publishing!Dates

\* Readers notice a step only when it publishes what is not a smoke run.
LEMMA OthersStutter ==
    ASSUME TypeInv, OrderInv, OrderInv', [Next]_vars, Published' \ Smoke = Published \ Smoke
    PROVE  Revision' = Revision /\ ServedOn' = ServedOn
<1>1. \A r \in Runs \ Smoke : (r \in Published' <=> r \in Published) /\ (r \in Published => Row(r)' = Row(r))
  BY RowStays
<1>2. Revision = [r \in Runs \ Smoke |-> IF r \in Published THEN Row(r) ELSE None]
  BY DEF Revision, Row
<1>3. Revision' = [r \in Runs \ Smoke |-> IF r \in Published' THEN Row(r)' ELSE None]
  BY DEF Revision, Row
<1>4. Revision' = Revision
  BY <1>1, <1>2, <1>3
<1>5. ASSUME NEW d \in Dates PROVE ServedBy(d)' = ServedBy(d)
  <2>1. PublishedOn(d)' = PublishedOn(d)
    BY DEF PublishedOn
  <2>2. QED
    BY <2>1, ServedStays
<1>6. /\ ServedOn = [d \in {Date[r] : r \in Runs \ Smoke} |-> ServedBy(d)]
      /\ ServedOn' = [d \in {Date[r] : r \in Runs \ Smoke} |-> ServedBy(d)']
  BY DEF ServedOn, ServedBy
<1>7. QED
  BY <1>4, <1>5, <1>6 DEF Dates

\* The commit of a publication puts it before the readers of its date, unless a
\* revision that started later is there already.
LEMMA CommitImplements ==
    ASSUME TypeInv, GraphInv, OrderInv, OrderInv', [Next]_vars,
           NEW w \in Workers, Publish(w) \/ PublishAnswerLost(w), NEW e \in Runs \ Smoke, e = job[w],
           e \notin Published, Published' = Published \cup {e}
    PROVE  Publishing!Publish(e)
<1>1. Commit(w)
  BY DEF Publish, PublishAnswerLost
<1>2. order' = order
  BY <1>1 DEF Commit
<1>3. Row(e)' \in Publishing!Reports
  BY <1>1, CommitRow
<1>4. /\ Revision = [r \in Runs \ Smoke |-> IF r \in Published THEN Row(r) ELSE None]
      /\ Revision' = [r \in Runs \ Smoke |-> IF r \in Published' THEN Row(r)' ELSE None]
  BY DEF Revision, Row
<1>5. \A r \in Published : Row(r)' = Row(r)
  BY RowStays
<1>6. /\ Revision[e] = None /\ Revision'[e] \in Publishing!Reports
      /\ Revision' = [x \in Runs \ Smoke |-> IF x = e THEN Revision'[e] ELSE Revision[x]]
  BY <1>3, <1>4, <1>5
<1>7. /\ ServedOn = [d \in {Date[r] : r \in Runs \ Smoke} |-> ServedBy(d)]
      /\ ServedOn' = [d \in {Date[r] : r \in Runs \ Smoke} |-> ServedBy(d)']
  BY DEF ServedOn, ServedBy
<1>8. ASSUME NEW d \in Dates, d # Date[e] PROVE ServedBy(d)' = ServedBy(d)
  <2>1. PublishedOn(d)' = PublishedOn(d)
    BY <1>8 DEF PublishedOn
  <2>2. QED
    BY <2>1, ServedStays
<1>9. PICK d \in Dates : d = Date[e]
  BY DEF Dates
<1>10. PublishedOn(d)' = PublishedOn(d) \cup {e}
  BY <1>9 DEF PublishedOn
<1>11. PICK n \in Runs : Newest(d, n)'
  BY <1>10 DEF OrderInv, Dates
<1>12. ServedBy(d)' = n
  BY <1>11, ServedIsNewestNext DEF OrderInv
<1>13. \/ ServedOn' = [ServedOn EXCEPT ![Date[e]] = e]
       \/ ServedOn[Date[e]] # None /\ UNCHANGED ServedOn
  <2>1. CASE n = e
    BY <1>7, <1>8, <1>9, <1>12, <2>1 DEF Dates
  <2>2. CASE n # e
    <3>1. Newest(d, n)
      BY <1>2, <1>10, <1>11, <2>2 DEF Newest, StartedBy
    <3>2. ServedBy(d) = n /\ n # None
      BY <3>1, ServedIsNewest, NoneIsNoReport DEF OrderInv
    <3>3. QED
      BY <1>7, <1>8, <1>9, <1>12, <3>2 DEF Dates
  <2>3. QED
    BY <2>1, <2>2
<1>14. QED
  BY <1>6, <1>13 DEF Publishing!Publish

LEMMA PromiseStep ==
    TypeInv /\ GraphInv /\ OrderInv /\ OrderInv' /\ [Next]_vars => [Publishing!Next]_(Publishing!vars)
<1> SUFFICES ASSUME TypeInv, GraphInv, OrderInv, OrderInv', [Next]_vars
             PROVE  [Publishing!Next]_(Publishing!vars)
  OBVIOUS
<1>1. CASE Published' \ Smoke = Published \ Smoke
  BY <1>1, OthersStutter DEF Publishing!vars
<1>2. CASE Published' \ Smoke # Published \ Smoke
  <2>1. PICK w \in Workers : /\ Publish(w) \/ PublishAnswerLost(w)
                             /\ job[w] \in Runs \ Published
                             /\ Published' = Published \cup {job[w]}
    BY <1>2, PublishedStep DEF TypeInv
  <2>2. PICK e \in Runs \ Smoke : e = job[w]
    BY <1>2, <2>1
  <2>3. Publishing!Publish(e)
    BY <2>1, <2>2, CommitImplements
  <2>4. QED
    BY <2>3 DEF Publishing!Next
<1>3. QED
  BY <1>1, <1>2

\* PublishProduct, with its restarts, lost locks and lost answers, implements
\* DailyPublication: a publication never changes, has a status that fits its cards,
\* and readers of a date move only to the one just published.
THEOREM PublicationKeepsItsPromise == Spec => KeepsItsPromise
<1>1. Init => Publishing!Init
  BY PromiseStart
<1>2. TypeInv /\ GraphInv /\ OrderInv /\ OrderInv' /\ [Next]_vars => [Publishing!Next]_(Publishing!vars)
  BY PromiseStep
<1>3. QED
  BY <1>1, <1>2, TypeInvariant, GraphInvariant, OrderInvariant, PTL
     DEF KeepsItsPromise, Publishing!Spec, Spec
=============================================================================
