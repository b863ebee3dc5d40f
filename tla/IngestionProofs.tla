-------------------------- MODULE IngestionProofs --------------------------
(***************************************************************************)
(* Proofs about Ingestion, for every topic, every number of runs and       *)
(* workers and every bound.  The last part is about what a run has         *)
(* harvested: its window is covered, windows leave no hole between them,   *)
(* and a reprocess stays inside its own.                                   *)
(***************************************************************************)
EXTENDS Ingestion, WellFoundedInduction, TLAPS

\* The date of a time is a natural number.
LEMMA DateOfType == \A t \in Nat : DateOf(t) \in Nat
  BY BoundsAssumption DEF DateOf

\* A page is taken from the set it is a page of.
LEMMA FirstOfSubset == \A n, S : FirstOf(n, S) \subseteq S
  BY DEF FirstOf

\* The constants that Init and idle workers use have their types.
LEMMA DefaultsType ==
    /\ AnyRun \in Runs
    /\ NoCheckpoint \in Checkpoints
    /\ BlankView \in Views
<1>1. AnyRun \in Runs
  BY RunsAssumption DEF AnyRun
<1>2. NoCheckpoint \in Checkpoints
  <2> DEFINE s0 == CHOOSE s \in Scopes : TRUE
  <2>1. s0 \in Scopes
    BY ScopesAssumption
  <2> HIDE DEF s0
  <2>2. FirstCheckpoint(s0, 0) \in Checkpoints
    BY <2>1, CategoriesAssumption DEF FirstCheckpoint, Checkpoints
  <2>3. [FirstCheckpoint(s0, 0) EXCEPT !.saved = FALSE] \in Checkpoints
    BY <2>2 DEF Checkpoints
  <2>4. QED
    BY <2>3 DEF NoCheckpoint, s0
<1>3. NoCheckpoint.scope \in Scopes
  BY <1>2 DEF Checkpoints
<1>4. QED
  BY <1>1, <1>2, <1>3 DEF BlankView, Views

LEMMA FirstCheckpointType ==
    \A s \in Scopes, d \in Nat : FirstCheckpoint(s, d) \in Checkpoints
  BY CategoriesAssumption DEF FirstCheckpoint, Checkpoints

LEMMA SuccessorType ==
    ASSUME NEW prog \in Checkpoints, NEW to \in Nat
    PROVE  Successor(prog, to) \in Checkpoints
<1>1. prog.category \in 1 .. NumCategories /\ prog.day \in Nat /\ NumCategories \in Nat \ {0}
  BY CategoriesAssumption DEF Checkpoints
<1>2. prog.category < NumCategories => prog.category + 1 \in 1 .. NumCategories
  BY <1>1
<1>3. prog.day + 1 \in Nat /\ 1 \in 1 .. NumCategories
  BY <1>1
<1>4. CASE prog.category < NumCategories
  BY <1>2, <1>4 DEF Successor, Checkpoints
<1>5. CASE ~(prog.category < NumCategories)
  BY <1>3, <1>5 DEF Successor, Checkpoints
<1>6. QED
  BY <1>4, <1>5

LEMMA ListedType ==
    ASSUME NEW prog \in Checkpoints
    PROVE  Listed(prog) \in Checkpoints
<1> DEFINE left == Listing(prog.day, prog.category) \ prog.token
           page == FirstOf(PageSize, left)
<1>1. page \subseteq Papers
  BY DEF FirstOf, Listing
<1> HIDE DEF page, left
<1>2. prog.token \cup page \in SUBSET Papers
  BY <1>1 DEF Checkpoints
<1>3. QED
  BY <1>1, <1>2 DEF Listed, Checkpoints, page, left

\* A paper with some version in a set of versions has a greatest one there.
LEMMA GreatestVersion ==
    ASSUME NEW T \in SUBSET (1 .. MaxVersion), T # {}
    PROVE  \E v \in T : \A u \in T : u <= v
<1> DEFINE D == {MaxVersion - v : v \in T}
<1>1. MaxVersion \in Nat
  BY BoundsAssumption
<1>2. D \subseteq Nat /\ D # {}
  <2>1. \A v \in T : v \in 1 .. MaxVersion
    OBVIOUS
  <2>2. \A v \in T : MaxVersion - v \in Nat
    BY <1>1, <2>1
  <2>3. QED
    BY <2>2, T # {}
<1>3. PICK x \in D : \A y \in D : <<y, x>> \notin OpToRel(<, Nat)
  <2> HIDE DEF D
  <2> QED BY <1>2, NatLessThanWellFounded, WFMin
<1>4. \A y \in D : ~(y < x)
  BY <1>2, <1>3 DEF OpToRel
<1>5. PICK v \in T : x = MaxVersion - v
  OBVIOUS
<1>6. ASSUME NEW u \in T PROVE u <= v
  <2>1. ~(MaxVersion - u < MaxVersion - v)
    BY <1>4, <1>5
  <2>2. u \in Int /\ v \in Int
    OBVIOUS
  <2>3. QED
    BY <1>1, <2>1, <2>2
<1>7. QED
  BY <1>6

\* What _persist_arxiv_metadata makes of the current version of a paper.
LEMMA NewestVersion ==
    ASSUME current \in [Papers -> 0 .. MaxVersion], NEW records \in SUBSET Items,
           NEW p \in Papers
    PROVE  /\ Newest(records)[p] \in 0 .. MaxVersion
           /\ current[p] <= Newest(records)[p]
           /\ \A v \in 1 .. MaxVersion : <<p, v>> \in records => v <= Newest(records)[p]
           /\ Newest(records)[p] = current[p] \/ <<p, Newest(records)[p]>> \in records
<1> DEFINE T == {v \in 1 .. MaxVersion : <<p, v>> \in records}
           Greatest(v) == /\ <<p, v>> \in records
                          /\ \A u \in 1 .. MaxVersion : <<p, u>> \in records => u <= v
           new == \E v \in 1 .. MaxVersion : <<p, v>> \in records /\ v > current[p]
<1>1. MaxVersion \in Nat
  BY BoundsAssumption
<1>2. CASE new
  <2>1. PICK g \in T : \A u \in T : u <= g
    <3>1. T # {} /\ T \in SUBSET (1 .. MaxVersion)
      BY <1>2
    <3>2. QED
      <4> HIDE DEF T
      <4> QED BY <3>1, GreatestVersion
  <2>2. \E v \in 1 .. MaxVersion : Greatest(v)
    BY <2>1
  <2> DEFINE n == CHOOSE v \in 1 .. MaxVersion : Greatest(v)
  <2>3. n \in 1 .. MaxVersion /\ Greatest(n)
    <3> HIDE DEF Greatest
    <3> QED BY <2>2
  <2>4. Newest(records)[p] = n
    BY <1>2 DEF Newest
  <2> HIDE DEF n
  <2>5. current[p] < n
    BY <1>1, <1>2, <2>3
  <2>6. QED
    BY <1>1, <2>3, <2>4, <2>5
<1>3. CASE ~new
  <2>1. Newest(records)[p] = current[p]
    BY <1>3 DEF Newest
  <2>2. QED
    BY <1>1, <1>3, <2>1
<1>4. QED
  BY <1>2, <1>3

LEMMA NewestType ==
    ASSUME current \in [Papers -> 0 .. MaxVersion], NEW records \in SUBSET Items
    PROVE  Newest(records) \in [Papers -> 0 .. MaxVersion]
<1>1. Newest(records) = [p \in Papers |-> Newest(records)[p]]
  BY DEF Newest
<1>2. QED
  BY <1>1, NewestVersion

----------------------------------------------------------------------------
(* Type correctness.  A window that may move the cursor ends after the model *)
(* starts, so that the next window does not begin before time 0.             *)

EndsAfterStart ==
    /\ \A r \in Runs : run[r].status # "ABSENT" /\ AdvancesCursor(r) => run[r].to >= StartTime
    /\ \A w \in Workers : pc[w] # "idle" /\ AdvancesCursor(job[w]) => view[w].to >= StartTime

TypeInv == TypeOK /\ EndsAfterStart

LEMMA TypeInit == Init => TypeInv
<1> SUFFICES ASSUME Init PROVE TypeInv
  OBVIOUS
<1>1. TypeOK
  <2>1. now \in Nat /\ now >= StartTime /\ stamp \in [Papers -> Nat]
    BY BoundsAssumption DEF Init
  <2>2. ver \in [Papers -> 1 .. MaxVersion] /\ current \in [Papers -> 0 .. MaxVersion]
    BY BoundsAssumption DEF Init
  <2>3. run \in [Runs -> RunRows]
    BY DEF Init, RunRows, Statuses
  <2>4. progress \in [Runs -> Checkpoints] /\ items \in [Runs -> SUBSET Items]
    BY DefaultsType DEF Init
  <2>5. pc \in [Workers -> Steps] /\ job \in [Workers -> Runs] /\ view \in [Workers -> Views]
    BY DefaultsType DEF Init, Steps
  <2>6. holder \in [Dates -> Workers \cup {Nobody}] /\ published \in [Dates -> SUBSET Items]
    BY DEF Init
  <2>7. QED
    BY <2>1, <2>2, <2>3, <2>4, <2>5, <2>6 DEF Init, TypeOK
<1>2. EndsAfterStart
  BY DEF Init, EndsAfterStart
<1>3. QED
  BY <1>1, <1>2 DEF TypeInv

\* Leaving keeps the types.
LEMMA ExitType ==
    ASSUME TypeOK, NEW w \in Workers, Exit(w)
    PROVE  /\ holder' \in [Dates -> Workers \cup {Nobody}]
           /\ pc' \in [Workers -> Steps]
           /\ job' \in [Workers -> Runs]
           /\ view' \in [Workers -> Views]
  BY DefaultsType DEF TypeOK, Exit, Released, Steps

\* A checkpoint and its records keep the types, admitted or not.
LEMMA PersistType ==
    ASSUME TypeOK, NEW w \in Workers, NEW prog \in Checkpoints, NEW records \in SUBSET Items,
           NEW next \in Steps, NEW local \in Views,
           PersistIngestionProgress(w, prog, records, next, local),
           rejections' \in Nat, UNCHANGED <<now, stamp, ver, losses, published>>
    PROVE  TypeOK'
<1>1. Newest(records) \in [Papers -> 0 .. MaxVersion]
  BY NewestType DEF TypeOK
<1>2. job[w] \in Runs
  BY DEF TypeOK
<1>3. progress' \in [Runs -> Checkpoints] /\ items' \in [Runs -> SUBSET Items]
  BY <1>2 DEF TypeOK, PersistIngestionProgress
<1>4. current' \in [Papers -> 0 .. MaxVersion]
  BY <1>1 DEF TypeOK, PersistIngestionProgress
<1>5. pc' \in [Workers -> Steps] /\ view' \in [Workers -> Views]
  BY DEF TypeOK, PersistIngestionProgress, Steps
<1>6. QED
  BY <1>3, <1>4, <1>5 DEF TypeOK, PersistIngestionProgress

\* The window of a run that opens now, and where it ends.
LEMMA WindowType ==
    ASSUME TypeOK, NEW r \in Runs
    PROVE  /\ CurrentCursorWindow(r).from \in Nat
           /\ CurrentCursorWindow(r).to \in Nat
           /\ AdvancesCursor(r) => CurrentCursorWindow(r).to >= StartTime
<1> DEFINE to == IF now < LogicalEnd[r] THEN now ELSE LogicalEnd[r]
           base == IF watermark = NoWatermark THEN now - Lookback ELSE watermark
<1>1. /\ Lookback \in Nat /\ Overlap \in Nat /\ StartTime \in Nat /\ now \in Nat
      /\ now >= StartTime /\ StartTime >= Lookback + Overlap
      /\ LogicalEnd[r] \in Nat /\ LogicalEnd[r] >= Lookback + Overlap
      /\ watermark = NoWatermark \/ (watermark \in Nat /\ watermark >= StartTime)
  BY BoundsAssumption, RunsAssumption DEF TypeOK, NoWatermark
<1>2. to \in Nat /\ to - Lookback - Overlap \in Nat
  BY <1>1
<1>3. base - Overlap \in Nat
  BY <1>1
<1>4. CASE Mode[r] = "REPROCESS"
  BY <1>2, <1>4 DEF CurrentCursorWindow, AdvancesCursor
<1>5. CASE Mode[r] # "REPROCESS"
  BY <1>1, <1>3, <1>5 DEF CurrentCursorWindow
<1>6. QED
  BY <1>4, <1>5

LEMMA OpenRunType ==
    ASSUME TypeInv, NEW w \in Workers, NEW r \in Runs, OpenRun(w, r)
    PROVE  TypeInv'
<1> DEFINE old == run[r]
           window == IF old.status = "ABSENT" \/ (old.status = "FAILED" /\ ~progress[r].saved)
                     THEN CurrentCursorWindow(r)
                     ELSE [from |-> old.from, to |-> old.to]
<1>1. TypeOK /\ EndsAfterStart
  BY DEF TypeInv
<1>2. window.from \in Nat /\ window.to \in Nat /\ (AdvancesCursor(r) => window.to >= StartTime)
  <2>1. old \in RunRows
    BY <1>1 DEF TypeOK
  <2>2. old.from \in Nat /\ old.to \in Nat
    BY <2>1 DEF RunRows
  <2>3. old.status # "ABSENT" /\ AdvancesCursor(r) => old.to >= StartTime
    BY <1>1 DEF EndsAfterStart
  <2>4. QED
    BY <1>1, <2>2, <2>3, WindowType
<1> HIDE DEF window
<1>3. PICK s \in Scopes :
        view' = [view EXCEPT ![w] = [BlankView EXCEPT
                    !.fresh = old.status = "ABSENT", !.scope = s,
                    !.from = window.from, !.to = window.to]]
  BY DEF OpenRun, window
<1> DEFINE local == [BlankView EXCEPT !.fresh = old.status = "ABSENT", !.scope = s,
                                      !.from = window.from, !.to = window.to]
<1>4. local \in Views
  BY <1>2, DefaultsType DEF Views
<1>5. local.to = window.to
  BY DefaultsType DEF Views
<1> HIDE DEF local
<1>6. view' = [view EXCEPT ![w] = local]
  BY <1>3 DEF local
<1>7. TypeOK'
  <2>1. view' \in [Workers -> Views]
    BY <1>1, <1>4, <1>6 DEF TypeOK
  <2>2. /\ holder' = [holder EXCEPT ![LogicalDate[r]] = w]
        /\ pc' = [pc EXCEPT ![w] = "opened"] /\ job' = [job EXCEPT ![w] = r]
        /\ UNCHANGED <<environment, database>>
    BY DEF OpenRun
  <2>3. /\ holder' \in [Dates -> Workers \cup {Nobody}]
        /\ pc' \in [Workers -> Steps] /\ job' \in [Workers -> Runs]
    BY <1>1, <2>2 DEF TypeOK, Steps
  <2>4. QED
    BY <1>1, <2>1, <2>2, <2>3 DEF TypeOK, environment, database
<1>8. EndsAfterStart'
  <2>1. run' = run /\ pc' = [pc EXCEPT ![w] = "opened"] /\ job' = [job EXCEPT ![w] = r]
    BY DEF OpenRun, database
  <2>2. QED
    BY <1>1, <1>2, <1>5, <1>6, <2>1 DEF EndsAfterStart, TypeOK
<1>9. QED
  BY <1>7, <1>8 DEF TypeInv

\* Ends of windows survive a step that keeps the rows and the local windows.
LEMMA EndsKept ==
    ASSUME EndsAfterStart, UNCHANGED <<run, job>>,
           \A v \in Workers : /\ view'[v].to = view[v].to
                              /\ pc'[v] # "idle" => pc[v] # "idle"
    PROVE  EndsAfterStart'
  BY DEF EndsAfterStart

\* They survive the end of a process that leaves the windows of the rows alone.
LEMMA EndsKeptByExit ==
    ASSUME TypeOK, EndsAfterStart, NEW w \in Workers, Exit(w),
           \A r \in Runs : /\ run'[r].to = run[r].to
                           /\ run'[r].status # "ABSENT" => run[r].status # "ABSENT"
    PROVE  EndsAfterStart'
  BY DEF EndsAfterStart, Exit, TypeOK

LEMMA BeginType ==
    ASSUME TypeInv, NEW w \in Workers, pc[w] = "opened", Begin(w, job[w])
    PROVE  TypeInv'
<1> DEFINE row == [status |-> "RUNNING", from |-> view[w].from, to |-> view[w].to]
           local == [view[w] EXCEPT !.fresh = FALSE]
<1>1. TypeOK /\ EndsAfterStart
  BY DEF TypeInv
<1>2. view[w] \in Views /\ job[w] \in Runs
  BY <1>1 DEF TypeOK
<1>3. row \in RunRows
  BY <1>2 DEF Views, RunRows, Statuses
<1>4. local \in Views /\ local.to = view[w].to
  BY <1>2 DEF Views
<1>5. /\ run' = [run EXCEPT ![job[w]] = row] /\ view' = [view EXCEPT ![w] = local]
      /\ pc' = [pc EXCEPT ![w] = "begun"]
      /\ UNCHANGED <<environment, progress, items, watermark, current, holder, job>>
  BY DEF Begin
<1>6. row.to = view[w].to
  OBVIOUS
<1> HIDE DEF row, local
<1>7. TypeOK'
  <2>1. run' \in [Runs -> RunRows] /\ view' \in [Workers -> Views] /\ pc' \in [Workers -> Steps]
    BY <1>1, <1>2, <1>3, <1>4, <1>5 DEF TypeOK, Steps
  <2>2. QED
    BY <1>1, <1>5, <2>1 DEF TypeOK, environment
<1>8. EndsAfterStart'
  <2>1. ASSUME NEW r \in Runs, run'[r].status # "ABSENT", AdvancesCursor(r)
        PROVE  run'[r].to >= StartTime
    <3>1. CASE r = job[w]
      BY <1>1, <1>2, <1>5, <1>6, <2>1, <3>1 DEF EndsAfterStart, TypeOK
    <3>2. CASE r # job[w]
      BY <1>1, <1>5, <2>1, <3>2 DEF EndsAfterStart, TypeOK
    <3>3. QED
      BY <3>1, <3>2
  <2>2. ASSUME NEW v \in Workers, pc'[v] # "idle", AdvancesCursor(job'[v])
        PROVE  view'[v].to >= StartTime
    BY <1>1, <1>4, <1>5, <2>2 DEF EndsAfterStart, TypeOK
  <2>3. QED
    BY <2>1, <2>2 DEF EndsAfterStart
<1>9. QED
  BY <1>7, <1>8 DEF TypeInv

\* A checkpoint keeps the invariant when it is not an idle worker that writes
\* it and its local state keeps the window.
LEMMA PersistKeepsTypeInv ==
    ASSUME TypeInv, NEW w \in Workers, pc[w] # "idle",
           NEW prog \in Checkpoints, NEW records \in SUBSET Items,
           NEW next \in Steps, NEW local \in Views, local.to = view[w].to,
           PersistIngestionProgress(w, prog, records, next, local),
           rejections' \in Nat, UNCHANGED <<now, stamp, ver, losses, published>>
    PROVE  TypeInv'
<1>1. TypeOK /\ EndsAfterStart
  BY DEF TypeInv
<1>2. TypeOK'
  BY <1>1, PersistType
<1>3. /\ UNCHANGED <<run, job>> /\ view' = [view EXCEPT ![w] = local]
      /\ \E n : pc' = [pc EXCEPT ![w] = n]
  BY DEF PersistIngestionProgress
<1>4. \A v \in Workers : view'[v].to = view[v].to /\ (pc'[v] # "idle" => pc[v] # "idle")
  BY <1>1, <1>3 DEF TypeOK
<1>5. QED
  BY <1>1, <1>2, <1>3, <1>4, EndsKept DEF TypeInv

\* What arXiv returns for known papers is a set of items.
LEMMA AcceptedType ==
    ASSUME TypeOK, NEW w \in Workers, NEW returned \in SUBSET Papers
    PROVE  Accepted(w, returned) \in SUBSET Items
  BY DEF TypeOK, Accepted, Items

LEMMA BaselineType ==
    ASSUME TypeOK, NEW r \in Runs
    PROVE  Baseline(r) \in SUBSET Items
  BY DEF TypeOK, Baseline, Dates

LEMMA HarvestType ==
    ASSUME TypeInv, NEW w \in Workers, Harvest(w)
    PROVE  TypeInv'
<1>1. TypeOK /\ EndsAfterStart
  BY DEF TypeInv
<1>2. view[w] \in Views /\ job[w] \in Runs
  BY <1>1 DEF TypeOK
<1>3. /\ view[w].prog \in Checkpoints /\ view[w].to \in Nat /\ view[w].from \in Nat
      /\ view[w].scope \in Scopes /\ view[w].pages \in Nat /\ view[w].restarts \in Nat
      /\ view[w].accepted \in SUBSET Items /\ rejections \in Nat
  BY <1>1, <1>2 DEF Views, TypeOK
\* Only where a worker is, or its local state, changes.
<1>a. ASSUME NEW next \in Steps, NEW local \in Views, local.to = view[w].to,
             pc[w] # "idle", pc' = [pc EXCEPT ![w] = next], view' = [view EXCEPT ![w] = local],
             UNCHANGED <<now, stamp, ver, losses, published, database, holder, job>>,
             rejections' \in Nat
      PROVE  TypeInv'
  <2>1. TypeOK'
    BY <1>1, <1>a DEF TypeOK, database
  <2>2. \A v \in Workers : view'[v].to = view[v].to /\ (pc'[v] # "idle" => pc[v] # "idle")
    BY <1>1, <1>a DEF TypeOK
  <2>3. QED
    BY <1>1, <1>a, <2>1, <2>2, EndsKept DEF TypeInv, database
<1>b. ASSUME pc[w] # "idle", GiveUp(w) PROVE TypeInv'
  <2>1. view' = [view EXCEPT ![w] = view[w]]
    BY <1>1, <1>b DEF GiveUp, TypeOK
  <2>2. QED
    BY <1>2, <1>3, <1>a, <1>b, <2>1 DEF GiveUp, Steps, environment
<1>4. CASE ReadProgress(w)
  <2> DEFINE first == FirstCheckpoint(view[w].scope, DateOf(view[w].from))
             r == job[w]
  <2>1. first \in Checkpoints /\ progress[r] \in Checkpoints
    BY <1>1, <1>2, <1>3, DateOfType, FirstCheckpointType DEF TypeOK
  <2> HIDE DEF first
  <2>2. /\ [view[w] EXCEPT !.prog = first] \in Views
        /\ [view[w] EXCEPT !.prog = progress[r]] \in Views
    BY <1>2, <2>1 DEF Views
  <2>3. /\ [view[w] EXCEPT !.prog = first].to = view[w].to
        /\ [view[w] EXCEPT !.prog = progress[r]].to = view[w].to
    BY <1>2 DEF Views
  <2>4. PICK next \in Steps, local \in Views :
          /\ local.to = view[w].to
          /\ pc' = [pc EXCEPT ![w] = next] /\ view' = [view EXCEPT ![w] = local]
    <3>1. CASE ~progress[r].saved
      BY <1>1, <1>4, <2>2, <2>3, <3>1 DEF ReadProgress, Steps, first, TypeOK
    <3>2. CASE progress[r].saved /\ progress[r].scope # view[w].scope
      <4>1. view' = [view EXCEPT ![w] = view[w]]
        BY <1>1, <1>4, <3>2 DEF ReadProgress, TypeOK
      <4>2. QED
        BY <1>2, <1>4, <3>2, <4>1 DEF ReadProgress, Steps
    <3>3. CASE progress[r].saved /\ progress[r].scope = view[w].scope
      BY <1>1, <1>4, <2>2, <2>3, <3>3 DEF ReadProgress, Steps, TypeOK
    <3>4. QED
      BY <3>1, <3>2, <3>3
  <2>5. QED
    BY <1>3, <1>4, <1>a, <2>4 DEF ReadProgress, environment
<1>5. CASE SeedProgress(w)
  <2>1. Baseline(job[w]) \in SUBSET Items
    BY <1>1, <1>2, BaselineType
  <2>2. QED
    BY <1>2, <1>3, <1>5, <2>1, PersistKeepsTypeInv DEF SeedProgress, Steps, environment
<1>6. CASE SeedFails(w)
  BY <1>b, <1>6 DEF SeedFails, GiveUp
<1>7. ASSUME NEW returned \in SUBSET view[w].prog.pending, GetPapersByIds(w, returned)
      PROVE  TypeInv'
  <2> DEFINE batch == FirstOf(BatchSize, view[w].prog.pending)
             left == StillPending(view[w].prog, returned)
             local == [view[w] EXCEPT !.prog.pending = left,
                                      !.accepted = Accepted(w, returned),
                                      !.missing = returned # batch]
  <2>1. view[w].prog.pending \in SUBSET Papers
    BY <1>3 DEF Checkpoints
  <2>2. left \in SUBSET Papers /\ Accepted(w, returned) \in SUBSET Items
    BY <1>1, <1>7, <2>1, AcceptedType DEF StillPending
  <2> HIDE DEF left, batch
  <2>3. [view[w].prog EXCEPT !.pending = left] \in Checkpoints
    BY <1>3, <2>2 DEF Checkpoints
  <2>4. local \in Views /\ local.to = view[w].to
    BY <1>2, <2>2, <2>3 DEF Views
  <2>5. view' = [view EXCEPT ![w] = local]
    BY <1>1, <1>7 DEF GetPapersByIds, left, batch, TypeOK
  <2> HIDE DEF local
  <2>6. QED
    BY <1>3, <1>7, <1>a, <2>4, <2>5 DEF GetPapersByIds, Steps, environment
<1>8. CASE SaveBatch(w)
  <2> DEFINE local == [view[w] EXCEPT !.accepted = {}, !.missing = FALSE]
  <2>1. local \in Views /\ local.to = view[w].to
    BY <1>2 DEF Views
  <2>2. QED
    BY <1>3, <1>8, <2>1, PersistKeepsTypeInv DEF SaveBatch, Steps, environment
<1>9. CASE NextPosition(w)
  <2> DEFINE next == Successor(view[w].prog, view[w].to)
             local == [view[w] EXCEPT !.prog = next]
  <2>1. next \in Checkpoints
    BY <1>3, SuccessorType
  <2>2. local \in Views /\ local.to = view[w].to
    BY <1>2, <2>1 DEF Views
  <2>3. QED
    BY <1>3, <1>9, <2>1, <2>2, PersistKeepsTypeInv DEF NextPosition, Steps, environment
<1>10. CASE ListUpdatedIdentifiers(w)
  <2> DEFINE next == Listed(view[w].prog)
             local == [view[w] EXCEPT !.prog = next, !.pages = @ + 1]
  <2>1. next \in Checkpoints
    BY <1>3, ListedType
  <2> HIDE DEF next
  <2>2. local \in Views /\ local.to = view[w].to
    <3>1. view[w].pages + 1 \in Nat
      BY <1>3
    <3>2. QED
      BY <1>2, <2>1, <3>1 DEF Views
  <2>3. QED
    BY <1>3, <1>10, <2>1, <2>2, PersistKeepsTypeInv
       DEF next, ListUpdatedIdentifiers, MayList, NeedsPage, Steps, environment
<1>11. CASE TokenExpired(w)
  <2> DEFINE next == [view[w].prog EXCEPT !.token = {}]
             local == [view[w] EXCEPT !.prog = next, !.pages = @ + 1, !.restarts = @ + 1]
  <2>1. next \in Checkpoints
    BY <1>3 DEF Checkpoints
  <2> HIDE DEF next
  <2>2. local \in Views /\ local.to = view[w].to
    <3>1. view[w].pages + 1 \in Nat /\ view[w].restarts + 1 \in Nat
      BY <1>3
    <3>2. QED
      BY <1>2, <2>1, <3>1 DEF Views
  <2>3. /\ pc[w] # "idle" /\ rejections' \in Nat
        /\ UNCHANGED <<now, stamp, ver, losses, published>>
    BY <1>3, <1>11 DEF TokenExpired, MayList, NeedsPage
  <2>4. CASE view[w].restarts >= MaxTokenRestarts
    <3>1. view' = [view EXCEPT ![w] = view[w]]
      BY <1>1, <1>11, <2>4 DEF TokenExpired, TypeOK
    <3>2. QED
      BY <1>2, <1>a, <1>11, <2>3, <2>4, <3>1 DEF TokenExpired, Steps
  <2>5. CASE ~(view[w].restarts >= MaxTokenRestarts)
    BY <1>11, <2>1, <2>2, <2>3, <2>5, PersistKeepsTypeInv DEF TokenExpired, next, Steps
  <2>6. QED
    BY <2>4, <2>5
<1>12. CASE PageBudgetExhausted(w)
  BY <1>b, <1>12 DEF PageBudgetExhausted, NeedsPage
<1>13. CASE ArxivFails(w)
  BY <1>b, <1>13 DEF ArxivFails
<1>14. QED
  BY <1>4, <1>5, <1>6, <1>7, <1>8, <1>9, <1>10, <1>11, <1>12, <1>13 DEF Harvest

LEMMA WorldType ==
    ASSUME TypeInv, World
    PROVE  TypeInv'
<1>1. TypeOK /\ EndsAfterStart
  BY DEF TypeInv
<1>2. EndsAfterStart'
  <2>1. UNCHANGED <<run, pc, job, view>>
    BY DEF World, Tick, Revise, Publish, database, process
  <2>2. QED
    BY <1>1, <2>1 DEF EndsAfterStart
<1>3. UNCHANGED <<database, process>>
  BY DEF World, Tick, Revise, Publish
<1>4. ASSUME Tick PROVE TypeOK'
  BY <1>1, <1>3, <1>4, BoundsAssumption DEF TypeOK, Tick, database, process
<1>5. ASSUME NEW p \in Papers, Revise(p) PROVE TypeOK'
  <2>1. ver[p] \in 1 .. MaxVersion /\ ver[p] < MaxVersion /\ MaxVersion \in Nat
    BY <1>1, <1>5, BoundsAssumption DEF TypeOK, Revise
  <2>2. ver[p] + 1 \in 1 .. MaxVersion
    BY <2>1
  <2>3. ver' \in [Papers -> 1 .. MaxVersion] /\ stamp' \in [Papers -> Nat]
    BY <1>1, <1>5, <2>2 DEF TypeOK, Revise
  <2>4. QED
    BY <1>1, <1>3, <1>5, <2>3 DEF TypeOK, Revise, database, process
<1>6. ASSUME NEW r \in Runs, Publish(r) PROVE TypeOK'
  <2>1. published' \in [Dates -> SUBSET Items]
    <3>1. PICK S \in SUBSET items[r] : published' = [published EXCEPT ![LogicalDate[r]] = S]
      BY <1>6 DEF Publish
    <3>2. S \in SUBSET Items
      BY <1>1 DEF TypeOK
    <3>3. QED
      BY <1>1, <3>1, <3>2 DEF TypeOK
  <2>2. QED
    BY <1>1, <1>3, <1>6, <2>1 DEF TypeOK, Publish, database, process
<1>7. QED
  BY <1>1, <1>2, <1>4, <1>5, <1>6 DEF World, TypeInv

\* A process that ends without a change of the tables.
LEMMA QuitType ==
    ASSUME TypeInv, NEW w \in Workers, Exit(w), UNCHANGED <<environment, database>>
    PROVE  TypeInv'
<1>1. TypeOK /\ EndsAfterStart
  BY DEF TypeInv
<1>2. TypeOK'
  BY <1>1, ExitType DEF TypeOK, environment, database
<1>3. EndsAfterStart'
  BY <1>1, EndsKeptByExit DEF database
<1>4. QED
  BY <1>2, <1>3 DEF TypeInv

LEMMA LoseLockType ==
    ASSUME TypeInv, NEW w \in Workers, LoseLock(w)
    PROVE  TypeInv'
<1>1. TypeOK /\ EndsAfterStart
  BY DEF TypeInv
<1>2. holder' \in [Dates -> Workers \cup {Nobody}] /\ losses' \in Nat
  BY <1>1 DEF TypeOK, LoseLock
<1>3. UNCHANGED <<now, stamp, ver, rejections, published, database, pc, job, view>>
  BY DEF LoseLock
<1>4. TypeOK'
  BY <1>1, <1>2, <1>3 DEF TypeOK, database
<1>5. EndsAfterStart'
  BY <1>1, <1>3 DEF EndsAfterStart, database
<1>6. QED
  BY <1>4, <1>5 DEF TypeInv

\* A process that ends with a new status of its run and, perhaps, the cursor.
LEMMA CloseType ==
    ASSUME TypeInv, NEW w \in Workers, Exit(w),
           NEW status \in Statuses, NEW to \in Nat \cup {NoWatermark},
           to = NoWatermark \/ to >= StartTime,
           run[job[w]].status # "ABSENT",
           run' = [run EXCEPT ![job[w]].status = status], watermark' = to,
           UNCHANGED <<environment, progress, items, current>>
    PROVE  TypeInv'
<1>1. TypeOK /\ EndsAfterStart
  BY DEF TypeInv
<1>2. job[w] \in Runs /\ run[job[w]] \in RunRows
  BY <1>1 DEF TypeOK
<1>3. run' \in [Runs -> RunRows]
  BY <1>1, <1>2 DEF TypeOK, RunRows
<1>4. TypeOK'
  BY <1>1, <1>3, ExitType DEF TypeOK, environment
<1>5. \A r \in Runs : /\ run'[r].to = run[r].to
                      /\ run'[r].status # "ABSENT" => run[r].status # "ABSENT"
  BY <1>1, <1>2 DEF TypeOK, RunRows
<1>6. EndsAfterStart'
  BY <1>1, <1>5, EndsKeptByExit
<1>7. QED
  BY <1>4, <1>6 DEF TypeInv

LEMMA FailType ==
    ASSUME TypeInv, NEW w \in Workers, FailIngestionRun(w)
    PROVE  TypeInv'
<1>1. CASE run[job[w]].status = "RUNNING"
  <2>1. watermark \in Nat \cup {NoWatermark} /\ (watermark = NoWatermark \/ watermark >= StartTime)
    BY DEF TypeInv, TypeOK
  <2>2. QED
    BY <1>1, <2>1, CloseType DEF FailIngestionRun, Statuses
<1>2. CASE run[job[w]].status # "RUNNING"
  BY <1>2, QuitType DEF FailIngestionRun, database
<1>3. QED
  BY <1>1, <1>2

LEMMA CompleteType ==
    ASSUME TypeInv, NEW w \in Workers, PersistArxivBatchAndComplete(w)
    PROVE  TypeInv'
<1> DEFINE r == job[w]
           to == Advanced(r, view[w].to)
<1>1. TypeOK /\ EndsAfterStart
  BY DEF TypeInv
<1>2. view[w] \in Views /\ r \in Runs
  BY <1>1 DEF TypeOK
<1>3. CASE run[r].status # "RUNNING"
  BY <1>3, QuitType DEF PersistArxivBatchAndComplete
<1>4. CASE run[r].status = "RUNNING" /\ progress[r].saved /\ ~progress[r].complete
  <2>1. pc' = [pc EXCEPT ![w] = "failing"] /\ UNCHANGED <<environment, database, holder, job, view>>
    BY <1>4 DEF PersistArxivBatchAndComplete
  <2>2. TypeOK'
    BY <1>1, <2>1 DEF TypeOK, environment, database, Steps
  <2>3. \A v \in Workers : view'[v].to = view[v].to /\ (pc'[v] # "idle" => pc[v] # "idle")
    BY <1>1, <2>1 DEF PersistArxivBatchAndComplete, TypeOK
  <2>4. QED
    BY <1>1, <2>1, <2>2, <2>3, EndsKept DEF TypeInv, database
<1>5. CASE run[r].status = "RUNNING" /\ ~(progress[r].saved /\ ~progress[r].complete)
  <2>1. /\ run' = [run EXCEPT ![r].status = "COMPLETE"] /\ watermark' = to
        /\ Exit(w) /\ UNCHANGED <<environment, progress, items, current>>
    BY <1>5 DEF PersistArxivBatchAndComplete
  <2>2. AdvancesCursor(r) => view[w].to >= StartTime
    BY <1>1 DEF EndsAfterStart, PersistArxivBatchAndComplete
  <2>3. view[w].to \in Nat
    BY <1>2 DEF Views
  <2>4. to \in Nat \cup {NoWatermark} /\ (to = NoWatermark \/ to >= StartTime)
    BY <1>1, <2>2, <2>3 DEF Advanced, TypeOK
  <2> HIDE DEF to
  <2>5. QED
    BY <1>5, <2>1, <2>4, CloseType DEF Statuses
<1>6. QED
  BY <1>3, <1>4, <1>5

LEMMA TypeStep ==
    ASSUME TypeInv, [Next]_vars
    PROVE  TypeInv'
<1>1. CASE World
  BY <1>1, WorldType
<1>2. ASSUME NEW w \in Workers, Execute(w) PROVE TypeInv'
  <2>1. ASSUME NEW r \in Runs, OpenRun(w, r) PROVE TypeInv'
    BY <2>1, OpenRunType
  <2>2. CASE StartIngestionRun(w)
    BY <2>2, BeginType, QuitType DEF StartIngestionRun
  <2>3. CASE RestartIngestionRun(w)
    BY <2>3, BeginType, QuitType DEF RestartIngestionRun
  <2>4. CASE Harvest(w)
    BY <2>4, HarvestType
  <2>5. CASE FailIngestionRun(w)
    BY <2>5, FailType
  <2>6. CASE PersistArxivBatchAndComplete(w)
    BY <2>6, CompleteType
  <2>7. QED
    BY <1>2, <2>1, <2>2, <2>3, <2>4, <2>5, <2>6 DEF Execute
<1>3. ASSUME NEW w \in Workers, Crash(w) PROVE TypeInv'
  BY <1>3, QuitType DEF Crash
<1>4. ASSUME NEW w \in Workers, LoseLock(w) PROVE TypeInv'
  BY <1>4, LoseLockType
<1>5. CASE UNCHANGED vars
  BY <1>5 DEF vars, environment, database, process, TypeInv, TypeOK, EndsAfterStart
<1>6. QED
  BY <1>1, <1>2, <1>3, <1>4, <1>5 DEF Next

\* Every reachable state of Ingestion is type correct.
THEOREM TypeCorrect == Spec => []TypeOK
<1>1. Spec => []TypeInv
  BY TypeInit, TypeStep, PTL DEF Spec
<1>2. TypeInv => TypeOK
  BY DEF TypeInv
<1>3. QED
  BY <1>1, <1>2, PTL

----------------------------------------------------------------------------
(* What a step of the harvest does to the tables: it leaves the rows, the    *)
(* cursor and the locks alone, and either writes no checkpoint or writes one *)
(* that persist_ingestion_progress admits for the run of the worker.         *)

Harvesting == {"seed", "harvest", "save"}

\* A worker only ever carries a checkpoint that can be saved, and only a run
\* that was started has one.
CheckpointInv ==
    /\ \A r \in Runs : progress[r].saved => run[r].status # "ABSENT"
    /\ \A w \in Workers : pc[w] \in Harvesting => view[w].prog.saved

WritesCheckpoint(w, prog, records) ==
    /\ AdmitsCheckpoint(job[w], prog)
    /\ prog.saved
    /\ progress' = [progress EXCEPT ![job[w]] = prog]
    /\ items' = [items EXCEPT ![job[w]] = @ \cup records]
    /\ current' = Newest(records)

HarvestFrame(w) ==
    /\ UNCHANGED <<run, watermark, holder, job, losses, now>>
    /\ pc[w] \in Harvesting \cup {"begun"}
    /\ pc' = [pc EXCEPT ![w] = pc'[w]]
    /\ pc'[w] \in Harvesting \cup {"failing"}
    /\ view' = [view EXCEPT ![w] = view'[w]]
    /\ view'[w].from = view[w].from /\ view'[w].to = view[w].to
    /\ pc'[w] \in Harvesting => view'[w].prog.saved
    /\ \/ UNCHANGED <<progress, items, current>>
       \/ \E prog \in Checkpoints, records \in SUBSET Items : WritesCheckpoint(w, prog, records)

LEMMA PersistFrame ==
    ASSUME TypeOK, NEW w \in Workers, pc[w] \in Harvesting,
           NEW prog \in Checkpoints, prog.saved,
           NEW records \in SUBSET Items, NEW next \in Harvesting \cup {"failing"},
           NEW local \in Views, local.from = view[w].from, local.to = view[w].to, local.prog.saved,
           PersistIngestionProgress(w, prog, records, next, local), UNCHANGED <<now, losses>>
    PROVE  HarvestFrame(w)
<1>1. UNCHANGED <<run, watermark, holder, job, losses, now>> /\ view' = [view EXCEPT ![w] = local]
  BY DEF PersistIngestionProgress
<1>2. view'[w] = local /\ view' = [view EXCEPT ![w] = view'[w]]
  BY <1>1 DEF TypeOK
<1>3. /\ pc' = [pc EXCEPT ![w] = pc'[w]] /\ pc'[w] \in Harvesting \cup {"failing"}
      /\ \/ UNCHANGED <<progress, items, current>>
         \/ WritesCheckpoint(w, prog, records)
  <2>1. CASE AdmitsCheckpoint(job[w], prog)
    BY <2>1 DEF PersistIngestionProgress, WritesCheckpoint, TypeOK
  <2>2. CASE ~AdmitsCheckpoint(job[w], prog)
    BY <2>2 DEF PersistIngestionProgress, TypeOK
  <2>3. QED
    BY <2>1, <2>2
<1>4. QED
  BY <1>1, <1>2, <1>3 DEF HarvestFrame

\* A step that writes no table.
LEMMA LocalFrame ==
    ASSUME TypeOK, NEW w \in Workers, pc[w] \in Harvesting \cup {"begun"},
           NEW next \in Harvesting \cup {"failing"}, NEW local,
           local.from = view[w].from, local.to = view[w].to,
           next \in Harvesting => local.prog.saved,
           pc' = [pc EXCEPT ![w] = next], view' = [view EXCEPT ![w] = local],
           UNCHANGED <<database, holder, job, losses, now>>
    PROVE  HarvestFrame(w)
<1>1. /\ view'[w] = local /\ view' = [view EXCEPT ![w] = view'[w]]
      /\ pc'[w] = next /\ pc' = [pc EXCEPT ![w] = pc'[w]]
  BY DEF TypeOK
<1>2. UNCHANGED <<run, watermark, holder, job, losses, now, progress, items, current>>
  BY DEF database
<1>3. QED
  BY <1>1, <1>2 DEF HarvestFrame

LEMMA SuccessorSaved ==
    ASSUME NEW prog \in Checkpoints, prog.saved, NEW to
    PROVE  Successor(prog, to).saved
  BY DEF Successor, Checkpoints

LEMMA ListedSaved ==
    ASSUME NEW prog \in Checkpoints, prog.saved
    PROVE  Listed(prog).saved
  BY DEF Listed, Checkpoints

LEMMA HarvestStep ==
    ASSUME TypeInv, CheckpointInv, NEW w \in Workers, Harvest(w)
    PROVE  HarvestFrame(w)
<1>1. TypeOK
  BY DEF TypeInv
<1>2. view[w] \in Views /\ job[w] \in Runs
  BY <1>1 DEF TypeOK
<1>3. /\ view[w].prog \in Checkpoints /\ view[w].to \in Nat /\ view[w].from \in Nat
      /\ view[w].accepted \in SUBSET Items /\ view[w].pages \in Nat
      /\ view[w].restarts \in Nat /\ view[w].scope \in Scopes
  BY <1>2 DEF Views
<1>4. pc[w] \in Harvesting => view[w].prog.saved
  BY DEF CheckpointInv
<1>b. ASSUME pc[w] \in Harvesting \cup {"begun"}, pc' = [pc EXCEPT ![w] = "failing"],
             UNCHANGED <<database, holder, job, view, losses, now>>
      PROVE  HarvestFrame(w)
  <2>1. view' = [view EXCEPT ![w] = view[w]]
    BY <1>1, <1>b DEF TypeOK
  <2>2. QED
    BY <1>1, <1>b, <2>1, LocalFrame DEF Harvesting
<1>5. CASE ReadProgress(w)
  <2> DEFINE first == FirstCheckpoint(view[w].scope, DateOf(view[w].from))
             r == job[w]
  <2>1. /\ first \in Checkpoints /\ first.saved /\ progress[r] \in Checkpoints
    BY <1>1, <1>2, <1>3, DateOfType, FirstCheckpointType DEF TypeOK, FirstCheckpoint
  <2> HIDE DEF first
  <2>2. /\ pc[w] = "begun" /\ UNCHANGED <<database, holder, job, losses, now>>
    BY <1>5 DEF ReadProgress, environment
  <2>3. CASE ~progress[r].saved
    <3> DEFINE local == [view[w] EXCEPT !.prog = first]
    <3>1. local.from = view[w].from /\ local.to = view[w].to /\ local.prog.saved
      BY <1>2, <2>1 DEF Views
    <3>2. view' = [view EXCEPT ![w] = local] /\ pc' = [pc EXCEPT ![w] = "seed"]
      BY <1>1, <1>5, <2>3 DEF ReadProgress, first, TypeOK
    <3> HIDE DEF local
    <3>3. QED
      BY <1>1, <2>2, <3>1, <3>2, LocalFrame DEF Harvesting
  <2>4. CASE progress[r].saved /\ progress[r].scope # view[w].scope
    BY <1>5, <1>b, <2>2, <2>4 DEF ReadProgress
  <2>5. CASE progress[r].saved /\ progress[r].scope = view[w].scope
    <3> DEFINE local == [view[w] EXCEPT !.prog = progress[r]]
    <3>1. local.from = view[w].from /\ local.to = view[w].to /\ local.prog.saved
      BY <1>2, <2>1, <2>5 DEF Views
    <3>2. view' = [view EXCEPT ![w] = local] /\ pc' = [pc EXCEPT ![w] = "harvest"]
      BY <1>1, <1>5, <2>5 DEF ReadProgress, TypeOK
    <3> HIDE DEF local
    <3>3. QED
      BY <1>1, <2>2, <3>1, <3>2, LocalFrame DEF Harvesting
  <2>6. QED
    BY <2>3, <2>4, <2>5
<1>6. CASE SeedProgress(w)
  <2>1. Baseline(job[w]) \in SUBSET Items
    BY <1>1, <1>2, BaselineType
  <2>2. QED
    BY <1>1, <1>2, <1>3, <1>4, <1>6, <2>1, PersistFrame DEF SeedProgress, Harvesting, environment
<1>7. CASE SeedFails(w)
  BY <1>b, <1>7 DEF SeedFails, Harvesting, environment
<1>8. ASSUME NEW returned \in SUBSET view[w].prog.pending, GetPapersByIds(w, returned)
      PROVE  HarvestFrame(w)
  <2> DEFINE batch == FirstOf(BatchSize, view[w].prog.pending)
             left == StillPending(view[w].prog, returned)
             local == [view[w] EXCEPT !.prog.pending = left,
                                      !.accepted = Accepted(w, returned),
                                      !.missing = returned # batch]
  <2> HIDE DEF left, batch
  <2>1. pc[w] = "harvest" /\ UNCHANGED <<database, holder, job, losses, now>>
    BY <1>8 DEF GetPapersByIds, environment
  <2>2. [view[w].prog EXCEPT !.pending = left].saved
    BY <1>3, <1>4, <2>1 DEF Checkpoints, Harvesting
  <2>3. local.from = view[w].from /\ local.to = view[w].to /\ local.prog.saved
    BY <1>2, <2>2 DEF Views
  <2>4. view' = [view EXCEPT ![w] = local] /\ pc' = [pc EXCEPT ![w] = "save"]
    BY <1>1, <1>8 DEF GetPapersByIds, left, batch, TypeOK
  <2> HIDE DEF local
  <2>5. QED
    BY <1>1, <2>1, <2>3, <2>4, LocalFrame DEF Harvesting
<1>9. CASE SaveBatch(w)
  <2> DEFINE local == [view[w] EXCEPT !.accepted = {}, !.missing = FALSE]
  <2>1. /\ local \in Views /\ local.from = view[w].from /\ local.to = view[w].to
        /\ local.prog = view[w].prog
    BY <1>2 DEF Views
  <2> HIDE DEF local
  <2>2. QED
    BY <1>1, <1>3, <1>4, <1>9, <2>1, PersistFrame DEF SaveBatch, local, Harvesting, environment
<1>10. CASE NextPosition(w)
  <2> DEFINE next == Successor(view[w].prog, view[w].to)
             local == [view[w] EXCEPT !.prog = next]
  <2>1. next \in Checkpoints /\ next.saved
    BY <1>3, <1>4, <1>10, SuccessorType, SuccessorSaved DEF NextPosition, Harvesting
  <2> HIDE DEF next
  <2>2. /\ local \in Views /\ local.from = view[w].from /\ local.to = view[w].to
        /\ local.prog = next
    BY <1>2, <2>1 DEF Views
  <2>3. PersistIngestionProgress(w, next, {}, "harvest", local) /\ pc[w] = "harvest"
    BY <1>10 DEF NextPosition, next
  <2> HIDE DEF local
  <2>4. QED
    BY <1>1, <1>10, <2>1, <2>2, <2>3, PersistFrame DEF NextPosition, Harvesting, environment
<1>11. CASE ListUpdatedIdentifiers(w)
  <2> DEFINE next == Listed(view[w].prog)
             local == [view[w] EXCEPT !.prog = next, !.pages = @ + 1]
  <2>0. pc[w] = "harvest" /\ view[w].pages + 1 \in Nat
    BY <1>3, <1>11 DEF ListUpdatedIdentifiers, MayList, NeedsPage
  <2>1. next \in Checkpoints /\ next.saved
    BY <1>3, <1>4, <2>0, ListedType, ListedSaved DEF Harvesting
  <2> HIDE DEF next
  <2>2. /\ local \in Views /\ local.from = view[w].from /\ local.to = view[w].to
        /\ local.prog = next
    BY <1>2, <2>0, <2>1 DEF Views
  <2>3. PersistIngestionProgress(w, next, {}, "harvest", local)
    BY <1>11 DEF ListUpdatedIdentifiers, next
  <2> HIDE DEF local
  <2>4. QED
    BY <1>1, <1>11, <2>0, <2>1, <2>2, <2>3, PersistFrame
       DEF ListUpdatedIdentifiers, Harvesting, environment
<1>12. CASE TokenExpired(w)
  <2> DEFINE next == [view[w].prog EXCEPT !.token = {}]
             local == [view[w] EXCEPT !.prog = next, !.pages = @ + 1, !.restarts = @ + 1]
  <2>0. /\ pc[w] = "harvest" /\ view[w].pages + 1 \in Nat /\ view[w].restarts + 1 \in Nat
        /\ UNCHANGED <<now, losses>>
    BY <1>3, <1>12 DEF TokenExpired, MayList, NeedsPage
  <2>1. next \in Checkpoints /\ next.saved
    BY <1>3, <1>4, <2>0 DEF Checkpoints, Harvesting
  <2> HIDE DEF next
  <2>2. /\ local \in Views /\ local.from = view[w].from /\ local.to = view[w].to
        /\ local.prog = next
    BY <1>2, <2>0, <2>1 DEF Views
  <2>3. CASE view[w].restarts >= MaxTokenRestarts
    BY <1>12, <1>b, <2>0, <2>3 DEF TokenExpired, Harvesting
  <2>4. CASE ~(view[w].restarts >= MaxTokenRestarts)
    <3>1. PersistIngestionProgress(w, next, {}, "harvest", local)
      BY <1>12, <2>4 DEF TokenExpired, next
    <3> HIDE DEF local
    <3>2. QED
      BY <1>1, <2>0, <2>1, <2>2, <3>1, PersistFrame DEF Harvesting
  <2>5. QED
    BY <2>3, <2>4
<1>13. CASE PageBudgetExhausted(w)
  BY <1>b, <1>13 DEF PageBudgetExhausted, NeedsPage, GiveUp, Harvesting, environment
<1>14. CASE ArxivFails(w)
  BY <1>b, <1>14 DEF ArxivFails, GiveUp, Harvesting, environment
<1>15. QED
  BY <1>5, <1>6, <1>7, <1>8, <1>9, <1>10, <1>11, <1>12, <1>13, <1>14 DEF Harvest

----------------------------------------------------------------------------
(* Completed runs and fixed windows.                                         *)

\* What each kind of step of a worker does to the rows of the runs.
LEMMA ExecuteRows ==
    ASSUME TypeInv, CheckpointInv, NEW w \in Workers, Execute(w)
    PROVE  /\ now' = now /\ losses' = losses
           /\ \/ HarvestFrame(w)
              \/ /\ UNCHANGED <<progress, items, current>>
                 /\ \/ \E r \in Runs : OpenRun(w, r) /\ UNCHANGED <<run, watermark>>
                    \/ /\ pc[w] = "opened" /\ Begin(w, job[w])
                       /\ run[job[w]].status = "ABSENT" \/ MayRestart(w, job[w])
                    \/ /\ pc[w] = "harvest" /\ run[job[w]].status = "RUNNING" /\ Exit(w)
                       /\ run' = [run EXCEPT ![job[w]].status = "COMPLETE"]
                       /\ watermark' = Advanced(job[w], view[w].to)
                    \/ /\ pc[w] = "failing" /\ run[job[w]].status = "RUNNING" /\ Exit(w)
                       /\ run' = [run EXCEPT ![job[w]].status = "FAILED"]
                       /\ watermark' = watermark
                    \/ Exit(w) /\ UNCHANGED <<run, watermark>>
                    \/ /\ pc[w] = "harvest" /\ pc' = [pc EXCEPT ![w] = "failing"]
                       /\ UNCHANGED <<run, watermark, holder, job, view>>
<1>1. ASSUME NEW r \in Runs, OpenRun(w, r)
      PROVE  UNCHANGED <<now, losses, run, watermark, progress, items, current>>
  BY <1>1 DEF OpenRun, environment, database
<1>2. CASE StartIngestionRun(w)
  BY <1>2 DEF StartIngestionRun, Begin, environment, database
<1>3. CASE RestartIngestionRun(w)
  BY <1>3 DEF RestartIngestionRun, Begin, environment, database
<1>4. CASE Harvest(w)
  BY <1>4, HarvestStep DEF HarvestFrame
<1>5. CASE FailIngestionRun(w)
  BY <1>5 DEF FailIngestionRun, environment
<1>6. CASE PersistArxivBatchAndComplete(w)
  BY <1>6 DEF PersistArxivBatchAndComplete, environment, database
<1>7. QED
  BY <1>1, <1>2, <1>3, <1>4, <1>5, <1>6 DEF Execute

LEMMA CheckpointInit == Init => CheckpointInv
<1>1. NoCheckpoint.saved = FALSE
  BY DEF NoCheckpoint, FirstCheckpoint
<1>2. QED
  BY <1>1 DEF Init, CheckpointInv, Harvesting

LEMMA CheckpointStep ==
    ASSUME TypeInv, CheckpointInv, [Next]_vars
    PROVE  CheckpointInv'
<1>1. TypeOK
  BY DEF TypeInv
<1>2. ASSUME UNCHANGED <<progress, run, pc, view>> PROVE CheckpointInv'
  BY <1>2 DEF CheckpointInv
<1>3. ASSUME NEW w \in Workers, Exit(w), UNCHANGED progress,
             \A r \in Runs : run[r].status # "ABSENT" => run'[r].status # "ABSENT"
      PROVE  CheckpointInv'
  BY <1>1, <1>3 DEF CheckpointInv, Exit, Harvesting, TypeOK
<1>4. ASSUME NEW w \in Workers, Execute(w) PROVE CheckpointInv'
  <2>1. CASE HarvestFrame(w)
    <3>1. \A v \in Workers : pc'[v] \in Harvesting => view'[v].prog.saved
      BY <1>1, <2>1 DEF HarvestFrame, CheckpointInv, TypeOK
    <3>2. \A r \in Runs : progress'[r].saved => run'[r].status # "ABSENT"
      <4>1. CASE UNCHANGED <<progress, items, current>>
        BY <2>1, <4>1 DEF HarvestFrame, CheckpointInv
      <4>2. ASSUME NEW prog \in Checkpoints, NEW records \in SUBSET Items,
                   WritesCheckpoint(w, prog, records)
            PROVE  \A r \in Runs : progress'[r].saved => run'[r].status # "ABSENT"
        BY <1>1, <2>1, <4>2
           DEF HarvestFrame, CheckpointInv, WritesCheckpoint, AdmitsCheckpoint, TypeOK
      <4>3. QED
        BY <2>1, <4>1, <4>2 DEF HarvestFrame
    <3>3. QED
      BY <3>1, <3>2 DEF CheckpointInv
  <2>2. ASSUME NEW r \in Runs, OpenRun(w, r) PROVE CheckpointInv'
    BY <1>1, <2>2 DEF OpenRun, database, CheckpointInv, Harvesting, TypeOK
  <2>3. CASE Begin(w, job[w])
    BY <1>1, <2>3 DEF Begin, CheckpointInv, Harvesting, TypeOK
  <2>4. CASE UNCHANGED progress /\ Exit(w) /\
             \E s \in {"COMPLETE", "FAILED"} : run' = [run EXCEPT ![job[w]].status = s]
    <3>1. \A r \in Runs : run[r].status # "ABSENT" => run'[r].status # "ABSENT"
      BY <1>1, <2>4 DEF TypeOK, RunRows
    <3>2. QED
      BY <1>3, <2>4, <3>1
  <2>5. CASE UNCHANGED progress /\ Exit(w) /\ UNCHANGED run
    BY <1>3, <2>5
  <2>6. CASE /\ pc' = [pc EXCEPT ![w] = "failing"]
             /\ UNCHANGED <<run, progress, view>>
    BY <1>1, <2>6 DEF CheckpointInv, Harvesting, TypeOK
  <2>7. QED
    BY <1>4, <2>1, <2>2, <2>3, <2>4, <2>5, <2>6, ExecuteRows
<1>5. CASE World
  BY <1>2, <1>5 DEF World, Tick, Revise, Publish, database, process
<1>6. ASSUME NEW w \in Workers, Crash(w) PROVE CheckpointInv'
  BY <1>3, <1>6 DEF Crash, database
<1>7. ASSUME NEW w \in Workers, LoseLock(w) PROVE CheckpointInv'
  BY <1>2, <1>7 DEF LoseLock, database
<1>8. CASE UNCHANGED vars
  BY <1>2, <1>8 DEF vars, database, process
<1>9. QED
  BY <1>4, <1>5, <1>6, <1>7, <1>8 DEF Next

\* The tables of a run change only under a worker.
LEMMA OthersRows ==
    ASSUME [Next]_vars, ~\E w \in Workers : Execute(w)
    PROVE  UNCHANGED <<run, progress, items, watermark, current>>
  BY DEF Next, World, Tick, Revise, Publish, Crash, LoseLock, vars, database

LEMMA CompleteIsFinalStep ==
    ASSUME TypeInv, CheckpointInv, [Next]_vars,
           NEW r \in Runs, run[r].status = "COMPLETE"
    PROVE  run'[r] = run[r] /\ progress'[r] = progress[r] /\ items'[r] = items[r]
<1>1. TypeOK
  BY DEF TypeInv
<1>2. CASE ~\E w \in Workers : Execute(w)
  BY <1>2, OthersRows
<1>3. ASSUME NEW w \in Workers, Execute(w)
      PROVE  run'[r] = run[r] /\ progress'[r] = progress[r] /\ items'[r] = items[r]
  <2>1. CASE HarvestFrame(w)
    BY <1>1, <2>1 DEF HarvestFrame, WritesCheckpoint, AdmitsCheckpoint, TypeOK
  <2>2. CASE ~HarvestFrame(w)
    <3>1. UNCHANGED <<progress, items>>
      BY <1>3, <2>2, ExecuteRows
    <3>2. run'[r] = run[r]
      BY <1>1, <1>3, <2>2, ExecuteRows DEF Begin, MayRestart, TypeOK
    <3>3. QED
      BY <3>1, <3>2
  <2>3. QED
    BY <2>1, <2>2
<1>4. QED
  BY <1>2, <1>3

LEMMA FixedWindowStep ==
    ASSUME TypeInv, CheckpointInv, [Next]_vars,
           NEW r \in Runs, progress[r].saved
    PROVE  /\ run'[r].from = run[r].from /\ run'[r].to = run[r].to
           /\ progress'[r].saved /\ progress'[r].scope = progress[r].scope
           /\ items[r] \subseteq items'[r]
<1> DEFINE Goal == /\ run'[r].from = run[r].from /\ run'[r].to = run[r].to
                   /\ progress'[r].saved /\ progress'[r].scope = progress[r].scope
                   /\ items[r] \subseteq items'[r]
<1>1. TypeOK /\ run[r].status # "ABSENT"
  BY DEF TypeInv, CheckpointInv
<1>2. CASE ~\E w \in Workers : Execute(w)
  BY <1>2, OthersRows
<1>3. ASSUME NEW w \in Workers, Execute(w) PROVE Goal
  <2>1. CASE HarvestFrame(w)
    <3>1. CASE UNCHANGED <<progress, items, current>>
      BY <2>1, <3>1 DEF HarvestFrame
    <3>2. ASSUME NEW prog \in Checkpoints, NEW records \in SUBSET Items,
                 WritesCheckpoint(w, prog, records)
          PROVE  Goal
      BY <1>1, <2>1, <3>2 DEF HarvestFrame, WritesCheckpoint, AdmitsCheckpoint, TypeOK
    <3>3. QED
      BY <2>1, <3>1, <3>2 DEF HarvestFrame
  <2>2. CASE ~HarvestFrame(w)
    <3>1. UNCHANGED <<progress, items>>
      BY <1>3, <2>2, ExecuteRows
    <3>2. CASE Begin(w, job[w]) /\ (run[job[w]].status = "ABSENT" \/ MayRestart(w, job[w]))
      BY <1>1, <3>1, <3>2 DEF Begin, MayRestart, TypeOK
    <3>3. CASE \E s \in {"COMPLETE", "FAILED"} : run' = [run EXCEPT ![job[w]].status = s]
      BY <1>1, <3>1, <3>3 DEF TypeOK, RunRows
    <3>4. CASE UNCHANGED run
      BY <3>1, <3>4
    <3>5. QED
      BY <1>3, <2>2, <3>2, <3>3, <3>4, ExecuteRows
  <2>3. QED
    BY <2>1, <2>2
<1>4. QED
  BY <1>2, <1>3

LEMMA RowsInvariant == Spec => [](TypeInv /\ CheckpointInv)
  BY TypeInit, TypeStep, CheckpointInit, CheckpointStep, PTL DEF Spec

\* Nothing changes a completed run, however many locks are lost.
THEOREM CompletedRunsAreFinal == Spec => CompleteIsFinal
<1>1. TypeInv /\ CheckpointInv /\ [Next]_vars =>
        [\A r \in Runs : run[r].status = "COMPLETE" =>
            run'[r] = run[r] /\ progress'[r] = progress[r] /\ items'[r] = items[r]]_vars
  BY CompleteIsFinalStep
<1>2. QED
  BY <1>1, RowsInvariant, PTL DEF Spec, CompleteIsFinal

\* A run keeps the window and the scope of its first checkpoint.
THEOREM WindowsAreFixed == Spec => FixedWindow
<1>1. TypeInv /\ CheckpointInv /\ [Next]_vars =>
        [\A r \in Runs : progress[r].saved =>
            /\ run'[r].from = run[r].from /\ run'[r].to = run[r].to
            /\ progress'[r].saved /\ progress'[r].scope = progress[r].scope
            /\ items[r] \subseteq items'[r]]_vars
  BY FixedWindowStep
<1>2. QED
  BY <1>1, RowsInvariant, PTL DEF Spec, FixedWindow

----------------------------------------------------------------------------
(* The current version of a paper.                                           *)

LEMMA CurrentVersionInit == Init => CurrentVersionIsNewest
  BY BoundsAssumption DEF Init, CurrentVersionIsNewest

LEMMA CurrentVersionStep ==
    ASSUME TypeInv, CheckpointInv, CurrentVersionIsNewest, [Next]_vars
    PROVE  CurrentVersionIsNewest'
<1>1. TypeOK
  BY DEF TypeInv
<1>2. ASSUME UNCHANGED <<items, current>> PROVE CurrentVersionIsNewest'
  BY <1>2 DEF CurrentVersionIsNewest
<1>3. CASE ~\E w \in Workers : Execute(w)
  BY <1>2, <1>3, OthersRows
<1>4. ASSUME NEW w \in Workers, NEW prog \in Checkpoints, NEW records \in SUBSET Items,
             WritesCheckpoint(w, prog, records)
      PROVE  CurrentVersionIsNewest'
  <2>1. /\ current \in [Papers -> 0 .. MaxVersion] /\ MaxVersion \in Nat
        /\ items \in [Runs -> SUBSET Items] /\ job[w] \in Runs
    BY <1>1, BoundsAssumption DEF TypeOK
  <2>2. /\ items' = [items EXCEPT ![job[w]] = @ \cup records]
        /\ current' = Newest(records)
    BY <1>4 DEF WritesCheckpoint
  <2>3. ASSUME NEW p \in Papers
        PROVE  /\ current[p] \in 0 .. MaxVersion /\ current'[p] \in 0 .. MaxVersion
               /\ current[p] <= current'[p]
               /\ \A v \in 1 .. MaxVersion : <<p, v>> \in records => v <= current'[p]
               /\ current'[p] = current[p] \/ <<p, current'[p]>> \in records
    BY <2>1, <2>2, NewestVersion
  <2>4. ASSUME NEW p \in Papers, NEW r \in Runs, NEW v \in 1 .. MaxVersion,
               <<p, v>> \in items'[r]
        PROVE  v <= current'[p]
    <3>1. CASE <<p, v>> \in records
      BY <2>3, <3>1
    <3>2. CASE <<p, v>> \in items[r]
      <4>1. v <= current[p]
        BY <3>2 DEF CurrentVersionIsNewest
      <4>2. current[p] <= current'[p] /\ current[p] \in 0 .. MaxVersion /\ current'[p] \in 0 .. MaxVersion
        BY <2>3
      <4>3. QED
        BY <2>1, <4>1, <4>2
    <3>3. QED
      BY <2>1, <2>2, <2>4, <3>1, <3>2
  <2>5. ASSUME NEW p \in Papers, current'[p] # 0
        PROVE  \E r \in Runs : <<p, current'[p]>> \in items'[r]
    <3>1. CASE <<p, current'[p]>> \in records
      BY <2>1, <2>2, <3>1
    <3>2. CASE current'[p] = current[p]
      <4>1. PICK r \in Runs : <<p, current[p]>> \in items[r]
        BY <2>5, <3>2 DEF CurrentVersionIsNewest
      <4>2. items[r] \subseteq items'[r]
        BY <2>1, <2>2
      <4>3. QED
        BY <3>2, <4>1, <4>2
    <3>3. QED
      BY <2>3, <3>1, <3>2
  <2>6. QED
    BY <2>4, <2>5 DEF CurrentVersionIsNewest
<1>5. ASSUME NEW w \in Workers, Execute(w) PROVE CurrentVersionIsNewest'
  <2>1. CASE UNCHANGED <<items, current>>
    BY <1>2, <2>1
  <2>2. CASE ~UNCHANGED <<items, current>>
    BY <1>4, <1>5, <2>2, ExecuteRows DEF HarvestFrame
  <2>3. QED
    BY <2>1, <2>2
<1>6. QED
  BY <1>3, <1>5

\* The current version of a paper is the newest that any run saved, whatever
\* the order in which metadata replies are committed.
THEOREM CurrentVersionCorrect == Spec => []CurrentVersionIsNewest
  BY TypeInit, TypeStep, CheckpointInit, CheckpointStep,
     CurrentVersionInit, CurrentVersionStep, PTL DEF Spec

----------------------------------------------------------------------------
(* The shared cursor.  While no process has lost its lock, the worker of a   *)
(* run is alone in it, and the window it works on is the one of the row.     *)

LockInv == losses = 0 => \A w \in Workers : pc[w] # "idle" => holder[LogicalDate[job[w]]] = w

WindowInv ==
    losses = 0 => \A w \in Workers : pc[w] \in Harvesting \cup {"begun"} =>
                     view[w].from = run[job[w]].from /\ view[w].to = run[job[w]].to

CursorInv == losses = 0 => WatermarkIsNewestHarvest

LEMMA LockInit == Init => LockInv /\ WindowInv /\ CursorInv
<1> SUFFICES ASSUME Init PROVE LockInv /\ WindowInv /\ CursorInv
  OBVIOUS
<1>1. LockInv /\ WindowInv
  BY DEF Init, LockInv, WindowInv, Harvesting
<1>2. Harvested = {}
  BY DEF Init, Harvested
<1>3. CursorInv
  BY <1>2 DEF Init, CursorInv, WatermarkIsNewestHarvest
<1>4. QED
  BY <1>1, <1>3

\* A process that ends leaves the locks of the others alone.
LEMMA LockExit ==
    ASSUME TypeOK, LockInv, NEW w \in Workers, Exit(w), losses' = losses
    PROVE  LockInv'
<1>1. SUFFICES ASSUME losses = 0, NEW v \in Workers, pc'[v] # "idle"
               PROVE  holder'[LogicalDate[job'[v]]] = v
  BY DEF LockInv
<1>2. v # w
  BY <1>1 DEF Exit, TypeOK
<1>3. pc[v] # "idle" /\ job'[v] = job[v] /\ job[v] \in Runs
  BY <1>1, <1>2 DEF Exit, TypeOK
<1>4. holder[LogicalDate[job[v]]] = v /\ LogicalDate[job[v]] \in Dates
  BY <1>1, <1>3 DEF LockInv, Dates
<1>5. QED
  BY <1>2, <1>3, <1>4 DEF Exit, Released

LEMMA LockStep ==
    ASSUME TypeInv, CheckpointInv, LockInv, [Next]_vars
    PROVE  LockInv'
<1>1. TypeOK
  BY DEF TypeInv
\* Steps that keep the locks and start no process.
<1>2. ASSUME UNCHANGED <<holder, job, losses>>, \A v \in Workers : pc'[v] # "idle" => pc[v] # "idle"
      PROVE  LockInv'
  BY <1>2 DEF LockInv
<1>3. ASSUME NEW w \in Workers, Execute(w) PROVE LockInv'
  <2>1. losses' = losses
    BY <1>3, ExecuteRows
  <2>2. CASE HarvestFrame(w)
    <3>1. \A v \in Workers : pc'[v] # "idle" => pc[v] # "idle"
      BY <1>1, <2>2 DEF HarvestFrame, TypeOK, Harvesting
    <3>2. QED
      BY <1>2, <2>1, <2>2, <3>1 DEF HarvestFrame
  <2>3. ASSUME NEW r \in Runs, OpenRun(w, r) PROVE LockInv'
    <3>1. /\ holder[LogicalDate[r]] = Nobody
          /\ holder' = [holder EXCEPT ![LogicalDate[r]] = w]
          /\ pc' = [pc EXCEPT ![w] = "opened"] /\ job' = [job EXCEPT ![w] = r]
      BY <2>3 DEF OpenRun
    <3>2. SUFFICES ASSUME losses = 0, NEW v \in Workers, pc'[v] # "idle"
                   PROVE  holder'[LogicalDate[job'[v]]] = v
      BY <2>1 DEF LockInv
    <3>3. LogicalDate[r] \in Dates
      BY DEF Dates
    <3>4. CASE v = w
      BY <1>1, <3>1, <3>3, <3>4 DEF TypeOK
    <3>5. CASE v # w
      <4>1. pc[v] # "idle" /\ job'[v] = job[v]
        BY <1>1, <3>1, <3>2, <3>5 DEF TypeOK
      <4>2. holder[LogicalDate[job[v]]] = v
        BY <3>2, <4>1 DEF LockInv
      <4>3. LogicalDate[job[v]] # LogicalDate[r]
        BY <3>1, <4>2, WorkersAssumption
      <4>4. QED
        BY <1>1, <3>1, <4>1, <4>2, <4>3 DEF TypeOK
    <3>6. QED
      BY <3>4, <3>5
  <2>4. CASE pc[w] = "opened" /\ Begin(w, job[w])
    <3>1. \A v \in Workers : pc'[v] # "idle" => pc[v] # "idle"
      BY <1>1, <2>4 DEF Begin, TypeOK
    <3>2. QED
      BY <1>2, <2>1, <2>4, <3>1 DEF Begin
  <2>5. CASE Exit(w)
    BY <1>1, <2>1, <2>5, LockExit
  <2>6. CASE pc[w] = "harvest" /\ pc' = [pc EXCEPT ![w] = "failing"] /\ UNCHANGED <<holder, job>>
    <3>1. \A v \in Workers : pc'[v] # "idle" => pc[v] # "idle"
      BY <1>1, <2>6 DEF TypeOK
    <3>2. QED
      BY <1>2, <2>1, <2>6, <3>1
  <2>7. QED
    BY <1>3, <2>2, <2>3, <2>4, <2>5, <2>6, ExecuteRows
<1>4. CASE World
  BY <1>2, <1>4 DEF World, Tick, Revise, Publish, process
<1>5. ASSUME NEW w \in Workers, Crash(w) PROVE LockInv'
  BY <1>1, <1>5, LockExit DEF Crash, environment
<1>6. ASSUME NEW w \in Workers, LoseLock(w) PROVE LockInv'
  <2>1. losses' # 0
    BY <1>1, <1>6 DEF LoseLock, TypeOK
  <2>2. QED
    BY <2>1 DEF LockInv
<1>7. CASE UNCHANGED vars
  BY <1>2, <1>7 DEF vars, environment, process
<1>8. QED
  BY <1>3, <1>4, <1>5, <1>6, <1>7 DEF Next

LEMMA WindowStep ==
    ASSUME TypeInv, CheckpointInv, LockInv, WindowInv, [Next]_vars
    PROVE  WindowInv'
<1> DEFINE Busy == Harvesting \cup {"begun"}
<1>1. TypeOK
  BY DEF TypeInv
<1>2. SUFFICES ASSUME losses' = 0, NEW v \in Workers, pc'[v] \in Busy
               PROVE  view'[v].from = run'[job'[v]].from /\ view'[v].to = run'[job'[v]].to
  BY DEF WindowInv
<1> DEFINE Goal == view'[v].from = run'[job'[v]].from /\ view'[v].to = run'[job'[v]].to
\* Workers that stand still, in steps that keep the windows of the rows.
<1>3. ASSUME losses' = losses, pc'[v] = pc[v], job'[v] = job[v],
             view'[v].from = view[v].from, view'[v].to = view[v].to,
             run'[job[v]].from = run[job[v]].from, run'[job[v]].to = run[job[v]].to
      PROVE  Goal
  BY <1>2, <1>3 DEF WindowInv
<1>4. ASSUME NEW w \in Workers, Exit(w), losses' = losses,
             \A r \in Runs : run'[r].from = run[r].from /\ run'[r].to = run[r].to
      PROVE  Goal
  <2>1. v # w
    BY <1>1, <1>2, <1>4 DEF Exit, TypeOK, Harvesting
  <2>2. pc'[v] = pc[v] /\ view'[v] = view[v] /\ job'[v] = job[v] /\ job[v] \in Runs
    BY <1>1, <1>4, <2>1 DEF Exit, TypeOK
  <2>3. QED
    BY <1>3, <1>4, <2>2
<1>5. ASSUME NEW w \in Workers, Execute(w) PROVE Goal
  <2>1. losses' = losses /\ losses = 0
    BY <1>2, <1>5, ExecuteRows
  <2>2. CASE HarvestFrame(w)
    <3>1. CASE v = w
      BY <1>2, <2>1, <2>2, <3>1 DEF HarvestFrame, WindowInv
    <3>2. CASE v # w
      BY <1>1, <1>3, <2>1, <2>2, <3>2 DEF HarvestFrame, TypeOK
    <3>3. QED
      BY <3>1, <3>2
  <2>3. ASSUME NEW r \in Runs, OpenRun(w, r) PROVE Goal
    <3>1. v # w
      BY <1>1, <1>2, <2>3 DEF OpenRun, TypeOK, Harvesting
    <3>2. QED
      BY <1>1, <1>3, <2>1, <2>3, <3>1 DEF OpenRun, TypeOK, database
  <2>4. CASE pc[w] = "opened" /\ Begin(w, job[w])
    <3>1. CASE v = w
      BY <1>1, <2>4, <3>1 DEF Begin, TypeOK, Views
    <3>2. CASE v # w
      <4>1. pc'[v] = pc[v] /\ view'[v] = view[v] /\ job'[v] = job[v]
        BY <1>1, <2>4, <3>2 DEF Begin, TypeOK
      <4>2. holder[LogicalDate[job[w]]] = w /\ holder[LogicalDate[job[v]]] = v
        BY <1>2, <2>1, <2>4, <4>1 DEF LockInv, Harvesting
      <4>3. job[v] # job[w]
        BY <3>2, <4>2
      <4>4. run'[job[v]] = run[job[v]]
        BY <1>1, <2>4, <4>3 DEF Begin, TypeOK
      <4>5. QED
        BY <1>3, <2>1, <4>1, <4>4
    <3>3. QED
      BY <3>1, <3>2
  <2>5. CASE Exit(w) /\ (UNCHANGED run \/ \E s \in {"COMPLETE", "FAILED"} :
                                              run' = [run EXCEPT ![job[w]].status = s])
    <3>1. CASE UNCHANGED run
      BY <1>4, <2>1, <2>5, <3>1
    <3>2. ASSUME NEW s \in {"COMPLETE", "FAILED"}, run' = [run EXCEPT ![job[w]].status = s]
          PROVE  Goal
      <4>1. \A r \in Runs : run'[r].from = run[r].from /\ run'[r].to = run[r].to
        BY <1>1, <3>2 DEF TypeOK, RunRows
      <4>2. QED
        BY <1>4, <2>1, <2>5, <4>1
    <3>3. QED
      BY <2>5, <3>1, <3>2
  <2>6. CASE /\ pc[w] = "harvest" /\ pc' = [pc EXCEPT ![w] = "failing"]
             /\ UNCHANGED <<run, holder, job, view>>
    <3>1. v # w
      BY <1>1, <1>2, <2>6 DEF TypeOK, Harvesting
    <3>2. QED
      BY <1>1, <1>3, <2>1, <2>6, <3>1 DEF TypeOK
  <2>7. QED
    BY <1>5, <2>2, <2>3, <2>4, <2>5, <2>6, ExecuteRows
<1>6. CASE World
  BY <1>3, <1>6 DEF World, Tick, Revise, Publish, database, process
<1>7. ASSUME NEW w \in Workers, Crash(w) PROVE Goal
  BY <1>4, <1>7 DEF Crash, environment, database
<1>8. ASSUME NEW w \in Workers, LoseLock(w) PROVE Goal
  BY <1>1, <1>2, <1>8 DEF LoseLock, TypeOK
<1>9. CASE UNCHANGED vars
  BY <1>3, <1>9 DEF vars, environment, database, process
<1>10. QED
  BY <1>5, <1>6, <1>7, <1>8, <1>9 DEF Next

LEMMA CursorStep ==
    ASSUME TypeInv, CheckpointInv, WindowInv, CursorInv, [Next]_vars
    PROVE  CursorInv'
<1>1. TypeOK
  BY DEF TypeInv
<1>2. \A r \in Runs : run[r].to \in Nat
  BY <1>1 DEF TypeOK, RunRows
\* Steps that complete no run and leave the cursor alone.
<1>3. ASSUME losses' = losses, watermark' = watermark,
             \A r \in Runs : /\ run'[r].status = "COMPLETE" <=> run[r].status = "COMPLETE"
                             /\ run[r].status = "COMPLETE" => run'[r].to = run[r].to
      PROVE  CursorInv'
  <2>1. Harvested' = Harvested
    BY <1>3 DEF Harvested, AdvancesCursor
  <2>2. \A r \in Harvested : run'[r].to = run[r].to
    BY <1>3 DEF Harvested
  <2>3. QED
    BY <1>3, <2>1, <2>2 DEF CursorInv, WatermarkIsNewestHarvest
<1>4. ASSUME NEW w \in Workers, pc[w] = "harvest", run[job[w]].status = "RUNNING",
             run' = [run EXCEPT ![job[w]].status = "COMPLETE"],
             watermark' = Advanced(job[w], view[w].to), losses' = losses
      PROVE  CursorInv'
  <2> SUFFICES ASSUME losses = 0 PROVE WatermarkIsNewestHarvest'
    BY <1>4 DEF CursorInv
  <2> DEFINE r == job[w]
             to == run[r].to
  <2>1. r \in Runs /\ to \in Nat /\ view[w].to = to
    BY <1>1, <1>2, <1>4 DEF WindowInv, Harvesting, TypeOK
  <2>2. WatermarkIsNewestHarvest
    BY DEF CursorInv
  <2>3. \A s \in Runs : run'[s].to = run[s].to
    BY <1>1, <1>4 DEF TypeOK, RunRows
  <2>4. Harvested' = IF AdvancesCursor(r) THEN Harvested \cup {r} ELSE Harvested
    BY <1>1, <1>4, <2>1 DEF Harvested, AdvancesCursor, TypeOK, RunRows
  <2>5. watermark \in Nat \/ watermark = -1
    BY <1>1 DEF TypeOK, NoWatermark
  <2>6. watermark' = IF AdvancesCursor(r) /\ to > watermark THEN to ELSE watermark
    BY <1>4, <2>1 DEF Advanced
  <2>7. \A s \in Harvested : s \in Runs /\ run[s].to \in Nat /\ run[s].to <= watermark
    BY <1>2, <2>2 DEF Harvested, WatermarkIsNewestHarvest
  <2>8. \A s \in Harvested' : run'[s].to <= watermark'
    <3>1. watermark <= watermark' /\ (AdvancesCursor(r) => to <= watermark')
      BY <2>1, <2>5, <2>6
    <3>2. watermark' \in Int
      BY <2>1, <2>5, <2>6
    <3>3. ASSUME NEW s \in Harvested' PROVE run'[s].to <= watermark'
      <4>1. CASE s \in Harvested
        <5>1. run'[s].to = run[s].to /\ run[s].to \in Nat /\ run[s].to <= watermark
          BY <2>3, <2>7, <4>1
        <5>2. QED
          BY <2>5, <3>1, <3>2, <5>1
      <4>2. CASE s = r /\ AdvancesCursor(r)
        BY <2>1, <2>3, <3>1, <4>2
      <4>3. QED
        BY <2>4, <3>3, <4>1, <4>2
    <3>4. QED
      BY <3>3
  <2>9. ASSUME watermark' # NoWatermark PROVE \E s \in Harvested' : run'[s].to = watermark'
    <3>1. CASE AdvancesCursor(r) /\ to > watermark
      BY <2>1, <2>3, <2>4, <2>6, <3>1
    <3>2. CASE ~(AdvancesCursor(r) /\ to > watermark)
      <4>1. PICK s \in Harvested : run[s].to = watermark
        BY <2>2, <2>6, <2>9, <3>2 DEF WatermarkIsNewestHarvest
      <4>2. s \in Harvested' /\ run'[s].to = watermark'
        BY <2>3, <2>4, <2>6, <2>7, <3>2, <4>1
      <4>3. QED
        BY <4>2
    <3>3. QED
      BY <3>1, <3>2
  <2>10. QED
    BY <2>8, <2>9 DEF WatermarkIsNewestHarvest
<1>5. ASSUME NEW w \in Workers, Execute(w) PROVE CursorInv'
  <2>1. losses' = losses
    BY <1>5, ExecuteRows
  <2>2. CASE UNCHANGED <<run, watermark>>
    BY <1>3, <2>1, <2>2
  <2>3. CASE /\ Begin(w, job[w])
             /\ run[job[w]].status = "ABSENT" \/ MayRestart(w, job[w])
    <3>1. watermark' = watermark
      BY <2>3 DEF Begin
    <3>2. \A r \in Runs : /\ run'[r].status = "COMPLETE" <=> run[r].status = "COMPLETE"
                          /\ run[r].status = "COMPLETE" => run'[r].to = run[r].to
      BY <1>1, <2>3 DEF Begin, MayRestart, TypeOK
    <3>3. QED
      BY <1>3, <2>1, <3>1, <3>2
  <2>4. CASE /\ run[job[w]].status = "RUNNING"
             /\ run' = [run EXCEPT ![job[w]].status = "FAILED"] /\ watermark' = watermark
    <3>1. \A r \in Runs : /\ run'[r].status = "COMPLETE" <=> run[r].status = "COMPLETE"
                          /\ run[r].status = "COMPLETE" => run'[r].to = run[r].to
      BY <1>1, <2>4 DEF TypeOK, RunRows
    <3>2. QED
      BY <1>3, <2>1, <2>4, <3>1
  <2>5. CASE /\ pc[w] = "harvest" /\ run[job[w]].status = "RUNNING"
             /\ run' = [run EXCEPT ![job[w]].status = "COMPLETE"]
             /\ watermark' = Advanced(job[w], view[w].to)
    BY <1>4, <2>1, <2>5
  <2>6. QED
    BY <1>5, <2>2, <2>3, <2>4, <2>5, ExecuteRows DEF HarvestFrame
<1>6. CASE ~\E w \in Workers : Execute(w)
  <2>1. UNCHANGED <<run, watermark>>
    BY <1>6, OthersRows
  <2>2. CASE losses' = losses
    BY <1>3, <2>1, <2>2
  <2>3. CASE losses' # losses
    <3>1. PICK w \in Workers : LoseLock(w)
      <4>1. ~World /\ ~UNCHANGED vars
        BY <2>3 DEF World, Tick, Revise, Publish, vars, environment
      <4>2. \A w \in Workers : ~Crash(w)
        BY <2>3 DEF Crash, environment
      <4>3. QED
        BY <1>6, <4>1, <4>2 DEF Next
    <3>2. losses' # 0
      BY <1>1, <3>1 DEF LoseLock, TypeOK
    <3>3. QED
      BY <3>2 DEF CursorInv
  <2>4. QED
    BY <2>2, <2>3
<1>7. QED
  BY <1>5, <1>6

\* As long as no process loses its lock, the shared cursor is the newest end of
\* a window that was harvested completely.
THEOREM WatermarkCorrect == Spec => [](losses = 0 => WatermarkIsNewestHarvest)
<1>1. Spec => []CursorInv
  BY TypeInit, TypeStep, CheckpointInit, CheckpointStep, LockInit, LockStep,
     WindowStep, CursorStep, PTL DEF Spec
<1>2. CursorInv => (losses = 0 => WatermarkIsNewestHarvest)
  BY DEF CursorInv
<1>3. QED
  BY <1>1, <1>2, PTL

----------------------------------------------------------------------------
(* Coverage *)

\* The paper last changed on a day of the run's window that was over when the
\* window was closed.
Due(p, r) ==
    /\ ListedIn[p] # {}
    /\ DateOf(run[r].from) <= DateOf(stamp[p])
    /\ DateOf(stamp[p]) < DateOf(run[r].to)

\* The walk has gone past the place where the paper is listed: it has been served
\* and is not pending.
Passed(prog, p) ==
    \/ prog.complete
    \/ DateOf(stamp[p]) < prog.day
    \/ /\ DateOf(stamp[p]) = prog.day
       /\ \E c \in ListedIn[p] :
            \/ c < prog.category
            \/ /\ c = prog.category
               /\ p \in prog.token \/ prog.exhausted
               /\ p \notin prog.pending

\* What was passed is saved; and a listing that is exhausted has no token.
Covers(prog, r, saved) ==
    /\ \A p \in Matches[prog.scope] : Due(p, r) /\ Passed(prog, p) => <<p, ver[p]>> \in saved
    /\ prog.exhausted => prog.token = {}

\* What is saved of the worker's run once its pending reply is.
Kept(w) == items[job[w]] \cup (IF pc[w] = "save" THEN view[w].accepted ELSE {})

\* A window is closed at a time that has come.
ClockInv ==
    /\ \A r \in Runs : run[r].status # "ABSENT" => run[r].to <= now
    /\ \A w \in Workers : pc[w] # "idle" => view[w].to <= now

\* Past its seed a worker has a saved checkpoint in the table, and only a run with one
\* that says so is complete; without one a run has no items.
SavedInv ==
    /\ \A w \in Workers : pc[w] \in {"harvest", "save"} => progress[job[w]].saved
    /\ \A r \in Runs : run[r].status = "COMPLETE" => progress[r].saved /\ progress[r].complete
    /\ \A r \in Runs : ~progress[r].saved => items[r] = {}

CoverInv ==
    losses = 0 =>
        /\ \A r \in Runs : progress[r].saved => Covers(progress[r], r, items[r])
        /\ \A w \in Workers : pc[w] \in Harvesting =>
              /\ view[w].prog.scope = view[w].scope
              /\ Covers(view[w].prog, job[w], Kept(w))

----------------------------------------------------------------------------
(* Versions *)

\* Nothing is saved, accepted or published before it appeared.
VersionsInv ==
    /\ \A r \in Runs : \A i \in items[r] : i[2] <= ver[i[1]]
    /\ \A w \in Workers : \A i \in view[w].accepted : i[2] <= ver[i[1]]
    /\ \A d \in Dates : \A i \in published[d] : i[2] <= ver[i[1]]

\* The latest versions of a set, but for those published for a date, are not later
\* than a time.
NotLater(saved, d, to) ==
    \A p \in Papers : <<p, ver[p]>> \in saved \ published[d] => stamp[p] <= to

CutoffInv ==
    losses = 0 =>
        /\ \A r \in Runs : Mode[r] = "REPROCESS" => NotLater(items[r], LogicalDate[r], run[r].to)
        /\ \A w \in Workers : Mode[job[w]] = "REPROCESS" /\ pc[w] = "save" =>
              NotLater(view[w].accepted, LogicalDate[job[w]], run[job[w]].to)

----------------------------------------------------------------------------
(* Windows *)

\* A window starts from the clock, or from the end of one that is harvested.
Chained(from, to) ==
    \/ from = to - Lookback - Overlap
    \/ \E q \in Harvested : from = run[q].to - Overlap /\ run[q].to <= to

CloseStarts == \A r, s \in FromLookback : run[s].to <= run[r].to + Lookback

\* A day between two harvested windows is in a harvested window.
NoHole ==
    \A d \in Nat :
        /\ \E r \in Harvested : DateOf(run[r].from) <= d
        /\ \E r \in Harvested : d < DateOf(run[r].to)
        => \E r \in Harvested : DateOf(run[r].from) <= d /\ d < DateOf(run[r].to)

ChainInv ==
    losses = 0 =>
        /\ \A r \in Runs : AdvancesCursor(r) /\ run[r].status # "ABSENT" =>
              Chained(run[r].from, run[r].to)
        /\ \A w \in Workers : AdvancesCursor(job[w]) /\ pc[w] = "opened" =>
              Chained(view[w].from, view[w].to)
        /\ Harvested # {} => FromLookback # {}
        /\ CloseStarts => NoHole

----------------------------------------------------------------------------
(* Dates *)

\* A later time has no earlier date.
LEMMA DatesGrow ==
    ASSUME NEW s \in Nat, NEW t \in Nat, s <= t
    PROVE  DateOf(s) <= DateOf(t)
<1>1. TicksPerDay \in Nat \ {0}
  BY BoundsAssumption
<1>2. QED
  BY <1>1 DEF DateOf

----------------------------------------------------------------------------
(* The walk *)

\* The first position has passed nothing of the window.
LEMMA FirstCovers ==
    ASSUME TypeOK, NEW r \in Runs, NEW s \in Scopes, NEW saved
    PROVE  Covers(FirstCheckpoint(s, DateOf(run[r].from)), r, saved)
<1> DEFINE prog == FirstCheckpoint(s, DateOf(run[r].from))
<1>1. SUFFICES ASSUME NEW p \in Matches[s], Due(p, r) PROVE ~Passed(prog, p)
  BY DEF Covers, FirstCheckpoint
<1>2. p \in Papers
  BY ScopesAssumption
<1>3. DateOf(stamp[p]) \in Nat /\ DateOf(run[r].from) \in Nat
  BY <1>2, DateOfType DEF TypeOK, RunRows
<1>4. ListedIn[p] \subseteq 1 .. NumCategories
  BY <1>2, CategoriesAssumption
<1>5. QED
  BY <1>1, <1>3, <1>4, CategoriesAssumption DEF Passed, Due, FirstCheckpoint

\* A position whose listing is exhausted and saved has a successor that covers as much.
LEMMA SuccessorCovers ==
    ASSUME TypeOK, NEW r \in Runs, NEW prog \in Checkpoints, NEW saved,
           prog.pending = {}, prog.exhausted, Covers(prog, r, saved)
    PROVE  /\ Covers(Successor(prog, run[r].to), r, saved)
           /\ Successor(prog, run[r].to).scope = prog.scope
<1> DEFINE next == Successor(prog, run[r].to)
<1>0. prog.token = {}
  BY DEF Covers
<1>1. next.scope = prog.scope /\ next.token = {}
  BY <1>0 DEF Successor, Checkpoints
<1>2. ASSUME NEW p \in Matches[prog.scope], Due(p, r), Passed(next, p) PROVE Passed(prog, p)
  <2>1. p \in Papers
    BY ScopesAssumption DEF Checkpoints
  <2>2. DateOf(stamp[p]) \in Nat /\ DateOf(run[r].to) \in Nat /\ prog.day \in Nat
    BY <2>1, DateOfType DEF TypeOK, RunRows, Checkpoints
  <2>3. /\ ListedIn[p] \subseteq 1 .. NumCategories /\ ListedIn[p] # {}
        /\ NumCategories \in Nat /\ prog.category \in 1 .. NumCategories
    BY <1>2, <2>1, CategoriesAssumption DEF Due, Checkpoints
  \* All of a category that has been passed is behind.
  <2>4. ASSUME DateOf(stamp[p]) = prog.day, NEW c \in ListedIn[p], c <= prog.category
        PROVE  Passed(prog, p)
    BY <2>3, <2>4 DEF Passed
  <2>5. CASE prog.category < NumCategories
    <3>1. next = [prog EXCEPT !.category = @ + 1, !.exhausted = FALSE]
      BY <2>5 DEF Successor
    <3>2. /\ next.complete = prog.complete /\ next.day = prog.day
          /\ next.category = prog.category + 1 /\ next.pending = {} /\ next.token = prog.token
          /\ next.exhausted = FALSE
      BY <3>1 DEF Checkpoints
    <3>3. CASE DateOf(stamp[p]) = prog.day
      <4>1. CASE prog.complete
        BY <4>1 DEF Passed
      <4>2. CASE \E c \in ListedIn[p] : c <= prog.category
        BY <2>4, <3>3, <4>2
      <4>3. CASE \A c \in ListedIn[p] : ~(c <= prog.category)
        BY <1>0, <1>2, <2>2, <2>3, <3>2, <3>3, <4>3 DEF Passed
      <4>4. QED
        BY <4>1, <4>2, <4>3
    <3>4. CASE DateOf(stamp[p]) # prog.day
      BY <1>2, <3>2, <3>4 DEF Passed
    <3>5. QED
      BY <3>3, <3>4
  <2>6. CASE ~(prog.category < NumCategories) /\ prog.day < DateOf(run[r].to)
    <3>1. next = [prog EXCEPT !.day = @ + 1, !.category = 1, !.exhausted = FALSE]
      BY <2>6 DEF Successor
    <3>2. /\ next.complete = prog.complete /\ next.day = prog.day + 1
          /\ next.category = 1 /\ next.token = {} /\ next.exhausted = FALSE
      BY <1>0, <3>1 DEF Checkpoints
    <3>3. CASE DateOf(stamp[p]) = prog.day
      <4>1. PICK c \in ListedIn[p] : c <= prog.category
        BY <2>3, <2>6
      <4>2. QED
        BY <2>4, <3>3, <4>1
    <3>4. CASE DateOf(stamp[p]) # prog.day
      <4>1. ~(DateOf(stamp[p]) < next.day) \/ DateOf(stamp[p]) < prog.day
        BY <2>2, <3>2, <3>4
      <4>2. \A c \in ListedIn[p] : ~(c < next.category)
        BY <2>3, <3>2
      <4>3. next.complete \/ DateOf(stamp[p]) < next.day
        BY <1>2, <3>2, <4>2 DEF Passed
      <4>4. QED
        BY <3>2, <4>1, <4>3 DEF Passed
    <3>5. QED
      BY <3>3, <3>4
  <2>7. CASE ~(prog.category < NumCategories) /\ ~(prog.day < DateOf(run[r].to))
    <3>1. DateOf(stamp[p]) < prog.day
      BY <1>2, <2>2, <2>7 DEF Due
    <3>2. QED
      BY <3>1 DEF Passed
  <2>8. QED
    BY <2>5, <2>6, <2>7
<1>3. QED
  BY <1>1, <1>2 DEF Covers
\* A page moves what it lists to pending: what it does not list has been served.
LEMMA ListedCovers ==
    ASSUME TypeOK, NEW r \in Runs, NEW prog \in Checkpoints, NEW saved,
           prog.pending = {}, ~prog.exhausted, Covers(prog, r, saved)
    PROVE  /\ Covers(Listed(prog), r, saved)
           /\ Listed(prog).scope = prog.scope
<1> DEFINE left == Listing(prog.day, prog.category) \ prog.token
           page == FirstOf(PageSize, left)
           next == Listed(prog)
<1>1. /\ next.scope = prog.scope /\ next.complete = prog.complete /\ next.day = prog.day
      /\ next.category = prog.category /\ next.pending = page
      /\ next.token = IF left # page THEN prog.token \cup page ELSE {}
      /\ next.exhausted = (left = page)
  BY DEF Listed, Checkpoints
<1>2. ASSUME NEW p \in Matches[prog.scope], Due(p, r), Passed(next, p) PROVE Passed(prog, p)
  <2>1. p \in Papers
    BY ScopesAssumption DEF Checkpoints
  <2>2. ASSUME DateOf(stamp[p]) = prog.day, prog.category \in ListedIn[p], p \notin prog.token
        PROVE  p \in left
    BY <2>1, <2>2 DEF Listing
  <2> HIDE DEF left, page, next
  <2>3. CASE \/ prog.complete \/ DateOf(stamp[p]) < prog.day
             \/ DateOf(stamp[p]) = prog.day /\ \E c \in ListedIn[p] : c < prog.category
    BY <2>3 DEF Passed
  <2>4. CASE /\ DateOf(stamp[p]) = prog.day /\ prog.category \in ListedIn[p]
             /\ p \in next.token \/ next.exhausted
             /\ p \notin next.pending
    <3>1. p \in prog.token
      BY <1>1, <2>2, <2>4
    <3>2. QED
      BY <2>4, <3>1 DEF Passed
  <2>5. QED
    BY <1>1, <1>2, <2>3, <2>4 DEF Passed
<1>3. QED
  BY <1>1, <1>2 DEF Covers

\* A listing that is replayed from its start has served nothing.
LEMMA ReplayCovers ==
    ASSUME NEW r \in Runs, NEW prog \in Checkpoints, NEW saved, Covers(prog, r, saved)
    PROVE  /\ Covers([prog EXCEPT !.token = {}], r, saved)
           /\ [prog EXCEPT !.token = {}].scope = prog.scope
  BY DEF Covers, Passed, Checkpoints

\* What leaves pending has been accepted with its present version, if its last change
\* is inside the window.
LEMMA BatchCovers ==
    ASSUME TypeOK, NEW w \in Workers, NEW prog, prog = view[w].prog, NEW saved,
           prog.scope = view[w].scope, view[w].to = run[job[w]].to, Covers(prog, job[w], saved),
           NEW returned \in SUBSET prog.pending
    PROVE  /\ Covers([prog EXCEPT !.pending = StillPending(prog, returned)], job[w],
                     saved \cup Accepted(w, returned))
           /\ [prog EXCEPT !.pending = StillPending(prog, returned)].scope = prog.scope
<1> DEFINE next == [prog EXCEPT !.pending = StillPending(prog, returned)]
<1>1. view[w].prog \in Checkpoints /\ job[w] \in Runs
  BY DEF TypeOK, Views
<1>2. /\ next.scope = prog.scope /\ next.complete = prog.complete /\ next.day = prog.day
      /\ next.category = prog.category /\ next.token = prog.token
      /\ next.exhausted = prog.exhausted /\ next.pending = prog.pending \ returned
  BY <1>1 DEF Checkpoints, StillPending
<1> HIDE DEF next
<1>3. ASSUME NEW p \in Matches[prog.scope], Due(p, job[w]), Passed(next, p)
      PROVE  <<p, ver[p]>> \in saved \cup Accepted(w, returned)
  <2>1. CASE p \in returned
    <3>1. p \in Papers
      BY <1>1, ScopesAssumption DEF Checkpoints
    <3>2. stamp[p] \in Nat /\ run[job[w]].to \in Nat
      BY <1>1, <3>1 DEF TypeOK, RunRows
    <3>3. stamp[p] <= view[w].to
      <4>1. DateOf(stamp[p]) < DateOf(run[job[w]].to)
        BY <1>3 DEF Due
      <4>2. ~(run[job[w]].to <= stamp[p])
        BY <3>2, <4>1, DatesGrow, DateOfType
      <4>3. QED
        BY <3>2, <4>2
    <3>4. QED
      BY <2>1, <3>3 DEF Accepted
  <2>2. CASE p \notin returned
    <3>1. Passed(prog, p)
      BY <1>2, <1>3, <2>2 DEF Passed
    <3>2. QED
      BY <1>3, <3>1 DEF Covers
  <2>3. QED
    BY <2>1, <2>2
<1>4. QED
  BY <1>2, <1>3 DEF Covers, next
----------------------------------------------------------------------------
(* What steps do besides *)

\* A harvesting worker leaves the world and the other workers alone.
LEMMA HarvestLocal ==
    ASSUME TypeInv, CheckpointInv, NEW w \in Workers, Harvest(w)
    PROVE  /\ HarvestFrame(w)
           /\ UNCHANGED <<now, stamp, ver, losses, published, run, job>>
           /\ \A u \in Workers \ {w} : pc'[u] = pc[u] /\ view'[u] = view[u]
<1>1. HarvestFrame(w)
  BY HarvestStep
<1>2. UNCHANGED <<now, stamp, ver, losses, published>>
  BY DEF Harvest, ReadProgress, SeedProgress, SeedFails, GetPapersByIds, SaveBatch, NextPosition,
         ListUpdatedIdentifiers, TokenExpired, PageBudgetExhausted, ArxivFails, GiveUp, environment
<1>3. \A u \in Workers \ {w} : pc'[u] = pc[u] /\ view'[u] = view[u]
  BY <1>1 DEF HarvestFrame, TypeInv, TypeOK
<1>4. QED
  BY <1>1, <1>2, <1>3 DEF HarvestFrame

\* Closes a run with a status.
Closes(w, s) ==
    /\ run[job[w]].status = "RUNNING"
    /\ run' = [run EXCEPT ![job[w]].status = s]

\* The steps of a worker that are not of the harvest.
LEMMA ExecuteLocal ==
    ASSUME TypeInv, CheckpointInv, NEW w \in Workers, Execute(w), ~Harvest(w)
    PROVE  /\ UNCHANGED <<environment, progress, items, current>>
           /\ \A u \in Workers \ {w} : pc'[u] = pc[u] /\ view'[u] = view[u] /\ job'[u] = job[u]
           /\ \/ \E r \in Runs : OpenRun(w, r) /\ UNCHANGED <<run, watermark>> /\ pc'[w] = "opened"
              \/ /\ pc[w] = "opened" /\ Begin(w, job[w]) /\ pc'[w] = "begun"
                 /\ run[job[w]].status = "ABSENT" \/ MayRestart(w, job[w])
              \/ /\ pc'[w] = "idle" /\ view'[w] = BlankView
                 /\ \/ /\ pc[w] = "harvest" /\ Closes(w, "COMPLETE")
                       /\ ~progress[job[w]].saved \/ progress[job[w]].complete
                       /\ watermark' = Advanced(job[w], view[w].to)
                    \/ Closes(w, "FAILED") /\ watermark' = watermark
                    \/ UNCHANGED <<run, watermark>>
              \/ /\ pc[w] = "harvest" /\ pc'[w] = "failing"
                 /\ UNCHANGED <<run, watermark, holder, job, view>>
<1>1. TypeOK
  BY DEF TypeInv
<1>2. ASSUME NEW r \in Runs, OpenRun(w, r)
      PROVE  /\ UNCHANGED <<environment, progress, items, current, run, watermark>> /\ pc'[w] = "opened"
             /\ \A u \in Workers \ {w} : pc'[u] = pc[u] /\ view'[u] = view[u] /\ job'[u] = job[u]
  BY <1>1, <1>2 DEF OpenRun, database, TypeOK
<1>3. ASSUME Exit(w)
      PROVE  /\ pc'[w] = "idle" /\ view'[w] = BlankView
             /\ \A u \in Workers \ {w} : pc'[u] = pc[u] /\ view'[u] = view[u] /\ job'[u] = job[u]
  BY <1>1, <1>3 DEF Exit, TypeOK
<1>4. ASSUME Begin(w, job[w])
      PROVE  /\ UNCHANGED <<environment, progress, items, current>> /\ pc'[w] = "begun"
             /\ \A u \in Workers \ {w} : pc'[u] = pc[u] /\ view'[u] = view[u] /\ job'[u] = job[u]
  BY <1>1, <1>4 DEF Begin, TypeOK
<1>5. CASE StartIngestionRun(w)
  BY <1>3, <1>4, <1>5 DEF StartIngestionRun, database
<1>6. CASE RestartIngestionRun(w)
  BY <1>3, <1>4, <1>6 DEF RestartIngestionRun, database
<1>7. CASE FailIngestionRun(w)
  BY <1>3, <1>7 DEF FailIngestionRun, Closes
<1>8. CASE PersistArxivBatchAndComplete(w)
  <2>1. CASE run[job[w]].status # "RUNNING"
    BY <1>3, <1>8, <2>1 DEF PersistArxivBatchAndComplete, database
  <2>2. CASE run[job[w]].status = "RUNNING" /\ progress[job[w]].saved /\ ~progress[job[w]].complete
    BY <1>1, <1>8, <2>2 DEF PersistArxivBatchAndComplete, database, TypeOK
  <2>3. CASE run[job[w]].status = "RUNNING" /\ ~(progress[job[w]].saved /\ ~progress[job[w]].complete)
    BY <1>3, <1>8, <2>3 DEF PersistArxivBatchAndComplete, Closes
  <2>4. QED
    BY <2>1, <2>2, <2>3
<1>9. QED
  BY <1>2, <1>5, <1>6, <1>7, <1>8 DEF Execute

\* The steps of no worker's code.
LEMMA OtherLocal ==
    ASSUME TypeInv, [Next]_vars, ~\E w \in Workers : Execute(w)
    PROVE  /\ UNCHANGED <<run, progress, items, watermark, current>>
           /\ \A u \in Workers : \/ pc'[u] = pc[u] /\ view'[u] = view[u] /\ job'[u] = job[u]
                                 \/ pc'[u] = "idle" /\ view'[u] = BlankView
           /\ losses' = losses \/ losses' # 0
           /\ \/ Tick \/ (\E p \in Papers : Revise(p)) \/ (\E r \in Runs : Publish(r))
              \/ UNCHANGED <<now, stamp, ver, published>>
<1>1. TypeOK
  BY DEF TypeInv
<1>2. CASE World
  BY <1>2 DEF World, Tick, Revise, Publish, database, process
<1>3. ASSUME NEW w \in Workers, Crash(w)
      PROVE  /\ UNCHANGED <<environment, database>>
             /\ \A u \in Workers : \/ pc'[u] = pc[u] /\ view'[u] = view[u] /\ job'[u] = job[u]
                                   \/ pc'[u] = "idle" /\ view'[u] = BlankView
  BY <1>1, <1>3 DEF Crash, Exit, TypeOK
<1>4. ASSUME NEW w \in Workers, LoseLock(w)
      PROVE  UNCHANGED <<now, stamp, ver, published, database, pc, job, view>> /\ losses' # 0
  BY <1>1, <1>4 DEF LoseLock, TypeOK
<1>5. CASE UNCHANGED vars
  BY <1>5 DEF vars, environment, database, process
<1>6. QED
  BY <1>2, <1>3, <1>4, <1>5 DEF Next, database, environment

----------------------------------------------------------------------------
(* The clock and the tables *)

LEMMA ClockStart == Init => ClockInv
  BY DEF Init, ClockInv

\* A window is closed now, or was closed before.
LEMMA OpenedWindow ==
    ASSUME TypeInv, ClockInv, NEW w \in Workers, NEW r \in Runs, OpenRun(w, r)
    PROVE  view'[w].to <= now
<1>1. TypeOK /\ now \in Nat /\ LogicalEnd[r] \in Nat
  BY RunsAssumption DEF TypeInv, TypeOK
<1> DEFINE old == run[r]
           window == IF old.status = "ABSENT" \/ (old.status = "FAILED" /\ ~progress[r].saved)
                     THEN CurrentCursorWindow(r)
                     ELSE [from |-> old.from, to |-> old.to]
<1>2. CurrentCursorWindow(r).to <= now
  BY <1>1 DEF CurrentCursorWindow
<1>3. window.to <= now
  <2>1. CASE old.status = "ABSENT" \/ (old.status = "FAILED" /\ ~progress[r].saved)
    BY <1>2, <2>1
  <2>2. CASE ~(old.status = "ABSENT" \/ (old.status = "FAILED" /\ ~progress[r].saved))
    BY <2>2 DEF ClockInv
  <2>3. QED
    BY <2>1, <2>2
<1> HIDE DEF window
<1>4. \E s \in Scopes : view'[w] = [BlankView EXCEPT !.fresh = old.status = "ABSENT", !.scope = s,
                                       !.from = window.from, !.to = window.to]
  BY <1>1 DEF OpenRun, window, TypeOK
<1>5. view'[w].to = window.to
  BY <1>4 DEF BlankView
<1>6. QED
  BY <1>3, <1>5

LEMMA ClockStep ==
    ASSUME TypeInv, CheckpointInv, ClockInv, [Next]_vars
    PROVE  ClockInv'
<1>1. TypeOK
  BY DEF TypeInv
<1>2. CASE ~\E w \in Workers : Execute(w)
  <2>1. now \in Nat /\ \A r \in Runs : run[r].to \in Nat
    BY <1>1 DEF TypeOK, RunRows
  <2>2. \A u \in Workers : view[u].to \in Nat
    BY <1>1 DEF TypeOK, Views
  <2>3. now' \in Nat /\ now <= now'
    <3>1. now' = now \/ now' = now + 1
      BY <1>2, OtherLocal DEF Tick, Revise, Publish
    <3>2. QED
      BY <2>1, <3>1
  <2>4. \A r \in Runs : run'[r].status # "ABSENT" => run'[r].to <= now'
    BY <1>2, <2>1, <2>3, OtherLocal DEF ClockInv
  <2>5. \A u \in Workers : pc'[u] # "idle" => view'[u].to <= now'
    BY <1>2, <2>1, <2>2, <2>3, OtherLocal DEF ClockInv
  <2>6. QED
    BY <2>4, <2>5 DEF ClockInv
<1>3. ASSUME NEW w \in Workers, Harvest(w) PROVE ClockInv'
  BY <1>3, HarvestLocal DEF HarvestFrame, ClockInv, Harvesting
<1>4. ASSUME NEW w \in Workers, Execute(w), ~Harvest(w) PROVE ClockInv'
  <2>1. now' = now /\ \A u \in Workers \ {w} : pc'[u] = pc[u] /\ view'[u] = view[u]
    BY <1>4, ExecuteLocal DEF environment
  <2>2. \A r \in Runs : run'[r].status # "ABSENT" => run'[r].to <= now
    <3>1. CASE UNCHANGED run
      BY <3>1 DEF ClockInv
    <3>2. CASE pc[w] = "opened" /\ Begin(w, job[w])
      BY <1>1, <3>2 DEF ClockInv, Begin, TypeOK
    <3>3. ASSUME NEW s \in Statuses, Closes(w, s)
          PROVE  \A r \in Runs : run'[r].status # "ABSENT" => run'[r].to <= now
      BY <1>1, <3>3 DEF Closes, ClockInv, TypeOK, RunRows
    <3>4. QED
      BY <1>4, <3>1, <3>2, <3>3, ExecuteLocal DEF Statuses
  <2>3. pc'[w] # "idle" => view'[w].to <= now
    <3>1. CASE pc[w] = "opened" /\ Begin(w, job[w])
      <4>1. view'[w].to = view[w].to
        BY <1>1, <3>1 DEF Begin, TypeOK, Views
      <4>2. QED
        BY <3>1, <4>1 DEF ClockInv
    <3>2. QED
      BY <1>4, <3>1, OpenedWindow, ExecuteLocal DEF ClockInv
  <2>4. QED
    BY <2>1, <2>2, <2>3 DEF ClockInv
<1>5. QED
  BY <1>2, <1>3, <1>4
LEMMA SavedStart == Init => SavedInv
  BY DEF Init, SavedInv

\* A checkpoint in the table is not taken out of it.
LEMMA SavedStays ==
    ASSUME TypeInv, CheckpointInv, [Next]_vars, NEW r \in Runs, progress[r].saved
    PROVE  progress'[r].saved
  BY FixedWindowStep

LEMMA SavedStep ==
    ASSUME TypeInv, CheckpointInv, SavedInv, [Next]_vars
    PROVE  SavedInv'
<1>1. TypeOK
  BY DEF TypeInv
<1>2. CASE ~\E w \in Workers : Execute(w)
  BY <1>2, OtherLocal DEF SavedInv
<1>3. ASSUME NEW w \in Workers, Harvest(w) PROVE SavedInv'
  <2>1. HarvestFrame(w) /\ \A u \in Workers \ {w} : pc'[u] = pc[u]
    BY <1>3, HarvestLocal
  <2>2. pc'[w] \in {"harvest", "save"} => progress'[job[w]].saved
    <3>1. CASE pc[w] \in {"harvest", "save"}
      BY <1>1, <3>1, SavedStays DEF SavedInv, TypeOK
    <3>2. CASE ReadProgress(w)
      BY <1>1, <3>2 DEF ReadProgress, database, TypeOK
    <3>3. CASE SeedProgress(w)
      <4>1. view[w].prog.saved /\ job[w] \in Runs
        BY <1>1, <3>3 DEF SeedProgress, CheckpointInv, Harvesting, TypeOK
      <4>2. QED
        BY <1>1, <3>3, <4>1 DEF SeedProgress, PersistIngestionProgress, TypeOK
    <3>4. CASE SeedFails(w)
      BY <1>1, <3>4 DEF SeedFails, TypeOK
    <3>5. QED
      BY <1>3, <3>1, <3>2, <3>3, <3>4
         DEF Harvest, GetPapersByIds, SaveBatch, NextPosition, ListUpdatedIdentifiers,
             TokenExpired, MayList, NeedsPage, PageBudgetExhausted, ArxivFails
  <2>3. \A v \in Workers : pc'[v] \in {"harvest", "save"} => progress'[job'[v]].saved
    BY <1>1, <2>1, <2>2, SavedStays DEF HarvestFrame, SavedInv, TypeOK
  <2>4. \A r \in Runs : run'[r].status = "COMPLETE" => progress'[r].saved /\ progress'[r].complete
    BY <2>1, CompleteIsFinalStep DEF HarvestFrame, SavedInv
  <2>5. \A r \in Runs : ~progress'[r].saved => items'[r] = {}
    BY <1>1, <2>1 DEF HarvestFrame, WritesCheckpoint, SavedInv, TypeOK
  <2>6. QED
    BY <2>3, <2>4, <2>5 DEF SavedInv
<1>4. ASSUME NEW w \in Workers, Execute(w), ~Harvest(w) PROVE SavedInv'
  <2>1. /\ UNCHANGED <<progress, items>>
        /\ \A u \in Workers \ {w} : pc'[u] = pc[u] /\ job'[u] = job[u]
        /\ pc'[w] \notin {"harvest", "save"}
    BY <1>4, ExecuteLocal
  <2>2. \A r \in Runs : run'[r].status = "COMPLETE" => progress[r].saved /\ progress[r].complete
    <3>1. CASE UNCHANGED run
      BY <3>1 DEF SavedInv
    <3>2. CASE Begin(w, job[w])
      BY <1>1, <3>2 DEF SavedInv, Begin, TypeOK
    <3>3. CASE Closes(w, "FAILED")
      BY <1>1, <3>3 DEF Closes, SavedInv, TypeOK, RunRows
    <3>4. CASE /\ pc[w] = "harvest" /\ Closes(w, "COMPLETE")
               /\ ~progress[job[w]].saved \/ progress[job[w]].complete
      BY <1>1, <3>4 DEF Closes, SavedInv, TypeOK, RunRows
    <3>5. QED
      BY <1>4, <3>1, <3>2, <3>3, <3>4, ExecuteLocal
  <2>3. QED
    BY <2>1, <2>2 DEF SavedInv
<1>5. QED
  BY <1>2, <1>3, <1>4
----------------------------------------------------------------------------
(* Windows are covered *)

LEMMA CoverStart == Init => CoverInv
<1>1. NoCheckpoint.saved = FALSE
  BY DEF NoCheckpoint, FirstCheckpoint
<1>2. QED
  BY <1>1 DEF Init, CoverInv, Harvesting

\* What covers a window still does while it keeps its window and arXiv what it has.
LEMMA CoversStay ==
    ASSUME UNCHANGED <<stamp, ver>>, NEW r \in Runs,
           run'[r].from = run[r].from, run'[r].to = run[r].to,
           NEW prog, NEW saved, NEW more, saved \subseteq more, Covers(prog, r, saved)
    PROVE  Covers(prog, r, more)'
  BY DEF Covers, Due, Passed

\* A step of the harvest that keeps what its worker has in hand covered.
LEMMA CoverFrame ==
    ASSUME TypeInv, CoverInv, losses = 0, NEW w \in Workers, HarvestFrame(w),
           UNCHANGED <<stamp, ver>>,
           \A u \in Workers \ {w} : pc'[u] = pc[u] /\ view'[u] = view[u],
           pc'[w] \in Harvesting => /\ view'[w].prog.scope = view'[w].scope
                                    /\ Covers(view'[w].prog, job[w], Kept(w)'),
           \/ UNCHANGED <<progress, items>>
           \/ /\ progress' = [progress EXCEPT ![job[w]] = view'[w].prog]
              /\ \E records : items' = [items EXCEPT ![job[w]] = @ \cup records]
              /\ Covers(view'[w].prog, job[w], items'[job[w]])
    PROVE  CoverInv'
<1>1. TypeOK /\ run' = run /\ job' = job
  BY DEF TypeInv, HarvestFrame
<1>2. \A r \in Runs : items[r] \subseteq items'[r]
  BY <1>1 DEF TypeOK
<1>3. ASSUME NEW r \in Runs, progress'[r].saved PROVE Covers(progress[r], r, items[r])' 
  <2>1. CASE progress'[r] = progress[r]
    <3>1. Covers(progress[r], r, items[r])
      BY <1>3, <2>1 DEF CoverInv
    <3>2. QED
      BY <1>1, <1>2, <2>1, <3>1, CoversStay
  <2>2. CASE progress'[r] # progress[r]
    <3>1. r = job[w] /\ progress'[r] = view'[w].prog /\ Covers(view'[w].prog, r, items'[r])
      BY <1>1, <2>2 DEF TypeOK
    <3>2. QED
      BY <1>1, <3>1, CoversStay
  <2>3. QED
    BY <2>1, <2>2
<1>4. ASSUME NEW u \in Workers, pc'[u] \in Harvesting
      PROVE  /\ view'[u].prog.scope = view'[u].scope
             /\ Covers(view[u].prog, job[u], Kept(u))'
  <2>1. CASE u = w
    <3>1. Covers(view'[w].prog, job[w], Kept(w)') /\ job[w] \in Runs
      BY <1>1, <1>4, <2>1 DEF TypeOK
    <3>2. QED
      BY <1>1, <1>4, <2>1, <3>1, CoversStay
  <2>2. CASE u # w
    <3>1. /\ pc'[u] = pc[u] /\ view'[u] = view[u] /\ job[u] \in Runs
          /\ Kept(u) \subseteq Kept(u)'
      BY <1>1, <1>2, <2>2 DEF Kept, TypeOK
    <3>2. view[u].prog.scope = view[u].scope /\ Covers(view[u].prog, job[u], Kept(u))
      BY <1>4, <3>1 DEF CoverInv
    <3>3. QED
      BY <1>1, <3>1, <3>2, CoversStay
  <2>3. QED
    BY <2>1, <2>2
<1>5. QED
  BY <1>3, <1>4 DEF CoverInv

\* A checkpoint that covers is saved, or refused with the process at its end.
LEMMA CoverPersist ==
    ASSUME TypeInv, CheckpointInv, CoverInv, losses = 0, NEW w \in Workers, Harvest(w),
           NEW prog, NEW records, NEW next \in {"harvest", "failing"}, NEW local,
           PersistIngestionProgress(w, prog, records, next, local),
           local.prog = prog, prog.scope = local.scope,
           Covers(prog, job[w], items[job[w]] \cup records)
    PROVE  CoverInv'
<1>1. /\ HarvestFrame(w) /\ UNCHANGED <<stamp, ver>>
      /\ \A u \in Workers \ {w} : pc'[u] = pc[u] /\ view'[u] = view[u]
  BY HarvestLocal
<1>2. TypeOK /\ view'[w] = local
  BY DEF TypeInv, TypeOK, PersistIngestionProgress
<1>3. CASE AdmitsCheckpoint(job[w], prog)
  <2>1. /\ progress' = [progress EXCEPT ![job[w]] = prog]
        /\ items' = [items EXCEPT ![job[w]] = @ \cup records]
        /\ pc'[w] = next
    BY <1>2, <1>3 DEF PersistIngestionProgress, TypeOK
  <2>2. items'[job[w]] = items[job[w]] \cup records /\ job'[w] = job[w]
    BY <1>1, <1>2, <2>1 DEF TypeOK, HarvestFrame
  <2>3. Kept(w)' = items'[job[w]]
    BY <2>1, <2>2 DEF Kept
  <2>4. QED
    BY <1>1, <1>2, <2>1, <2>2, <2>3, CoverFrame
<1>4. CASE ~AdmitsCheckpoint(job[w], prog)
  <2>1. UNCHANGED <<progress, items>> /\ pc'[w] = "failing"
    BY <1>2, <1>4 DEF PersistIngestionProgress, TypeOK
  <2>2. QED
    BY <1>1, <2>1, CoverFrame DEF Harvesting
<1>5. QED
  BY <1>3, <1>4
LEMMA CoverHarvest ==
    ASSUME TypeInv, CheckpointInv, WindowInv, SavedInv, CoverInv, losses = 0,
           NEW w \in Workers, Harvest(w)
    PROVE  CoverInv'
<1>1. /\ HarvestFrame(w) /\ UNCHANGED <<stamp, ver>>
      /\ \A u \in Workers \ {w} : pc'[u] = pc[u] /\ view'[u] = view[u]
  BY HarvestLocal
<1> DEFINE r == job[w]
           prog == view[w].prog
<1>2. /\ TypeOK /\ r \in Runs /\ view[w] \in Views /\ prog \in Checkpoints
      /\ view[w].scope \in Scopes /\ progress[r] \in Checkpoints
  BY DEF TypeInv, TypeOK, Views
<1>3. /\ pc[w] \in Harvesting => prog.scope = view[w].scope /\ Covers(prog, r, Kept(w))
      /\ progress[r].saved => Covers(progress[r], r, items[r])
      /\ pc[w] \in Harvesting \cup {"begun"} =>
            view[w].from = run[r].from /\ view[w].to = run[r].to
  BY <1>2 DEF CoverInv, WindowInv
<1>4. pc[w] # "save" => Kept(w) = items[r]
  BY DEF Kept
\* Steps that write no table.
<1>5. ASSUME UNCHANGED <<progress, items>>, pc'[w] = "failing" PROVE CoverInv'
  BY <1>1, <1>5, CoverFrame DEF Harvesting
<1>6. ASSUME UNCHANGED <<progress, items, job>>, pc'[w] \in {"seed", "harvest"},
             view'[w].prog.scope = view'[w].scope, Covers(view'[w].prog, r, items[r])
      PROVE  CoverInv'
  <2>1. Kept(w)' = items[r]
    BY <1>6 DEF Kept
  <2>2. QED
    BY <1>1, <1>6, <2>1, CoverFrame
<1>7. CASE ReadProgress(w)
  <2> DEFINE first == FirstCheckpoint(view[w].scope, DateOf(view[w].from))
  <2>1. UNCHANGED <<progress, items, job>> /\ pc[w] = "begun"
    BY <1>7 DEF ReadProgress, database
  <2>2. CASE ~progress[r].saved
    <3>1. view' = [view EXCEPT ![w].prog = first] /\ pc'[w] = "seed"
      BY <1>2, <1>7, <2>2 DEF ReadProgress, TypeOK
    <3>2. first.scope = view[w].scope /\ Covers(first, r, items[r])
      BY <1>2, <1>3, <2>1, FirstCovers DEF FirstCheckpoint
    <3> HIDE DEF first
    <3>3. view'[w].prog = first /\ view'[w].scope = view[w].scope
      BY <1>2, <3>1 DEF TypeOK, Views
    <3>4. QED
      BY <1>6, <2>1, <3>1, <3>2, <3>3
  <2>3. CASE progress[r].saved /\ progress[r].scope # view[w].scope
    BY <1>2, <1>5, <1>7, <2>1, <2>3 DEF ReadProgress, TypeOK
  <2>4. CASE progress[r].saved /\ progress[r].scope = view[w].scope
    <3>1. view' = [view EXCEPT ![w].prog = progress[r]] /\ pc'[w] = "harvest"
      BY <1>2, <1>7, <2>4 DEF ReadProgress, TypeOK
    <3>2. view'[w].prog = progress[r] /\ view'[w].scope = view[w].scope
      BY <1>2, <3>1 DEF TypeOK, Views
    <3>3. QED
      BY <1>3, <1>6, <2>1, <2>4, <3>1, <3>2
  <2>5. QED
    BY <2>2, <2>3, <2>4
<1>8. CASE SeedProgress(w)
  <2>1. Covers(prog, r, items[r] \cup Baseline(r))
    BY <1>3, <1>4, <1>8 DEF SeedProgress, Harvesting, Covers
  <2>2. QED
    BY <1>3, <1>8, <2>1, CoverPersist DEF SeedProgress, Harvesting
<1>9. CASE SeedFails(w)
  BY <1>2, <1>5, <1>9 DEF SeedFails, database, TypeOK
<1>10. ASSUME NEW returned \in SUBSET prog.pending, GetPapersByIds(w, returned)
       PROVE  CoverInv'
  <2> DEFINE next == [prog EXCEPT !.pending = StillPending(prog, returned)]
  <2>1. /\ pc[w] = "harvest" /\ pc'[w] = "save" /\ UNCHANGED <<progress, items, job>>
        /\ view'[w] = [view[w] EXCEPT !.prog.pending = StillPending(prog, returned),
                                      !.accepted = Accepted(w, returned),
                                      !.missing = returned # FirstOf(BatchSize, prog.pending)]
    BY <1>2, <1>10 DEF GetPapersByIds, database, TypeOK
  <2>2. /\ view'[w].prog = next /\ view'[w].scope = view[w].scope
        /\ view'[w].accepted = Accepted(w, returned)
    BY <1>2, <2>1 DEF Views
  <2>3. Kept(w)' = items[r] \cup Accepted(w, returned)
    BY <2>1, <2>2 DEF Kept
  <2>4. Covers(next, r, items[r] \cup Accepted(w, returned)) /\ next.scope = prog.scope
    BY <1>2, <1>3, <1>4, <2>1, BatchCovers DEF Harvesting
  <2> HIDE DEF next
  <2>5. QED
    BY <1>1, <1>3, <2>1, <2>2, <2>3, <2>4, CoverFrame DEF Harvesting
<1>11. CASE SaveBatch(w)
  <2> DEFINE local == [view[w] EXCEPT !.accepted = {}, !.missing = FALSE]
  <2>1. local.prog = prog /\ local.scope = view[w].scope /\ pc[w] = "save"
    BY <1>2, <1>11 DEF SaveBatch, Views
  <2>2. Kept(w) = items[r] \cup view[w].accepted
    BY <2>1 DEF Kept
  <2>3. PersistIngestionProgress(w, prog, view[w].accepted,
            IF view[w].missing THEN "failing" ELSE "harvest", local)
    BY <1>11 DEF SaveBatch
  <2> HIDE DEF local
  <2>4. QED
    BY <1>3, <1>11, <2>1, <2>2, <2>3, CoverPersist DEF Harvesting
\* Steps of the walk from one position to the next.
<1>12. ASSUME NEW next, NEW local, PersistIngestionProgress(w, next, {}, "harvest", local),
              local.prog = next, local.scope = view[w].scope, next.scope = prog.scope,
              pc[w] = "harvest", Covers(next, r, items[r])
       PROVE  CoverInv'
  <2>1. items[r] \cup {} = items[r]
    OBVIOUS
  <2>2. next.scope = local.scope
    BY <1>3, <1>12 DEF Harvesting
  <2>3. QED
    BY <1>12, <2>1, <2>2, CoverPersist
<1>13. CASE NextPosition(w)
  <2> DEFINE next == Successor(prog, view[w].to)
             local == [view[w] EXCEPT !.prog = next]
  <2>1. /\ PersistIngestionProgress(w, next, {}, "harvest", local)
        /\ pc[w] = "harvest" /\ prog.pending = {} /\ prog.exhausted
    BY <1>13 DEF NextPosition
  <2>2. Covers(next, r, items[r]) /\ next.scope = prog.scope
    BY <1>2, <1>3, <1>4, <2>1, SuccessorCovers DEF Harvesting
  <2> HIDE DEF next
  <2>3. local.prog = next /\ local.scope = view[w].scope
    BY <1>2 DEF Views
  <2> HIDE DEF local
  <2>4. QED
    BY <1>12, <2>1, <2>2, <2>3
<1>14. CASE ListUpdatedIdentifiers(w)
  <2> DEFINE next == Listed(prog)
             local == [view[w] EXCEPT !.prog = next, !.pages = @ + 1]
  <2>1. /\ PersistIngestionProgress(w, next, {}, "harvest", local)
        /\ pc[w] = "harvest" /\ prog.pending = {} /\ ~prog.exhausted
    BY <1>14 DEF ListUpdatedIdentifiers, MayList, NeedsPage
  <2>2. Covers(next, r, items[r]) /\ next.scope = prog.scope
    BY <1>2, <1>3, <1>4, <2>1, ListedCovers DEF Harvesting
  <2> HIDE DEF next
  <2>3. local.prog = next /\ local.scope = view[w].scope
    BY <1>2 DEF Views
  <2> HIDE DEF local
  <2>4. QED
    BY <1>12, <2>1, <2>2, <2>3
<1>15. CASE TokenExpired(w)
  <2> DEFINE next == [prog EXCEPT !.token = {}]
             local == [view[w] EXCEPT !.prog = next, !.pages = @ + 1, !.restarts = @ + 1]
  <2>1. pc[w] = "harvest"
    BY <1>15 DEF TokenExpired, MayList, NeedsPage
  <2>2. CASE view[w].restarts >= MaxTokenRestarts
    BY <1>2, <1>5, <1>15, <2>2 DEF TokenExpired, database, TypeOK
  <2>3. CASE ~(view[w].restarts >= MaxTokenRestarts)
    <3>1. PersistIngestionProgress(w, next, {}, "harvest", local)
      BY <1>15, <2>3 DEF TokenExpired
    <3>2. Covers(next, r, items[r]) /\ next.scope = prog.scope
      BY <1>2, <1>3, <1>4, <2>1, ReplayCovers DEF Harvesting
    <3> HIDE DEF next
    <3>3. local.prog = next /\ local.scope = view[w].scope
      BY <1>2 DEF Views
    <3> HIDE DEF local
    <3>4. QED
      BY <1>12, <2>1, <3>1, <3>2, <3>3
  <2>4. QED
    BY <2>2, <2>3
<1>16. CASE PageBudgetExhausted(w) \/ ArxivFails(w)
  BY <1>2, <1>5, <1>16 DEF PageBudgetExhausted, ArxivFails, GiveUp, database, TypeOK
<1>17. QED
  BY <1>7, <1>8, <1>9, <1>10, <1>11, <1>13, <1>14, <1>15, <1>16 DEF Harvest
\* A revision moves a paper out of the days that were over when a window was closed.
LEMMA RevisedCovers ==
    ASSUME TypeOK, NEW q \in Papers, Revise(q), NEW r \in Runs, run[r].to <= now,
           NEW prog \in Checkpoints, NEW saved, Covers(prog, r, saved)
    PROVE  Covers(prog, r, saved)'
<1>1. /\ ver' = [ver EXCEPT ![q] = @ + 1] /\ stamp' = [stamp EXCEPT ![q] = now]
      /\ run' = run /\ now \in Nat /\ run[r].to \in Nat
  BY DEF Revise, database, TypeOK, RunRows
<1>2. ASSUME NEW p \in Matches[prog.scope], Due(p, r)', Passed(prog, p)'
      PROVE  <<p, ver'[p]>> \in saved
  <2>1. p \in Papers
    BY ScopesAssumption DEF Checkpoints
  <2>2. p # q
    <3>1. DateOf(run[r].to) <= DateOf(now) /\ DateOf(run[r].to) \in Nat /\ DateOf(now) \in Nat
      BY <1>1, DatesGrow, DateOfType
    <3>2. p = q => DateOf(now) < DateOf(run[r].to)
      BY <1>1, <1>2 DEF Due, TypeOK
    <3>3. QED
      BY <3>1, <3>2
  <2>3. stamp'[p] = stamp[p] /\ ver'[p] = ver[p]
    BY <1>1, <2>1, <2>2 DEF TypeOK
  <2>4. Due(p, r) /\ Passed(prog, p)
    BY <1>1, <1>2, <2>3 DEF Due, Passed
  <2>5. QED
    BY <2>3, <2>4 DEF Covers
<1>3. QED
  BY <1>2 DEF Covers

LEMMA CoverStep ==
    ASSUME TypeInv, CheckpointInv, LockInv, WindowInv, ClockInv, SavedInv, CoverInv, [Next]_vars
    PROVE  CoverInv'
<1>1. TypeOK /\ WindowInv'
  BY WindowStep DEF TypeInv
<1>2. SUFFICES ASSUME losses' = 0 PROVE CoverInv'
  BY DEF CoverInv
\* Steps that keep the checkpoints, the items and the papers.
<1>3. ASSUME losses = 0, UNCHANGED <<stamp, ver, progress, items>>,
             \A u \in Workers : \/ pc'[u] = pc[u] /\ view'[u] = view[u] /\ job'[u] = job[u]
                                \/ pc'[u] \notin Harvesting
      PROVE  CoverInv'
  <2>1. ASSUME NEW r \in Runs, progress[r].saved PROVE Covers(progress[r], r, items[r])'
    <3>1. run'[r].from = run[r].from /\ run'[r].to = run[r].to /\ Covers(progress[r], r, items[r])
      BY <1>3, <2>1, FixedWindowStep DEF CoverInv
    <3>2. QED
      BY <1>3, <3>1, CoversStay
  <2>2. ASSUME NEW u \in Workers, pc'[u] \in Harvesting
        PROVE  /\ view'[u].prog.scope = view'[u].scope
               /\ Covers(view[u].prog, job[u], Kept(u))'
    <3>1. pc'[u] = pc[u] /\ view'[u] = view[u] /\ job'[u] = job[u] /\ job[u] \in Runs
      BY <1>1, <1>3, <2>2 DEF TypeOK
    <3>2. view[u].prog.scope = view[u].scope /\ Covers(view[u].prog, job[u], Kept(u))
      BY <1>3, <2>2, <3>1 DEF CoverInv
    <3>3. view[u].from = run[job[u]].from /\ view[u].to = run[job[u]].to
      BY <1>3, <2>2, <3>1 DEF WindowInv
    <3>4. view'[u].from = run'[job'[u]].from /\ view'[u].to = run'[job'[u]].to
      BY <1>1, <1>2, <2>2 DEF WindowInv
    <3>5. Kept(u)' = Kept(u)
      BY <1>3, <3>1 DEF Kept
    <3>6. QED
      BY <1>3, <3>1, <3>2, <3>3, <3>4, <3>5, CoversStay
  <2>3. QED
    BY <1>3, <2>1, <2>2 DEF CoverInv
<1>4. CASE ~\E w \in Workers : Execute(w)
  <2>1. /\ UNCHANGED <<run, progress, items>> /\ losses = 0
        /\ \A u \in Workers : \/ pc'[u] = pc[u] /\ view'[u] = view[u] /\ job'[u] = job[u]
                              \/ pc'[u] = "idle"
    BY <1>2, <1>4, OtherLocal
  <2>2. CASE UNCHANGED <<stamp, ver>>
    BY <1>3, <2>1, <2>2 DEF Harvesting
  <2>3. ASSUME NEW q \in Papers, Revise(q) PROVE CoverInv'
    <3>1. UNCHANGED <<pc, view, job>> /\ losses = 0
      BY <2>1, <2>3 DEF Revise, process
    <3>2. ASSUME NEW r \in Runs, progress[r].saved PROVE Covers(progress[r], r, items[r])'
      <4>1. run[r].to <= now /\ Covers(progress[r], r, items[r]) /\ progress[r] \in Checkpoints
        BY <1>1, <2>1, <3>2 DEF CheckpointInv, ClockInv, CoverInv, TypeOK
      <4>2. Covers(progress[r], r, items[r])'
        BY <1>1, <2>1, <2>3, <4>1, RevisedCovers
      <4>3. QED
        BY <4>2
    <3>3. ASSUME NEW u \in Workers, pc[u] \in Harvesting
          PROVE  /\ view[u].prog.scope = view[u].scope
                 /\ Covers(view[u].prog, job[u], Kept(u))'
      <4>1. /\ view[u].prog.scope = view[u].scope /\ Covers(view[u].prog, job[u], Kept(u))
            /\ view[u].to = run[job[u]].to
        BY <2>1, <3>3 DEF CoverInv, WindowInv
      <4>2. view[u].to <= now
        BY <3>3 DEF ClockInv, Harvesting
      <4>3. job[u] \in Runs /\ view[u].prog \in Checkpoints
        BY <1>1 DEF TypeOK, Views
      <4>4. Kept(u)' = Kept(u)
        BY <2>1, <3>1 DEF Kept
      <4>5. QED
        BY <1>1, <2>3, <3>1, <4>1, <4>2, <4>3, <4>4, RevisedCovers
    <3>4. QED
      BY <2>1, <3>1, <3>2, <3>3 DEF CoverInv
  <2>4. QED
    BY <1>4, <2>2, <2>3, OtherLocal DEF Tick, Publish
<1>5. ASSUME NEW w \in Workers, Harvest(w) PROVE CoverInv'
  <2>1. losses = 0
    BY <1>2, <1>5, HarvestLocal
  <2>2. QED
    BY <1>5, <2>1, CoverHarvest
<1>6. ASSUME NEW w \in Workers, Execute(w), ~Harvest(w) PROVE CoverInv'
  <2>1. /\ UNCHANGED <<stamp, ver, progress, items>> /\ losses = 0
        /\ \A u \in Workers \ {w} : pc'[u] = pc[u] /\ view'[u] = view[u] /\ job'[u] = job[u]
        /\ pc'[w] \notin Harvesting
    BY <1>2, <1>6, ExecuteLocal DEF environment, Harvesting
  <2>2. QED
    BY <1>3, <2>1
<1>7. QED
  BY <1>4, <1>5, <1>6

\* What the theorems of this module rest on.
HarvestInv ==
    TypeInv /\ CheckpointInv /\ LockInv /\ WindowInv /\ CursorInv /\ ClockInv /\ SavedInv /\ CoverInv

LEMMA HarvestInvariant == Spec => []HarvestInv
<1>1. Init => HarvestInv
  BY TypeInit, CheckpointInit, LockInit, ClockStart, SavedStart, CoverStart DEF HarvestInv
<1>2. HarvestInv /\ [Next]_vars => HarvestInv'
  BY TypeStep, CheckpointStep, LockStep, WindowStep, CursorStep, ClockStep, SavedStep, CoverStep
     DEF HarvestInv
<1>3. QED
  BY <1>1, <1>2, PTL DEF Spec

\* In a state of the invariant a completed run has what was due.
LEMMA CompletedCovers ==
    ASSUME HarvestInv, losses = 0, NEW r \in Runs, run[r].status = "COMPLETE",
           NEW p \in Matches[progress[r].scope], Due(p, r)
    PROVE  <<p, ver[p]>> \in items[r]
<1>1. progress[r].saved /\ progress[r].complete
  BY DEF HarvestInv, SavedInv
<1>2. Covers(progress[r], r, items[r])
  BY <1>1 DEF HarvestInv, CoverInv
<1>3. QED
  BY <1>1, <1>2 DEF Covers, Passed

\* While no process has lost its lock, a completed run missed no paper of the days of its
\* window that were over, whatever crashed, expired, was omitted, refused or resumed.
THEOREM WindowsAreCovered == Spec => [](losses = 0 => WindowCovered)
<1>1. HarvestInv => (losses = 0 => WindowCovered)
  BY CompletedCovers DEF WindowCovered, Due
<1>2. QED
  BY <1>1, HarvestInvariant, PTL
----------------------------------------------------------------------------
(* A reprocess stays in its window *)

LEMMA VersionsStart == Init => VersionsInv /\ CutoffInv
  BY DEF Init, VersionsInv, CutoffInv, NotLater, BlankView

\* What a step of the harvest saves and accepts.
LEMMA HarvestItems ==
    ASSUME TypeInv, NEW w \in Workers, Harvest(w)
    PROVE  /\ \A r \in Runs \ {job[w]} : items'[r] = items[r]
           /\ \/ items'[job[w]] = items[job[w]]
              \/ items'[job[w]] = items[job[w]] \cup Baseline(job[w])
              \/ pc[w] = "save" /\ items'[job[w]] = items[job[w]] \cup view[w].accepted
           /\ \/ pc'[w] # "save" /\ view'[w].accepted \subseteq view[w].accepted
              \/ \E returned \in SUBSET Papers :
                    view'[w].accepted = Accepted(w, returned) /\ pc[w] = "harvest"
<1>1. /\ TypeOK /\ job[w] \in Runs /\ view[w] \in Views /\ view[w].prog \in Checkpoints
  BY DEF TypeInv, TypeOK, Views
<1>2. ASSUME UNCHANGED <<items, view>>, pc'[w] = "failing"
      PROVE  pc'[w] # "save" /\ items' = items /\ view'[w].accepted \subseteq view[w].accepted
  BY <1>2
<1>3. ASSUME NEW prog, NEW records, NEW next \in {"harvest", "failing"}, NEW local,
             PersistIngestionProgress(w, prog, records, next, local),
             local.accepted \subseteq view[w].accepted
      PROVE  /\ \A r \in Runs \ {job[w]} : items'[r] = items[r]
             /\ items'[job[w]] = items[job[w]] \/ items'[job[w]] = items[job[w]] \cup records
             /\ pc'[w] # "save" /\ view'[w].accepted \subseteq view[w].accepted
  <2>1. view'[w] = local
    BY <1>1, <1>3 DEF PersistIngestionProgress, TypeOK
  <2>2. CASE AdmitsCheckpoint(job[w], prog)
    BY <1>1, <1>3, <2>1, <2>2 DEF PersistIngestionProgress, TypeOK
  <2>3. CASE ~AdmitsCheckpoint(job[w], prog)
    BY <1>1, <1>3, <2>1, <2>3 DEF PersistIngestionProgress, TypeOK
  <2>4. QED
    BY <2>2, <2>3
<1>4. CASE ReadProgress(w)
  <2>1. items' = items /\ pc[w] = "begun"
    BY <1>4 DEF ReadProgress, database
  <2>2. pc'[w] # "save"
    BY <1>1, <1>4 DEF ReadProgress, TypeOK
  <2>3. view'[w].accepted = view[w].accepted
    <3>1. view' = view \/ \E prog : view' = [view EXCEPT ![w].prog = prog]
      BY <1>4 DEF ReadProgress
    <3>2. ASSUME NEW prog, view' = [view EXCEPT ![w].prog = prog]
          PROVE  view'[w].accepted = view[w].accepted
      BY <1>1, <3>2 DEF TypeOK, Views
    <3>3. QED
      BY <3>1, <3>2
  <2>4. QED
    BY <2>1, <2>2, <2>3
<1>5. CASE SeedProgress(w)
  BY <1>3, <1>5 DEF SeedProgress
<1>6. CASE SeedFails(w) \/ PageBudgetExhausted(w) \/ ArxivFails(w)
  BY <1>1, <1>2, <1>6 DEF SeedFails, PageBudgetExhausted, ArxivFails, GiveUp, database, TypeOK
<1>7. ASSUME NEW returned \in SUBSET view[w].prog.pending, GetPapersByIds(w, returned)
      PROVE  /\ items' = items /\ pc[w] = "harvest" /\ returned \in SUBSET Papers
             /\ view'[w].accepted = Accepted(w, returned)
  BY <1>1, <1>7 DEF GetPapersByIds, database, TypeOK, Views, Checkpoints
<1>8. CASE SaveBatch(w)
  <2> DEFINE local == [view[w] EXCEPT !.accepted = {}, !.missing = FALSE]
  <2>1. local.accepted \subseteq view[w].accepted
    BY <1>1 DEF Views
  <2>2. PersistIngestionProgress(w, view[w].prog, view[w].accepted,
            IF view[w].missing THEN "failing" ELSE "harvest", local) /\ pc[w] = "save"
    BY <1>8 DEF SaveBatch
  <2> HIDE DEF local
  <2>3. QED
    BY <1>3, <2>1, <2>2
\* A checkpoint without records.
<1>9. ASSUME NEW next, NEW local, PersistIngestionProgress(w, next, {}, "harvest", local),
             local.accepted = view[w].accepted
      PROVE  /\ \A r \in Runs \ {job[w]} : items'[r] = items[r]
             /\ items'[job[w]] = items[job[w]]
             /\ pc'[w] # "save" /\ view'[w].accepted \subseteq view[w].accepted
  <2>1. items[job[w]] \cup {} = items[job[w]]
    OBVIOUS
  <2>2. QED
    BY <1>3, <1>9, <2>1
<1>10. ASSUME NEW next
       PROVE  /\ [view[w] EXCEPT !.prog = next].accepted = view[w].accepted
              /\ [view[w] EXCEPT !.prog = next, !.pages = @ + 1].accepted = view[w].accepted
              /\ [view[w] EXCEPT !.prog = next, !.pages = @ + 1, !.restarts = @ + 1].accepted
                    = view[w].accepted
  BY <1>1 DEF Views
<1>11. CASE NextPosition(w)
  BY <1>9, <1>10, <1>11 DEF NextPosition
<1>12. CASE ListUpdatedIdentifiers(w)
  BY <1>9, <1>10, <1>12 DEF ListUpdatedIdentifiers
<1>13. CASE TokenExpired(w)
  <2>1. CASE view[w].restarts >= MaxTokenRestarts
    BY <1>1, <1>2, <1>13, <2>1 DEF TokenExpired, database, TypeOK
  <2>2. CASE ~(view[w].restarts >= MaxTokenRestarts)
    BY <1>9, <1>10, <1>13, <2>2 DEF TokenExpired
  <2>3. QED
    BY <2>1, <2>2
<1>14. QED
  BY <1>4, <1>5, <1>6, <1>7, <1>8, <1>11, <1>12, <1>13 DEF Harvest
\* What a reply is accepted with: versions there are, inside the window of a reprocess.
LEMMA AcceptedVersions ==
    ASSUME TypeOK, NEW w \in Workers, NEW returned \in SUBSET Papers
    PROVE  \A i \in Accepted(w, returned) :
              /\ i[1] \in Papers /\ i[2] = ver[i[1]]
              /\ Mode[job[w]] = "REPROCESS" => stamp[i[1]] <= view[w].to
  BY DEF Accepted

LEMMA VersionsStep ==
    ASSUME TypeInv, CheckpointInv, VersionsInv, [Next]_vars
    PROVE  VersionsInv'
<1>1. TypeOK
  BY DEF TypeInv
<1> DEFINE Exist(S) == \A i \in S : i[2] <= ver[i[1]]
<1>2. CASE ~\E w \in Workers : Execute(w)
  <2>1. /\ items' = items
        /\ \A u \in Workers : view'[u] = view[u] \/ view'[u].accepted = {}
    BY <1>2, OtherLocal DEF BlankView
  <2>2. CASE UNCHANGED <<ver, published>>
    BY <2>1, <2>2 DEF VersionsInv
  <2>3. ASSUME NEW q \in Papers, Revise(q) PROVE VersionsInv'
    <3>1. /\ ver' = [ver EXCEPT ![q] = @ + 1] /\ published' = published /\ ver \in [Papers -> Nat]
      BY <1>1, <2>3, BoundsAssumption DEF Revise, TypeOK
    <3>2. ASSUME NEW S \in SUBSET Items, Exist(S) PROVE \A i \in S : i[2] <= ver'[i[1]]
      <4>1. SUFFICES ASSUME NEW i \in S PROVE i[2] <= ver'[i[1]]
        OBVIOUS
      <4>2. i[1] \in Papers /\ i[2] \in Nat /\ i[2] <= ver[i[1]]
        BY <3>2, BoundsAssumption DEF Items
      <4>3. QED
        BY <3>1, <4>2
    <3>3. /\ \A r \in Runs : items[r] \in SUBSET Items
          /\ \A u \in Workers : view[u].accepted \in SUBSET Items
          /\ \A d \in Dates : published[d] \in SUBSET Items
      BY <1>1 DEF TypeOK, Views
    <3>4. \A r \in Runs : \A i \in items'[r] : i[2] <= ver'[i[1]]
      BY <2>1, <3>2, <3>3 DEF VersionsInv
    <3>5. \A u \in Workers : \A i \in view'[u].accepted : i[2] <= ver'[i[1]]
      BY <2>1, <3>2, <3>3 DEF VersionsInv
    <3>6. \A d \in Dates : \A i \in published'[d] : i[2] <= ver'[i[1]]
      BY <3>1, <3>2, <3>3 DEF VersionsInv
    <3>7. QED
      BY <3>4, <3>5, <3>6 DEF VersionsInv
  <2>4. ASSUME NEW r \in Runs, Publish(r) PROVE VersionsInv'
    <3>1. ver' = ver /\ \A d \in Dates : published'[d] = published[d] \/ published'[d] \subseteq items[r]
      BY <1>1, <2>4 DEF Publish, TypeOK
    <3>2. QED
      BY <2>1, <3>1 DEF VersionsInv
  <2>5. QED
    BY <1>2, <2>2, <2>3, <2>4, OtherLocal DEF Tick
<1>3. ASSUME NEW w \in Workers, Harvest(w) PROVE VersionsInv'
  <2>1. UNCHANGED <<ver, published>> /\ \A u \in Workers \ {w} : view'[u] = view[u]
    BY <1>3, HarvestLocal
  <2>2. \A i \in Baseline(job[w]) : i[2] <= ver[i[1]]
    BY <1>1 DEF Baseline, VersionsInv, Dates, TypeOK
  <2>3. \A r \in Runs : \A i \in items'[r] : i[2] <= ver[i[1]]
    BY <1>1, <1>3, <2>2, HarvestItems DEF VersionsInv, TypeOK
  <2>4. \A i \in view'[w].accepted : i[2] <= ver[i[1]]
    <3>1. ASSUME NEW returned \in SUBSET Papers, view'[w].accepted = Accepted(w, returned)
          PROVE  \A i \in view'[w].accepted : i[2] <= ver[i[1]]
      <4>1. \A i \in view'[w].accepted : i[1] \in Papers /\ i[2] = ver[i[1]]
        BY <1>1, <3>1, AcceptedVersions
      <4>2. \A p \in Papers : ver[p] \in Nat
        BY <1>1, BoundsAssumption DEF TypeOK
      <4>3. QED
        BY <4>1, <4>2
    <3>2. QED
      BY <1>3, <3>1, HarvestItems DEF VersionsInv
  <2>5. QED
    BY <2>1, <2>3, <2>4 DEF VersionsInv
<1>4. ASSUME NEW w \in Workers, Execute(w), ~Harvest(w) PROVE VersionsInv'
  <2>1. UNCHANGED <<ver, published, items>> /\ \A u \in Workers \ {w} : view'[u] = view[u]
    BY <1>4, ExecuteLocal DEF environment
  <2>2. view'[w].accepted \subseteq view[w].accepted
    <3>1. ASSUME NEW r \in Runs, OpenRun(w, r) PROVE view'[w].accepted = {}
      BY <1>1, <3>1 DEF OpenRun, BlankView, TypeOK
    <3>2. Begin(w, job[w]) => view'[w].accepted = view[w].accepted
      BY <1>1 DEF Begin, TypeOK, Views
    <3>3. QED
      BY <1>4, <3>1, <3>2, ExecuteLocal DEF BlankView
  <2>3. QED
    BY <2>1, <2>2 DEF VersionsInv
<1>5. QED
  BY <1>2, <1>3, <1>4

LEMMA CutoffStep ==
    ASSUME HarvestInv, VersionsInv, CutoffInv, [Next]_vars
    PROVE  CutoffInv'
<1>1. TypeInv /\ CheckpointInv /\ TypeOK
  BY DEF HarvestInv, TypeInv
<1>2. SUFFICES ASSUME losses' = 0 PROVE CutoffInv'
  BY DEF CutoffInv
\* Steps that keep the papers and the items: a row with items keeps its window.
<1>3. ASSUME losses = 0, UNCHANGED <<stamp, ver, items>>,
             \A d \in Dates : published[d] \subseteq published'[d],
             \A u \in Workers : \/ pc'[u] = pc[u] /\ view'[u] = view[u] /\ job'[u] = job[u]
                                \/ pc'[u] # "save"
      PROVE  CutoffInv'
  <2>1. \A r \in Runs : LogicalDate[r] \in Dates
    BY DEF Dates
  <2>2. ASSUME NEW r \in Runs, Mode[r] = "REPROCESS"
        PROVE  NotLater(items[r], LogicalDate[r], run[r].to)'
    <3>1. CASE progress[r].saved
      <4>1. run'[r].to = run[r].to
        BY <1>1, <3>1, FixedWindowStep
      <4>2. QED
        BY <1>3, <2>1, <2>2, <4>1 DEF CutoffInv, NotLater
    <3>2. CASE ~progress[r].saved
      BY <1>3, <3>2 DEF HarvestInv, SavedInv, NotLater
    <3>3. QED
      BY <3>1, <3>2
  <2>3. ASSUME NEW u \in Workers, Mode[job'[u]] = "REPROCESS", pc'[u] = "save"
        PROVE  NotLater(view[u].accepted, LogicalDate[job[u]], run[job[u]].to)'
    <3>1. pc'[u] = pc[u] /\ view'[u] = view[u] /\ job'[u] = job[u] /\ job[u] \in Runs
      BY <1>1, <1>3, <2>3 DEF TypeOK
    <3>2. run'[job[u]].to = run[job[u]].to
      BY <1>1, <2>3, <3>1, FixedWindowStep DEF HarvestInv, SavedInv
    <3>3. NotLater(view[u].accepted, LogicalDate[job[u]], run[job[u]].to)
      BY <1>3, <2>3, <3>1 DEF CutoffInv
    <3>4. QED
      BY <1>3, <2>1, <3>1, <3>2, <3>3 DEF NotLater
  <2>4. QED
    BY <2>2, <2>3 DEF CutoffInv
<1>4. CASE ~\E w \in Workers : Execute(w)
  <2>1. /\ UNCHANGED <<run, progress, items>> /\ losses = 0
        /\ \A u \in Workers : \/ pc'[u] = pc[u] /\ view'[u] = view[u] /\ job'[u] = job[u]
                              \/ pc'[u] = "idle"
    BY <1>1, <1>2, <1>4, OtherLocal
  <2>2. CASE UNCHANGED <<stamp, ver, published>>
    BY <1>3, <2>1, <2>2
  <2>3. ASSUME NEW q \in Runs, Publish(q) PROVE CutoffInv'
    <3>1. UNCHANGED <<stamp, ver>> /\ \A d \in Dates : published[d] \subseteq published'[d]
      BY <1>1, <2>3 DEF Publish, TypeOK
    <3>2. QED
      BY <1>3, <2>1, <3>1
  <2>4. ASSUME NEW q \in Papers, Revise(q) PROVE CutoffInv'
    <3>1. /\ ver' = [ver EXCEPT ![q] = @ + 1] /\ stamp' = [stamp EXCEPT ![q] = now]
          /\ UNCHANGED <<published, pc, view, job>>
      BY <2>4 DEF Revise, process
    <3>2. ASSUME NEW S \in SUBSET Items, \A i \in S : i[2] <= ver[i[1]],
                 NEW d \in Dates, NEW to, NotLater(S, d, to)
          PROVE  NotLater(S, d, to)'
      <4>1. ASSUME NEW p \in Papers, <<p, ver'[p]>> \in S \ published[d]
            PROVE  stamp'[p] <= to
        <5>1. ver[q] \in Nat /\ ver'[q] = ver[q] + 1
          BY <1>1, <3>1, BoundsAssumption DEF TypeOK
        <5>2. p # q
          BY <3>2, <4>1, <5>1
        <5>3. stamp'[p] = stamp[p] /\ ver'[p] = ver[p]
          BY <1>1, <3>1, <5>2 DEF TypeOK
        <5>4. QED
          BY <3>2, <4>1, <5>3 DEF NotLater
      <4>2. QED
        BY <3>1, <4>1 DEF NotLater
    <3>3. \A r \in Runs : LogicalDate[r] \in Dates /\ items[r] \in SUBSET Items
      BY <1>1 DEF Dates, TypeOK
    <3>4. \A u \in Workers : job[u] \in Runs /\ view[u].accepted \in SUBSET Items
      BY <1>1 DEF TypeOK, Views
    <3>5. ASSUME NEW r \in Runs, Mode[r] = "REPROCESS"
          PROVE  NotLater(items[r], LogicalDate[r], run[r].to)'
      BY <2>1, <3>2, <3>3, <3>5 DEF CutoffInv, VersionsInv
    <3>6. ASSUME NEW u \in Workers, Mode[job[u]] = "REPROCESS", pc[u] = "save"
          PROVE  NotLater(view[u].accepted, LogicalDate[job[u]], run[job[u]].to)'
      <4>1. /\ NotLater(view[u].accepted, LogicalDate[job[u]], run[job[u]].to)
            /\ \A i \in view[u].accepted : i[2] <= ver[i[1]]
        BY <2>1, <3>6 DEF CutoffInv, VersionsInv
      <4>2. QED
        BY <2>1, <3>1, <3>2, <3>3, <3>4, <4>1
    <3>7. QED
      BY <2>1, <3>1, <3>5, <3>6 DEF CutoffInv
  <2>5. QED
    BY <1>1, <1>4, <2>2, <2>3, <2>4, OtherLocal DEF Tick
<1>5. ASSUME NEW w \in Workers, Harvest(w) PROVE CutoffInv'
  <2>1. /\ UNCHANGED <<stamp, ver, losses, published, run, job>> /\ losses = 0
        /\ \A u \in Workers \ {w} : pc'[u] = pc[u] /\ view'[u] = view[u]
    BY <1>1, <1>2, <1>5, HarvestLocal
  <2>2. ASSUME NEW r \in Runs, Mode[r] = "REPROCESS"
        PROVE  NotLater(items'[r], LogicalDate[r], run[r].to)
    <3>1. NotLater(items[r], LogicalDate[r], run[r].to)
      BY <2>1, <2>2 DEF CutoffInv
    <3>2. r = job[w] /\ pc[w] = "save" => NotLater(view[w].accepted, LogicalDate[r], run[r].to)
      BY <2>1, <2>2 DEF CutoffInv
    <3>3. r = job[w] => Baseline(r) = published[LogicalDate[r]]
      BY <2>2 DEF Baseline
    <3>4. QED
      BY <1>1, <1>5, <3>1, <3>2, <3>3, HarvestItems DEF NotLater
  <2>3. ASSUME Mode[job[w]] = "REPROCESS", pc'[w] = "save"
        PROVE  NotLater(view'[w].accepted, LogicalDate[job[w]], run[job[w]].to)
    <3>1. PICK returned \in SUBSET Papers :
              view'[w].accepted = Accepted(w, returned) /\ pc[w] = "harvest"
      BY <1>1, <1>5, <2>3, HarvestItems
    <3>2. view[w].to = run[job[w]].to
      BY <2>1, <3>1 DEF HarvestInv, WindowInv, Harvesting
    <3>3. \A p \in Papers : <<p, ver[p]>> \in Accepted(w, returned) => stamp[p] <= view[w].to
      BY <2>3 DEF Accepted
    <3>4. QED
      BY <3>1, <3>2, <3>3 DEF NotLater
  <2>4. QED
    BY <2>1, <2>2, <2>3 DEF CutoffInv, NotLater
<1>6. ASSUME NEW w \in Workers, Execute(w), ~Harvest(w) PROVE CutoffInv'
  <2>1. /\ UNCHANGED <<stamp, ver, items, published>> /\ losses = 0
        /\ \A u \in Workers \ {w} : pc'[u] = pc[u] /\ view'[u] = view[u] /\ job'[u] = job[u]
        /\ pc'[w] # "save"
    BY <1>1, <1>2, <1>6, ExecuteLocal DEF environment
  <2>2. QED
    BY <1>3, <2>1
<1>7. QED
  BY <1>4, <1>5, <1>6

\* A reprocess saves no version later than its window, beyond what was published for its
\* date already.
THEOREM ReprocessesStayInWindow == Spec => []ReprocessStaysInWindow
<1>1. HarvestInv /\ VersionsInv /\ CutoffInv /\ [Next]_vars => VersionsInv' /\ CutoffInv'
  BY VersionsStep, CutoffStep DEF HarvestInv
<1>2. CutoffInv => ReprocessStaysInWindow
  BY DEF CutoffInv, ReprocessStaysInWindow, NotLater
<1>3. QED
  BY <1>1, <1>2, VersionsStart, HarvestInvariant, PTL DEF Spec
----------------------------------------------------------------------------
(* Windows leave no hole *)

LEMMA ChainStart == Init => ChainInv
<1>1. Init => Harvested = {}
  BY DEF Init, Harvested
<1>2. QED
  BY <1>1 DEF Init, ChainInv, NoHole

\* A window that touches a harvested one joins what is harvested.
LEMMA NoHoleGrows ==
    ASSUME TypeOK, NoHole, NEW r \in Runs, run[r].from <= run[r].to,
           NEW q \in Harvested, run[r].from <= run[q].to, run[q].from <= run[r].to,
           NEW d \in Nat,
           \E x \in Harvested \cup {r} : DateOf(run[x].from) <= d,
           \E x \in Harvested \cup {r} : d < DateOf(run[x].to)
    PROVE  \E x \in Harvested \cup {r} : DateOf(run[x].from) <= d /\ d < DateOf(run[x].to)
<1>1. \A x \in Runs : run[x].from \in Nat /\ run[x].to \in Nat
  BY DEF TypeOK, RunRows
<1>2. Harvested \subseteq Runs
  BY DEF Harvested
<1>3. \A x \in Runs : DateOf(run[x].from) \in Nat /\ DateOf(run[x].to) \in Nat
  BY <1>1, DateOfType
<1>4. DateOf(run[r].from) <= DateOf(run[q].to) /\ DateOf(run[q].from) <= DateOf(run[r].to)
  BY <1>1, <1>2, DatesGrow
<1>5. CASE DateOf(run[r].from) <= d /\ d < DateOf(run[r].to)
  BY <1>5
<1>6. CASE ~(DateOf(run[r].from) <= d)
  <2>1. d < DateOf(run[q].to)
    BY <1>2, <1>3, <1>4, <1>6
  <2>2. \E x \in Harvested : DateOf(run[x].from) <= d
    BY <1>6
  <2>3. QED
    BY <2>1, <2>2 DEF NoHole
<1>7. CASE ~(d < DateOf(run[r].to))
  <2>1. DateOf(run[q].from) <= d
    BY <1>2, <1>3, <1>4, <1>7
  <2>2. \E x \in Harvested : d < DateOf(run[x].to)
    BY <1>7
  <2>3. QED
    BY <2>1, <2>2 DEF NoHole
<1>8. QED
  BY <1>5, <1>6, <1>7

\* A window that is chained begins before it ends.
LEMMA ChainedOrder ==
    ASSUME TypeOK, NEW from \in Nat, NEW to \in Nat, Chained(from, to)
    PROVE  from <= to
<1>1. Lookback \in Nat /\ Overlap \in Nat
  BY BoundsAssumption
<1>2. \A q \in Harvested : run[q].to \in Nat
  BY DEF TypeOK, RunRows, Harvested
<1>3. QED
  BY <1>1, <1>2 DEF Chained

LEMMA ChainedStays ==
    ASSUME Harvested \subseteq Harvested', \A q \in Harvested : run'[q].to = run[q].to,
           NEW from, NEW to, Chained(from, to)
    PROVE  Chained(from, to)'
  BY DEF Chained

\* The window a run is opened with.
LEMMA OpenedChained ==
    ASSUME HarvestInv, ChainInv, losses = 0, NEW w \in Workers, NEW r \in Runs,
           OpenRun(w, r), AdvancesCursor(r)
    PROVE  Chained(view'[w].from, view'[w].to)
<1>1. /\ TypeOK /\ now \in Nat
      /\ Lookback \in Nat /\ Overlap \in Nat
  BY BoundsAssumption DEF HarvestInv, TypeInv, TypeOK
<1> DEFINE old == run[r]
           window == IF old.status = "ABSENT" \/ (old.status = "FAILED" /\ ~progress[r].saved)
                     THEN CurrentCursorWindow(r)
                     ELSE [from |-> old.from, to |-> old.to]
<1>2. Chained(CurrentCursorWindow(r).from, CurrentCursorWindow(r).to)
  <2>1. /\ CurrentCursorWindow(r).to = now
        /\ CurrentCursorWindow(r).from =
              (IF watermark = NoWatermark THEN now - Lookback ELSE watermark) - Overlap
    BY DEF CurrentCursorWindow, AdvancesCursor
  <2>2. CASE watermark = NoWatermark
    BY <1>1, <2>1, <2>2 DEF Chained
  <2>3. CASE watermark # NoWatermark
    <3>1. PICK q \in Harvested : run[q].to = watermark
      BY <2>3 DEF HarvestInv, CursorInv, WatermarkIsNewestHarvest
    <3>2. run[q].to <= now
      BY <3>1 DEF HarvestInv, ClockInv, Harvested
    <3>3. QED
      BY <2>1, <2>3, <3>1, <3>2 DEF Chained
  <2>4. QED
    BY <2>2, <2>3
<1>3. Chained(window.from, window.to)
  <2>1. CASE old.status = "ABSENT" \/ (old.status = "FAILED" /\ ~progress[r].saved)
    BY <1>2, <2>1
  <2>2. CASE ~(old.status = "ABSENT" \/ (old.status = "FAILED" /\ ~progress[r].saved))
    <3>1. window.from = run[r].from /\ window.to = run[r].to
      BY <2>2
    <3>2. Chained(run[r].from, run[r].to)
      BY <2>2 DEF ChainInv
    <3>3. QED
      BY <3>1, <3>2
  <2>3. QED
    BY <2>1, <2>2
<1> HIDE DEF window
<1>4. \E s \in Scopes : view'[w] = [BlankView EXCEPT !.fresh = old.status = "ABSENT", !.scope = s,
                                       !.from = window.from, !.to = window.to]
  BY <1>1 DEF OpenRun, window, TypeOK
<1>5. view'[w].from = window.from /\ view'[w].to = window.to
  BY <1>4 DEF BlankView
<1>6. QED
  BY <1>3, <1>5

\* The run that completes joins what is harvested, if it may move the cursor.
LEMMA CompletionJoins ==
    ASSUME HarvestInv, ChainInv, losses = 0, NEW r \in Runs, AdvancesCursor(r),
           run[r].status = "RUNNING", run' = [run EXCEPT ![r].status = "COMPLETE"]
    PROVE  /\ Harvested' = Harvested \cup {r}
           /\ FromLookback' # {}
           /\ CloseStarts' => NoHole'
<1>1. /\ TypeOK /\ Lookback \in Nat /\ Overlap \in Nat
  BY BoundsAssumption DEF HarvestInv, TypeInv
<1>2. \A x \in Runs : /\ run[x].from \in Nat /\ run[x].to \in Nat
                      /\ run'[x].from = run[x].from /\ run'[x].to = run[x].to
                      /\ x # r => run'[x].status = run[x].status
  BY <1>1 DEF TypeOK, RunRows
<1>3. run'[r].status = "COMPLETE"
  BY <1>1 DEF TypeOK, RunRows
<1>4. Harvested' = Harvested \cup {r} /\ Harvested \subseteq Runs
  BY <1>2, <1>3 DEF Harvested, AdvancesCursor
<1>5. FromLookback' = FromLookback \cup
          (IF run[r].from = run[r].to - Lookback - Overlap THEN {r} ELSE {})
  BY <1>2, <1>4 DEF FromLookback
<1>6. Chained(run[r].from, run[r].to) /\ run[r].from <= run[r].to
  BY <1>1, <1>2, ChainedOrder DEF ChainInv
<1>7. FromLookback' # {}
  <2>1. CASE Harvested = {}
    BY <1>5, <1>6, <2>1 DEF Chained
  <2>2. CASE Harvested # {}
    BY <1>5, <2>2 DEF ChainInv
  <2>3. QED
    BY <2>1, <2>2
<1>8. ASSUME CloseStarts', NEW d \in Nat,
             \E x \in Harvested \cup {r} : DateOf(run[x].from) <= d,
             \E x \in Harvested \cup {r} : d < DateOf(run[x].to)
      PROVE  \E x \in Harvested \cup {r} : DateOf(run[x].from) <= d /\ d < DateOf(run[x].to)
  <2>1. CASE Harvested = {}
    BY <1>8, <2>1
  <2>2. CASE Harvested # {}
    <3>1. \A x, y \in FromLookback \cup
              (IF run[r].from = run[r].to - Lookback - Overlap THEN {r} ELSE {}) :
              run[y].to <= run[x].to + Lookback
      BY <1>2, <1>4, <1>5, <1>8 DEF CloseStarts, FromLookback
    <3>2. NoHole
      BY <2>2, <3>1 DEF ChainInv, CloseStarts
    <3>3. CASE run[r].from = run[r].to - Lookback - Overlap
      <4>1. PICK q \in FromLookback : TRUE
        BY <2>2 DEF ChainInv
      <4>2. /\ q \in Harvested /\ q \in Runs /\ run[q].from = run[q].to - Lookback - Overlap
            /\ run[q].to <= run[r].to + Lookback /\ run[r].to <= run[q].to + Lookback
        BY <1>4, <3>1, <3>3, <4>1 DEF FromLookback
      <4>3. run[r].from <= run[q].to /\ run[q].from <= run[r].to
        BY <1>1, <1>2, <3>3, <4>2
      <4>4. QED
        BY <1>1, <1>6, <1>8, <3>2, <4>2, <4>3, NoHoleGrows
    <3>4. ASSUME NEW q \in Harvested, run[r].from = run[q].to - Overlap, run[q].to <= run[r].to
          PROVE  \E x \in Harvested \cup {r} : DateOf(run[x].from) <= d /\ d < DateOf(run[x].to)
      <4>1. q \in Runs /\ run[q].from <= run[q].to
        <5>1. q \in Runs /\ AdvancesCursor(q) /\ run[q].status # "ABSENT"
          BY DEF Harvested
        <5>2. Chained(run[q].from, run[q].to)
          BY <5>1 DEF ChainInv
        <5>3. QED
          BY <1>1, <1>2, <5>1, <5>2, ChainedOrder
      <4>2. run[r].from <= run[q].to /\ run[q].from <= run[r].to
        BY <1>1, <1>2, <3>4, <4>1
      <4>3. QED
        BY <1>1, <1>6, <1>8, <3>2, <4>2, NoHoleGrows
    <3>5. QED
      BY <1>6, <3>3, <3>4 DEF Chained
  <2>3. QED
    BY <2>1, <2>2
<1>9. CloseStarts' => NoHole'
  BY <1>2, <1>4, <1>8 DEF NoHole
<1>10. QED
  BY <1>4, <1>7, <1>9
LEMMA ChainStep ==
    ASSUME HarvestInv, ChainInv, [Next]_vars
    PROVE  ChainInv'
<1>1. TypeInv /\ CheckpointInv /\ TypeOK
  BY DEF HarvestInv, TypeInv
<1>2. SUFFICES ASSUME losses' = 0 PROVE ChainInv'
  BY DEF ChainInv
\* The parts of the invariant, when no run completes and when one does.
<1>3. ASSUME losses = 0, Harvested \subseteq Harvested',
             \A q \in Harvested : run'[q].to = run[q].to,
             \A r \in Runs : AdvancesCursor(r) /\ run'[r].status # "ABSENT" =>
                Chained(run'[r].from, run'[r].to),
             \A u \in Workers : AdvancesCursor(job'[u]) /\ pc'[u] = "opened" =>
                Chained(view'[u].from, view'[u].to),
             Harvested' # {} => FromLookback' # {}, CloseStarts' => NoHole'
      PROVE  ChainInv'
  <2>1. ASSUME NEW r \in Runs, AdvancesCursor(r), run'[r].status # "ABSENT"
        PROVE  Chained(run[r].from, run[r].to)'
    BY <1>3, <2>1 DEF Chained
  <2>2. ASSUME NEW u \in Workers, AdvancesCursor(job[u])', pc'[u] = "opened"
        PROVE  Chained(view[u].from, view[u].to)'
    <3>1. Chained(view'[u].from, view'[u].to)
      BY <1>3, <2>2 DEF AdvancesCursor
    <3>2. QED
      BY <1>3, <3>1 DEF Chained
  <2>3. QED
    BY <1>3, <2>1, <2>2 DEF ChainInv, AdvancesCursor
<1>4. ASSUME losses = 0,
             \A r \in Runs : run'[r].status = "COMPLETE" <=> run[r].status = "COMPLETE",
             \A r \in Runs : AdvancesCursor(r) /\ run'[r].status # "ABSENT" =>
                Chained(run'[r].from, run'[r].to),
             \A u \in Workers : AdvancesCursor(job'[u]) /\ pc'[u] = "opened" =>
                Chained(view'[u].from, view'[u].to)
      PROVE  ChainInv'
  <2>1. Harvested' = Harvested
    BY <1>4 DEF Harvested, AdvancesCursor
  <2>2. \A q \in Harvested : run'[q] = run[q]
    BY <1>1, CompleteIsFinalStep DEF Harvested
  <2>3. FromLookback' = FromLookback
    BY <2>1, <2>2 DEF FromLookback
  <2>4. CloseStarts' => CloseStarts
    BY <2>2, <2>3 DEF CloseStarts, FromLookback
  <2>5. NoHole => NoHole'
    BY <2>1, <2>2 DEF NoHole
  <2>6. (Harvested # {} => FromLookback # {}) /\ (CloseStarts => NoHole)
    BY <1>4 DEF ChainInv
  <2>7. (CloseStarts' => NoHole') /\ (Harvested' # {} => FromLookback' # {})
    BY <2>1, <2>3, <2>4, <2>5, <2>6
  <2>8. QED
    BY <1>3, <1>4, <2>1, <2>2, <2>7
<1>5. losses = 0 =>
        /\ \A r \in Runs : AdvancesCursor(r) /\ run[r].status # "ABSENT" =>
              Chained(run[r].from, run[r].to)
        /\ \A u \in Workers : AdvancesCursor(job[u]) /\ pc[u] = "opened" =>
              Chained(view[u].from, view[u].to)
  BY DEF ChainInv
<1>6. CASE ~\E w \in Workers : Execute(w)
  BY <1>1, <1>2, <1>4, <1>5, <1>6, OtherLocal
<1>7. ASSUME NEW w \in Workers, Harvest(w) PROVE ChainInv'
  <2>1. UNCHANGED <<run, job, losses>> /\ \A u \in Workers \ {w} : pc'[u] = pc[u] /\ view'[u] = view[u]
    BY <1>1, <1>7, HarvestLocal
  <2>2. pc'[w] # "opened"
    BY <1>1, <1>7, HarvestLocal DEF HarvestFrame, Harvesting
  <2>3. QED
    BY <1>2, <1>4, <1>5, <2>1, <2>2
<1>8. ASSUME NEW w \in Workers, Execute(w), ~Harvest(w) PROVE ChainInv'
  <2>1. /\ losses = 0 /\ job[w] \in Runs
        /\ \A u \in Workers \ {w} : pc'[u] = pc[u] /\ view'[u] = view[u] /\ job'[u] = job[u]
    BY <1>1, <1>2, <1>8, ExecuteLocal DEF environment, TypeOK
  <2>2. ASSUME NEW r \in Runs, OpenRun(w, r), UNCHANGED run PROVE ChainInv'
    <3>1. AdvancesCursor(r) => Chained(view'[w].from, view'[w].to)
      BY <2>1, <2>2, OpenedChained
    <3>2. job'[w] = r
      BY <1>1, <2>2 DEF OpenRun, TypeOK
    <3>3. QED
      BY <1>4, <1>5, <2>1, <2>2, <3>1, <3>2
  <2>3. CASE /\ pc[w] = "opened" /\ Begin(w, job[w]) /\ pc'[w] = "begun"
             /\ run[job[w]].status = "ABSENT" \/ MayRestart(w, job[w])
    <3>1. /\ run' = [run EXCEPT ![job[w]] =
                        [status |-> "RUNNING", from |-> view[w].from, to |-> view[w].to]]
          /\ run[job[w]].status # "COMPLETE"
      BY <2>3 DEF Begin, MayRestart
    <3>2. \A r \in Runs : run'[r].status = "COMPLETE" <=> run[r].status = "COMPLETE"
      BY <1>1, <2>1, <3>1 DEF TypeOK
    <3>3. \A r \in Runs : AdvancesCursor(r) /\ run'[r].status # "ABSENT" =>
              Chained(run'[r].from, run'[r].to)
      <4>1. SUFFICES ASSUME NEW r \in Runs, AdvancesCursor(r), run'[r].status # "ABSENT"
                     PROVE  Chained(run'[r].from, run'[r].to)
        OBVIOUS
      <4>2. CASE r = job[w]
        <5>1. run'[r].from = view[w].from /\ run'[r].to = view[w].to
          BY <1>1, <3>1, <4>2 DEF TypeOK
        <5>2. QED
          BY <1>5, <2>1, <2>3, <4>1, <4>2, <5>1
      <4>3. CASE r # job[w]
        <5>1. run'[r] = run[r]
          BY <1>1, <3>1, <4>3 DEF TypeOK
        <5>2. QED
          BY <1>5, <2>1, <4>1, <5>1
      <4>4. QED
        BY <4>2, <4>3
    <3>4. QED
      BY <1>4, <1>5, <2>1, <2>3, <3>2, <3>3
  <2>4. ASSUME NEW s \in {"COMPLETE", "FAILED"}, Closes(w, s)
        PROVE  \A r \in Runs : /\ run'[r].from = run[r].from /\ run'[r].to = run[r].to
                               /\ run'[r].status # "ABSENT" => run[r].status # "ABSENT"
                               /\ run'[r].status = (IF r = job[w] THEN s ELSE run[r].status)
    BY <1>1, <2>1, <2>4 DEF Closes, TypeOK, RunRows
  <2>5. CASE pc'[w] = "idle" /\ (UNCHANGED run \/ Closes(w, "FAILED"))
    <3>1. CASE UNCHANGED run
      BY <1>4, <1>5, <2>1, <2>5, <3>1
    <3>2. CASE Closes(w, "FAILED")
      <4>1. \A r \in Runs : run'[r].status = "COMPLETE" <=> run[r].status = "COMPLETE"
        BY <2>4, <3>2 DEF Closes
      <4>2. \A r \in Runs : AdvancesCursor(r) /\ run'[r].status # "ABSENT" =>
                Chained(run'[r].from, run'[r].to)
        BY <1>5, <2>1, <2>4, <3>2
      <4>3. QED
        BY <1>4, <1>5, <2>1, <2>5, <4>1, <4>2
    <3>3. QED
      BY <2>5, <3>1, <3>2
  <2>6. CASE pc'[w] = "idle" /\ Closes(w, "COMPLETE")
    <3>1. /\ run[job[w]].status = "RUNNING"
          /\ run' = [run EXCEPT ![job[w]].status = "COMPLETE"]
      BY <2>6 DEF Closes
    <3>2. \A r \in Runs : AdvancesCursor(r) /\ run'[r].status # "ABSENT" =>
              Chained(run'[r].from, run'[r].to)
      BY <1>5, <2>1, <2>4, <2>6
    <3>3. \A u \in Workers : AdvancesCursor(job'[u]) /\ pc'[u] = "opened" =>
              Chained(view'[u].from, view'[u].to)
      BY <1>5, <2>1, <2>6
    <3>4. CASE AdvancesCursor(job[w])
      <4>1. /\ Harvested' = Harvested \cup {job[w]} /\ FromLookback' # {}
            /\ CloseStarts' => NoHole'
        BY <2>1, <3>1, <3>4, CompletionJoins
      <4>2. \A q \in Harvested : run'[q].to = run[q].to
        BY <2>4, <2>6 DEF Harvested
      <4>3. QED
        BY <1>3, <2>1, <3>2, <3>3, <4>1, <4>2
    <3>5. CASE ~AdvancesCursor(job[w])
      <4>1. Harvested' = Harvested
        BY <2>4, <2>6, <3>5 DEF Harvested, AdvancesCursor
      <4>2. \A q \in Harvested : run'[q] = run[q]
        BY <1>1, CompleteIsFinalStep DEF Harvested
      <4>3. FromLookback' = FromLookback
        BY <4>1, <4>2 DEF FromLookback
      <4>4. CloseStarts' => CloseStarts
        BY <4>2, <4>3 DEF CloseStarts, FromLookback
      <4>5. NoHole => NoHole'
        BY <4>1, <4>2 DEF NoHole
      <4>6. (Harvested # {} => FromLookback # {}) /\ (CloseStarts => NoHole)
        BY <2>1 DEF ChainInv
      <4>7. (CloseStarts' => NoHole') /\ (Harvested' # {} => FromLookback' # {})
        BY <4>1, <4>3, <4>4, <4>5, <4>6
      <4>8. QED
        BY <1>3, <2>1, <3>2, <3>3, <4>1, <4>2, <4>7
    <3>6. QED
      BY <3>4, <3>5
  <2>7. CASE pc'[w] = "failing" /\ UNCHANGED <<run, job, view>>
    BY <1>4, <1>5, <2>1, <2>7
  <2>8. QED
    BY <1>1, <1>8, <2>2, <2>3, <2>5, <2>6, <2>7, ExecuteLocal
<1>9. QED
  BY <1>6, <1>7, <1>8

\* While no process has lost its lock, the windows that moved the cursor leave no hole:
\* what changed after the first of them opened and on a day before the cursor is saved.
THEOREM WindowsLeaveNoGap == Spec => [](losses = 0 => NoGap)
<1>1. HarvestInv /\ ChainInv /\ [Next]_vars => ChainInv'
  BY ChainStep
<1>2. ASSUME HarvestInv, ChainInv, losses = 0 PROVE NoGap
  <2>1. SUFFICES ASSUME CloseStarts, NEW p \in Papers, \A s \in Scopes : p \in Matches[s],
                        ListedIn[p] # {},
                        \E r \in Harvested : DateOf(run[r].from) <= DateOf(stamp[p]),
                        DateOf(stamp[p]) < DateOf(watermark)
                 PROVE  \E r \in Harvested : <<p, ver[p]>> \in items[r]
    BY DEF NoGap, CloseStarts
  <2>2. TypeOK /\ DateOf(stamp[p]) \in Nat
    BY <1>2, DateOfType DEF HarvestInv, TypeInv, TypeOK
  <2>3. watermark # NoWatermark
    <3>1. PICK q \in Harvested : TRUE
      BY <2>1
    <3>2. run[q].to <= watermark /\ run[q].to \in Nat
      BY <1>2, <2>2 DEF HarvestInv, CursorInv, WatermarkIsNewestHarvest, TypeOK, RunRows, Harvested
    <3>3. QED
      BY <2>2, <3>2 DEF NoWatermark, TypeOK
  <2>4. PICK q \in Harvested : run[q].to = watermark
    BY <1>2, <2>3 DEF HarvestInv, CursorInv, WatermarkIsNewestHarvest
  <2>5. NoHole
    BY <1>2, <2>1 DEF ChainInv
  <2>6. PICK r \in Harvested :
            DateOf(run[r].from) <= DateOf(stamp[p]) /\ DateOf(stamp[p]) < DateOf(run[r].to)
    BY <2>1, <2>2, <2>4, <2>5 DEF NoHole
  <2>7. Due(p, r) /\ r \in Runs /\ run[r].status = "COMPLETE"
    BY <2>1, <2>6 DEF Due, Harvested
  <2>8. p \in Matches[progress[r].scope]
    BY <2>1, <2>2, <2>7 DEF TypeOK, Checkpoints
  <2>9. <<p, ver[p]>> \in items[r]
    BY <1>2, <2>7, <2>8, CompletedCovers
  <2>10. QED
    BY <2>9
<1>3. QED
  BY <1>1, <1>2, ChainStart, HarvestInvariant, PTL DEF Spec
=============================================================================
