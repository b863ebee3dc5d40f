------------------------- MODULE AnalysisRunProofs -------------------------
(***************************************************************************)
(* Proofs about AnalysisRun, for every set of versions, runs and workers   *)
(* and every bound.                                                        *)
(*                                                                         *)
(* A step changes the rows in one of a few ways and its worker in one of   *)
(* two: the first lemmas say which, the invariants are proved from them.   *)
(***************************************************************************)
EXTENDS AnalysisRun, FiniteSetTheorems, WellFoundedInduction, TLAPS

----------------------------------------------------------------------------
(* The inductive invariant *)

\* Steps at which a worker has a target in hand.
TargetSteps == {"download", "parse", "saveparsed", "analyze", "save", "failitem"}

\* The items of a run that was started are those of its targets.
ItemsAreTargets ==
    \A r \in Runs, v \in Versions :
        IF run[r].status = "ABSENT"
          THEN item[r][v] = NoItem
          ELSE item[r][v].status = "ABSENT" <=> v \notin Targets[r]

\* A worker past the opening has a run, and targets of that run to do.
WorkersHaveTargets ==
    \A w \in Workers :
        /\ pc[w] \notin {"idle", "open"} => run[job[w]].status # "ABSENT"
        /\ view[w].todo \subseteq Targets[job[w]]
        /\ pc[w] \in TargetSteps => view[w].todo # {}

\* The report of a finished run tells of its items, none of them in progress.
ReportsAgree ==
    \A r \in Runs : Terminal(r) =>
        /\ ItemsIn(r, "IN_PROGRESS") = {}
        /\ report[r] = ItemsIn(r, "FAILED")
        /\ run[r].status = "PARTIAL" <=> report[r] # {}

\* While no lock was lost, a worker holds the lock of its date ...
WorkersHoldLocks ==
    losses = 0 => \A w \in Workers : pc[w] # "idle" => holder[LogicalDate[job[w]]] = w

\* ... so that nobody restarts the run that it is about to fail.
NothingToFail ==
    losses = 0 => \A w \in Workers :
        pc[w] = "failrow" => ItemsIn(job[w], "IN_PROGRESS") = {}

RowsInv == TypeOK /\ ItemsAreTargets /\ WorkersHaveTargets /\ ReportsAgree
LockInv == WorkersHoldLocks /\ NothingToFail /\ FailedRunsAreSettled

----------------------------------------------------------------------------
(* Operators *)

\* A set of versions has a least one: the target in hand exists.
LEMMA LeastVersion ==
    ASSUME NEW S \in SUBSET Versions, S # {}
    PROVE  \E v \in S : \A u \in S : v <= u
<1>1. S \subseteq Nat
  BY VersionsAssumption
<1>2. PICK v \in S : \A u \in S : <<u, v>> \notin OpToRel(<, Nat)
  BY <1>1, NatLessThanWellFounded, WFMin
<1>3. \A u \in S : ~(u < v)
  BY <1>1, <1>2 DEF OpToRel
<1>4. QED
  BY <1>1, <1>3

LEMMA CurrentIsTarget ==
    ASSUME TypeOK, WorkersHaveTargets, NEW w \in Workers, view[w].todo # {}
    PROVE  /\ Current(w) \in view[w].todo
           /\ Current(w) \in Versions
           /\ Current(w) \in Targets[job[w]]
<1>1. view[w].todo \in SUBSET Versions
  BY DEF TypeOK, Views
<1>2. \E v \in view[w].todo : \A u \in view[w].todo : v <= u
  BY <1>1, LeastVersion
<1>3. Current(w) \in view[w].todo
  BY <1>2 DEF Current
<1>4. QED
  BY <1>1, <1>3 DEF WorkersHaveTargets

\* The number of targets of a run is what its row says is selected.
LEMMA SelectedType == \A r \in Runs : Cardinality(Targets[r]) \in Nat
  BY VersionsAssumption, FS_CardinalityType

LEMMA ItemRowsType ==
    /\ NoItem \in ItemRows
    /\ FreshItem \in ItemRows
    /\ DoneItem \in ItemRows
    /\ [FreshItem EXCEPT !.stage = "PDF_DOWNLOADED"] \in ItemRows
  BY DEF NoItem, FreshItem, DoneItem, ItemRows, Stages

LEMMA BlankViewType == BlankView \in Views /\ BlankView.todo = {}
  BY BoundsAssumption DEF BlankView, Views

LEMMA RevisionType == \A r \in Runs : Revision(r) \in {Canonical} \cup {Execution[q] : q \in Runs}
  BY DEF Revision

\* The identity under which a worker stores its analysis.
LEMMA IdentityType ==
    ASSUME TypeOK, WorkersHaveTargets, NEW w \in Workers, view[w].todo # {}
    PROVE  Identity(w) \in Identities
<1>1. Current(w) \in Versions
  BY CurrentIsTarget
<1>2. view[w].contract \in 1 .. Contracts /\ job[w] \in Runs
  BY DEF TypeOK, Views
<1>3. Revision(job[w]) \in {Canonical} \cup {Execution[q] : q \in Runs}
  BY <1>2, RevisionType
<1>4. QED
  BY <1>1, <1>2, <1>3 DEF Identity, Identities

----------------------------------------------------------------------------
(* What a step does to the rows, and to its worker *)

\* An analysis of a version that belongs to the revision of a run.
HasAnalysis(r, v) ==
    Operation[r] = "STRUCTURED" => \E a \in analyses : a.version = v /\ a.revision = Revision(r)

\* A statement writes the item in hand: what is settled stays as it is, and
\* what becomes completed has its analysis.
TargetWritten(w, row) ==
    /\ pc[w] \in TargetSteps \cup {"target"}
    /\ view[w].todo # {}
    /\ item' = [item EXCEPT ![job[w]][Current(w)] = row]
    /\ \/ row.status = Row(w).status
       \/ Row(w).status = "IN_PROGRESS" /\ row.status \in {"COMPLETED", "FAILED"}
    /\ row.status = "COMPLETED" =>
          \/ Row(w).status = "COMPLETED"
          \/ Operation[job[w]] = "STRUCTURED" =>
                \E a \in analyses' : a.version = Current(w) /\ a.revision = Revision(job[w])
    /\ UNCHANGED <<run, report>>

\* A run starts or restarts with an item for each target.
Opened(r, items) ==
    /\ run[r].status \in {"ABSENT", "RUNNING", "FAILED"}
    /\ run' = [run EXCEPT ![r] = [status |-> "RUNNING", selected |-> Cardinality(Targets[r])]]
    /\ item' = [item EXCEPT ![r] = items]
    /\ \A v \in Versions :
          /\ items[v].status = "ABSENT" <=> v \notin Targets[r]
          /\ items[v].status = "COMPLETED" <=> item[r][v].status = "COMPLETED"
    /\ UNCHANGED report

\* A run fails with the items that are in progress.
RunFailed(w) ==
    /\ run[job[w]].status = "RUNNING"
    /\ MarkFailed(job[w])
    /\ \/ item' = [item EXCEPT ![job[w]] = ItemsFailed(job[w])]
       \/ UNCHANGED item /\ pc[w] = "failrow"
    /\ UNCHANGED report

RowEffect(w) ==
    /\ \/ UNCHANGED <<run, item, report>>
       \/ \E row \in ItemRows : TargetWritten(w, row)
       \/ pc[w] = "open" /\ \E items \in [Versions -> ItemRows] : Opened(job[w], items)
       \/ RunFailed(w)
       \/ Publish(job[w])
    /\ analyses \subseteq analyses'
    /\ analyses' \subseteq Identities

\* The worker goes on with the same run.
Moved(w, step, local) ==
    /\ pc[w] # "idle"
    /\ pc[w] = "open" => run'[job[w]].status # "ABSENT"
    /\ pc' = [pc EXCEPT ![w] = step]
    /\ view' = [view EXCEPT ![w] = local]
    /\ UNCHANGED <<holder, job>>
    /\ local.todo \subseteq Targets[job[w]]
    /\ step \in TargetSteps => local.todo # {}
    /\ step = "failrow" => ItemsIn(job[w], "IN_PROGRESS") = {} /\ UNCHANGED item

WorkerEffect(w) ==
    \/ \E step \in Steps \ {"idle", "open"}, local \in Views : Moved(w, step, local)
    \/ pc[w] # "idle" /\ Leave(w)

WorldEffect ==
    /\ deployed' = deployed
    /\ faults' \in Nat
    /\ losses' = losses

Effect(w) == RowEffect(w) /\ WorkerEffect(w) /\ WorldEffect

\* A view with one field replaced is the same view with that field replaced.
LEMMA ViewFields ==
    ASSUME NEW l \in Views, NEW t \in SUBSET Versions, NEW b \in BOOLEAN
    PROVE  /\ [l EXCEPT !.todo = t] \in Views /\ [l EXCEPT !.todo = t].todo = t
           /\ [l EXCEPT !.known = b] \in Views /\ [l EXCEPT !.known = b].todo = l.todo
           /\ [l EXCEPT !.fatal = b] \in Views /\ [l EXCEPT !.fatal = b].todo = l.todo
           /\ [l EXCEPT !.todo = t, !.known = b] \in Views
           /\ [l EXCEPT !.todo = t, !.known = b].todo = t
  BY DEF Views

LEMMA AdvanceMoves ==
    ASSUME TypeOK, WorkersHaveTargets, NEW w \in Workers,
           NEW step \in Steps \ {"idle", "open", "failrow"},
           pc[w] # "idle",
           pc[w] = "open" => run'[job[w]].status # "ABSENT",
           step \in TargetSteps => view[w].todo # {},
           Advance(w, step)
    PROVE  WorkerEffect(w)
<1>1. view[w] \in Views /\ view' = [view EXCEPT ![w] = view[w]]
  BY DEF TypeOK, Advance
<1>2. view[w].todo \subseteq Targets[job[w]]
  BY DEF WorkersHaveTargets
<1>3. Moved(w, step, view[w])
  BY <1>1, <1>2 DEF Moved, Advance, Goto
<1>4. QED
  BY <1>1, <1>3 DEF WorkerEffect

LEMMA FailTargetMoves ==
    ASSUME TypeOK, WorkersHaveTargets, NEW w \in Workers, NEW fatal \in BOOLEAN,
           pc[w] \notin {"idle", "open"}, view[w].todo # {}, FailTarget(w, fatal)
    PROVE  WorkerEffect(w)
<1> DEFINE l == [view[w] EXCEPT !.fatal = fatal]
<1>1. view[w] \in Views /\ view \in [Workers -> Views]
  BY DEF TypeOK
<1>2. l \in Views /\ l.todo = view[w].todo
  BY <1>1, ViewFields
<1>3. view' = [view EXCEPT ![w] = l]
  BY <1>1 DEF FailTarget
<1> HIDE DEF l
<1>4. view[w].todo \subseteq Targets[job[w]]
  BY DEF WorkersHaveTargets
<1>5. Moved(w, "failitem", l)
  BY <1>2, <1>3, <1>4 DEF Moved, FailTarget, Goto
<1>6. "failitem" \in Steps \ {"idle", "open"}
  BY DEF Steps
<1>7. QED
  BY <1>2, <1>5, <1>6 DEF WorkerEffect

LEMMA NextTargetMoves ==
    ASSUME TypeOK, WorkersHaveTargets, NEW w \in Workers,
           pc[w] \notin {"idle", "open"}, NextTarget(w)
    PROVE  WorkerEffect(w)
<1> DEFINE t == view[w].todo \ {Current(w)}
           l == [view[w] EXCEPT !.todo = t, !.known = FALSE]
<1>1. view[w] \in Views /\ view \in [Workers -> Views]
  BY DEF TypeOK
<1>2. t \in SUBSET Versions /\ t \subseteq Targets[job[w]]
  BY <1>1 DEF Views, WorkersHaveTargets
<1>3. view' = [view EXCEPT ![w] = l]
  BY <1>1 DEF NextTarget
<1> HIDE DEF t
<1>4. l \in Views /\ l.todo = t
  BY <1>1, <1>2, ViewFields
<1> HIDE DEF l
<1>5. Moved(w, "target", l)
  BY <1>2, <1>3, <1>4 DEF Moved, NextTarget, Goto, TargetSteps
<1>6. "target" \in Steps \ {"idle", "open"}
  BY DEF Steps
<1>7. QED
  BY <1>4, <1>5, <1>6 DEF WorkerEffect

----------------------------------------------------------------------------
(* Each action has such an effect *)

\* Steps that write no row.
LEMMA SilentEffect ==
    ASSUME TypeOK, NEW w \in Workers, UNCHANGED rows
    PROVE  RowEffect(w)
  BY DEF RowEffect, rows, TypeOK

\* The opening of a run.
LEMMA OpenEffect ==
    ASSUME RowsInv, NEW w \in Workers, Open(w)
    PROVE  Effect(w)
<1> DEFINE r == job[w]
<1>1. TypeOK /\ WorkersHaveTargets /\ r \in Runs
  BY DEF RowsInv, TypeOK
<1>2. item[r] \in [Versions -> ItemRows] /\ run \in [Runs -> RunRows]
  BY <1>1 DEF TypeOK
<1>3. "reload" \in Steps \ {"idle", "open", "failrow"} /\ "reload" \notin TargetSteps
  BY DEF Steps, TargetSteps
<1>4. CASE StartRun(w)
  <2> DEFINE new == [v \in Versions |-> IF v \in Targets[r] THEN FreshItem ELSE NoItem]
  <2>1. new \in [Versions -> ItemRows]
    BY ItemRowsType
  <2>2. run[r].status = "ABSENT" /\ item' = [item EXCEPT ![r] = new]
    BY <1>4 DEF StartRun
  <2>3. \A v \in Versions : item[r][v] = NoItem
    BY <1>1, <2>2 DEF RowsInv, ItemsAreTargets
  <2>4. \A v \in Versions :
          /\ new[v].status = "ABSENT" <=> v \notin Targets[r]
          /\ new[v].status = "COMPLETED" <=> item[r][v].status = "COMPLETED"
    BY <2>3 DEF FreshItem, NoItem
  <2> HIDE DEF new
  <2>5. Opened(r, new)
    BY <1>4, <2>2, <2>4 DEF Opened, StartRun
  <2>6. RowEffect(w)
    BY <1>1, <1>4, <2>1, <2>5 DEF RowEffect, StartRun, TypeOK
  <2>7. run'[r].status # "ABSENT"
    BY <1>1, <1>2, <1>4 DEF StartRun
  <2>8. WorkerEffect(w)
    BY <1>1, <1>3, <1>4, <2>7, AdvanceMoves DEF StartRun
  <2>9. QED
    BY <1>1, <1>4, <2>6, <2>8 DEF Effect, WorldEffect, StartRun, world, TypeOK
<1>5. CASE ReturnExisting(w)
  <2>1. WorkerEffect(w)
    BY <1>5 DEF ReturnExisting, WorkerEffect
  <2>2. QED
    BY <1>1, <1>5, <2>1, SilentEffect DEF Effect, WorldEffect, ReturnExisting, world, TypeOK
<1>6. CASE RestartRun(w)
  <2> DEFINE new == RestartedItems(r)
  <2>1. new \in [Versions -> ItemRows]
    BY <1>2, ItemRowsType DEF RestartedItems
  <2>2. run[r].status \in {"RUNNING", "FAILED"} /\ item' = [item EXCEPT ![r] = new]
    BY <1>6 DEF RestartRun, MayRestart
  <2>3. \A v \in Versions : item[r][v].status = "ABSENT" <=> v \notin Targets[r]
    BY <1>1, <2>2 DEF RowsInv, ItemsAreTargets
  <2>4. \A v \in Versions :
          /\ new[v].status = "ABSENT" <=> v \notin Targets[r]
          /\ new[v].status = "COMPLETED" <=> item[r][v].status = "COMPLETED"
    BY <2>3 DEF RestartedItems, FreshItem, NoItem
  <2> HIDE DEF new
  <2>5. Opened(r, new)
    BY <1>6, <2>2, <2>4 DEF Opened, RestartRun
  <2>6. RowEffect(w)
    BY <1>1, <1>6, <2>1, <2>5 DEF RowEffect, RestartRun, TypeOK
  <2>7. run'[r].status # "ABSENT"
    BY <1>1, <1>2, <1>6 DEF RestartRun
  <2>8. WorkerEffect(w)
    BY <1>1, <1>3, <1>6, <2>7, AdvanceMoves DEF RestartRun
  <2>9. QED
    BY <1>1, <1>6, <2>6, <2>8 DEF Effect, WorldEffect, RestartRun, world, TypeOK
<1>7. QED
  BY <1>4, <1>5, <1>6 DEF Open

LEMMA ReloadEffect ==
    ASSUME RowsInv, NEW w \in Workers, Reload(w)
    PROVE  Effect(w)
<1> DEFINE t == Targets[job[w]] \ ItemsIn(job[w], "COMPLETED")
           l == [view[w] EXCEPT !.todo = t]
<1>1. TypeOK /\ WorkersHaveTargets /\ job[w] \in Runs
  BY DEF RowsInv, TypeOK
<1>2. view[w] \in Views /\ view \in [Workers -> Views]
  BY <1>1 DEF TypeOK
<1>3. t \in SUBSET Versions /\ t \subseteq Targets[job[w]]
  BY <1>1, VersionsAssumption
<1>4. view' = [view EXCEPT ![w] = l]
  BY <1>2 DEF Reload
<1> HIDE DEF t
<1>5. l \in Views /\ l.todo = t
  BY <1>2, <1>3, ViewFields
<1> HIDE DEF l
<1>6. Moved(w, "target", l)
  BY <1>3, <1>4, <1>5 DEF Moved, Reload, Goto, TargetSteps
<1>7. "target" \in Steps \ {"idle", "open"}
  BY DEF Steps
<1>8. WorkerEffect(w)
  BY <1>5, <1>6, <1>7 DEF WorkerEffect
<1>9. QED
  BY <1>1, <1>8, SilentEffect DEF Effect, WorldEffect, Reload, world, TypeOK

LEMMA FirstStepType == FirstStep \in Steps \ {"idle", "open", "failrow"}
  BY DEF FirstStep, Steps

LEMMA TakeTargetEffect ==
    ASSUME RowsInv, NEW w \in Workers, TakeTarget(w)
    PROVE  Effect(w)
<1>1. TypeOK /\ WorkersHaveTargets /\ job[w] \in Runs
  BY DEF RowsInv, TypeOK
<1>2. CASE EndOfTargets(w)
  <2>1. "finalize" \in Steps \ {"idle", "open", "failrow"} /\ "finalize" \notin TargetSteps
    BY DEF Steps, TargetSteps
  <2>2. WorkerEffect(w)
    BY <1>1, <1>2, <2>1, AdvanceMoves DEF EndOfTargets
  <2>3. QED
    BY <1>1, <1>2, <2>2, SilentEffect DEF Effect, WorldEffect, EndOfTargets, world, TypeOK
<1>3. CASE WithoutReuse(w)
  <2>1. WorkerEffect(w)
    BY <1>1, <1>3, FirstStepType, AdvanceMoves DEF WithoutReuse
  <2>2. QED
    BY <1>1, <1>3, <2>1, SilentEffect DEF Effect, WorldEffect, WithoutReuse, world, TypeOK
<1>4. CASE Attach(w)
  <2>1. /\ pc[w] = "target" /\ view[w].todo # {}
        /\ UNCHANGED <<world, run, report, analyses>>
    BY <1>4 DEF Attach
  <2>2. \/ NextTarget(w) /\ UNCHANGED item
        \/ /\ Row(w) = FreshItem /\ NextTarget(w) /\ SetItem(w, DoneItem)
           /\ Reusable(Current(w), view[w].contract) # {}
        \/ Advance(w, FirstStep) /\ UNCHANGED item
    BY <1>4 DEF Attach
  <2>3. WorkerEffect(w)
    BY <1>1, <2>1, <2>2, FirstStepType, AdvanceMoves, NextTargetMoves
  <2>4. RowEffect(w)
    <3>1. CASE UNCHANGED item
      BY <1>1, <2>1, <3>1, SilentEffect DEF rows
    <3>2. CASE /\ Row(w) = FreshItem /\ SetItem(w, DoneItem)
               /\ Reusable(Current(w), view[w].contract) # {}
      <4>1. ASSUME Operation[job[w]] = "STRUCTURED"
            PROVE  \E a \in analyses' : a.version = Current(w) /\ a.revision = Revision(job[w])
        <5>1. Revision(job[w]) = Canonical
          BY <1>4, <4>1 DEF Attach, Reuses, Revision
        <5>2. QED
          BY <2>1, <3>2, <5>1 DEF Reusable
      <4>2. TargetWritten(w, DoneItem)
        BY <2>1, <3>2, <4>1 DEF TargetWritten, SetItem, FreshItem, DoneItem
      <4>3. QED
        BY <1>1, <2>1, <4>2, ItemRowsType DEF RowEffect, TypeOK
    <3>3. QED
      BY <2>2, <3>1, <3>2
  <2>5. QED
    BY <1>1, <2>1, <2>3, <2>4 DEF Effect, WorldEffect, world, TypeOK
<1>5. CASE AttachRefused(w)
  <2>1. WorkerEffect(w)
    BY <1>5 DEF AttachRefused, WorkerEffect
  <2>2. QED
    BY <1>1, <1>5, <2>1, SilentEffect DEF Effect, WorldEffect, AttachRefused, world, TypeOK
<1>6. QED
  BY <1>2, <1>3, <1>4, <1>5 DEF TakeTarget

\* The item in hand belongs to a run that was started.
LEMMA RowType ==
    ASSUME RowsInv, NEW w \in Workers, view[w].todo # {}
    PROVE  /\ Row(w) \in ItemRows
           /\ pc[w] \notin {"idle", "open"} => Row(w).status # "ABSENT"
<1>1. TypeOK /\ WorkersHaveTargets /\ ItemsAreTargets
  BY DEF RowsInv
<1>2. job[w] \in Runs /\ Current(w) \in Versions /\ Current(w) \in Targets[job[w]]
  BY <1>1, CurrentIsTarget DEF TypeOK
<1>3. item[job[w]][Current(w)] \in ItemRows
  BY <1>1, <1>2 DEF TypeOK
<1>4. QED
  BY <1>1, <1>2, <1>3 DEF Row, WorkersHaveTargets, ItemsAreTargets

LEMMA StageField ==
    ASSUME NEW row \in ItemRows, NEW stage \in Stages
    PROVE  /\ [row EXCEPT !.stage = stage] \in ItemRows
           /\ [row EXCEPT !.stage = stage].status = row.status
  BY DEF ItemRows

LEMMA StatusField ==
    ASSUME NEW row \in ItemRows,
           NEW status \in {"ABSENT", "IN_PROGRESS", "COMPLETED", "FAILED"}
    PROVE  /\ [row EXCEPT !.status = status] \in ItemRows
           /\ [row EXCEPT !.status = status].status = status
  BY DEF ItemRows

LEMMA WorkEffect ==
    ASSUME RowsInv, NEW w \in Workers, Work(w)
    PROVE  Effect(w)
<1>1. TypeOK /\ WorkersHaveTargets /\ job[w] \in Runs
  BY DEF RowsInv, TypeOK
<1>2. {"parse", "saveparsed", "analyze", "save"} \subseteq Steps \ {"idle", "open", "failrow"}
  BY DEF Steps
<1>3. pc[w] \in TargetSteps /\ pc[w] \notin {"idle", "open"} /\ view[w].todo # {}
  <2>1. pc[w] \in TargetSteps
    BY DEF Work, Download, Parse, SaveParsed, Analyze, Save, TargetSteps
  <2>2. QED
    BY <1>1, <2>1 DEF WorkersHaveTargets, TargetSteps
<1>4. Row(w) \in ItemRows /\ Row(w).status # "ABSENT"
  BY <1>3, RowType
<1>5. CASE Download(w)
  <2> DEFINE new == [FreshItem EXCEPT !.stage = "PDF_DOWNLOADED"]
  <2>1. \/ Row(w) = FreshItem /\ SetItem(w, new) /\ Advance(w, "parse")
        \/ FailTarget(w, TRUE) /\ UNCHANGED item
    BY <1>5 DEF Download
  <2>2. UNCHANGED <<world, run, report, analyses>>
    BY <1>5 DEF Download
  <2>3. WorkerEffect(w)
    BY <1>1, <1>2, <1>3, <2>1, AdvanceMoves, FailTargetMoves
  <2>4. RowEffect(w)
    <3>1. CASE UNCHANGED item
      BY <1>1, <2>2, <3>1, SilentEffect DEF rows
    <3>2. CASE Row(w) = FreshItem /\ SetItem(w, new)
      <4>1. new \in ItemRows /\ new.status = "IN_PROGRESS" /\ FreshItem.status = "IN_PROGRESS"
        BY ItemRowsType DEF FreshItem
      <4> HIDE DEF new
      <4>2. TargetWritten(w, new)
        BY <1>3, <2>2, <3>2, <4>1 DEF TargetWritten, SetItem
      <4>3. QED
        BY <1>1, <2>2, <4>1, <4>2 DEF RowEffect, TypeOK
    <3>3. QED
      BY <2>1, <3>1, <3>2
  <2>5. QED
    BY <1>1, <2>2, <2>3, <2>4 DEF Effect, WorldEffect, world, TypeOK
<1>6. CASE Parse(w)
  <2>1. WorkerEffect(w)
    BY <1>1, <1>2, <1>3, <1>6, AdvanceMoves, FailTargetMoves DEF Parse
  <2>2. QED
    BY <1>1, <1>6, <2>1, SilentEffect DEF Effect, WorldEffect, Parse, world, TypeOK
<1>7. CASE SaveParsed(w)
  <2> DEFINE new == [Row(w) EXCEPT !.stage = "PARSED"]
  <2>1. new \in ItemRows /\ new.status = Row(w).status
    BY <1>4, StageField DEF Stages
  <2>2. item' = [item EXCEPT ![job[w]][Current(w)] = new]
    <3>1. item' = [item EXCEPT ![job[w]][Current(w)].stage = "PARSED"]
      BY <1>7 DEF SaveParsed
    <3>2. QED
      BY <3>1 DEF Row
  <2> HIDE DEF new
  <2>3. UNCHANGED <<world, run, report, analyses>> /\ Advance(w, "analyze")
    BY <1>7 DEF SaveParsed
  <2>4. TargetWritten(w, new)
    BY <1>3, <2>1, <2>2, <2>3 DEF TargetWritten
  <2>5. WorkerEffect(w)
    BY <1>1, <1>2, <1>3, <2>3, AdvanceMoves
  <2>6. QED
    BY <1>1, <2>1, <2>3, <2>4, <2>5 DEF Effect, RowEffect, WorldEffect, world, TypeOK
<1>8. CASE Analyze(w)
  <2>1. CASE FailTarget(w, TRUE)
    BY <1>1, <1>3, <1>8, <2>1, SilentEffect, FailTargetMoves
       DEF Effect, WorldEffect, Analyze, world, TypeOK
  <2>2. CASE /\ Goto(w, "save")
             /\ view' = [view EXCEPT ![w].known = Identity(w) \in analyses]
             /\ UNCHANGED <<holder, job>>
    <3> DEFINE b == Identity(w) \in analyses
               l == [view[w] EXCEPT !.known = b]
    <3>1. view[w] \in Views /\ view \in [Workers -> Views] /\ b \in BOOLEAN
      BY <1>1 DEF TypeOK
    <3>2. view' = [view EXCEPT ![w] = l]
      BY <2>2, <3>1
    <3> HIDE DEF b
    <3>3. l \in Views /\ l.todo = view[w].todo
      BY <3>1, ViewFields
    <3> HIDE DEF l
    <3>4. Moved(w, "save", l)
      BY <1>1, <1>3, <2>2, <3>2, <3>3 DEF Moved, Goto, WorkersHaveTargets
    <3>5. WorkerEffect(w)
      BY <1>2, <3>3, <3>4 DEF WorkerEffect
    <3>6. QED
      BY <1>1, <1>8, <3>5, SilentEffect DEF Effect, WorldEffect, Analyze, world, TypeOK
  <2>3. QED
    BY <1>8, <2>1, <2>2 DEF Analyze
<1>9. CASE Save(w)
  <2>1. CASE /\ Accepted(w)
             /\ analyses' = analyses \cup {Identity(w)}
             /\ SetItem(w, DoneItem)
             /\ NextTarget(w)
    <3>1. UNCHANGED <<world, run, report>>
      BY <1>9 DEF Save
    <3>2. Row(w).status \in {"IN_PROGRESS", "COMPLETED"}
      BY <1>4, <2>1 DEF Accepted, ItemRows
    <3>3. TargetWritten(w, DoneItem)
      <4>1. Identity(w).version = Current(w) /\ Identity(w).revision = Revision(job[w])
        BY DEF Identity
      <4>2. QED
        BY <1>3, <2>1, <3>1, <3>2, <4>1 DEF TargetWritten, SetItem, DoneItem
    <3>4. analyses \subseteq analyses' /\ analyses' \subseteq Identities
      BY <1>1, <1>3, <2>1, IdentityType DEF TypeOK
    <3>5. WorkerEffect(w)
      BY <1>1, <1>3, <2>1, NextTargetMoves
    <3>6. QED
      BY <1>1, <3>1, <3>3, <3>4, <3>5, ItemRowsType
         DEF Effect, RowEffect, WorldEffect, world, TypeOK
  <2>2. CASE FailTarget(w, TRUE) /\ UNCHANGED <<analyses, item>>
    <3>1. UNCHANGED rows /\ UNCHANGED world
      BY <1>9, <2>2 DEF Save, rows
    <3>2. QED
      BY <1>1, <1>3, <2>2, <3>1, SilentEffect, FailTargetMoves
         DEF Effect, WorldEffect, world, TypeOK
  <2>3. QED
    BY <1>9, <2>1, <2>2 DEF Save
<1>10. QED
  BY <1>5, <1>6, <1>7, <1>8, <1>9 DEF Work

\* A worker that leaves, or goes to a step that needs no target.
LEMMA EndMoves ==
    ASSUME TypeOK, WorkersHaveTargets, NEW w \in Workers, pc[w] \notin {"idle", "open"},
           Leave(w) \/ Advance(w, "failrun")
    PROVE  WorkerEffect(w)
<1>1. "failrun" \in Steps \ {"idle", "open", "failrow"} /\ "failrun" \notin TargetSteps
  BY DEF Steps, TargetSteps
<1>2. QED
  BY <1>1, AdvanceMoves DEF WorkerEffect

LEMMA EndEffect ==
    ASSUME RowsInv, NEW w \in Workers, End(w)
    PROVE  Effect(w)
<1>1. TypeOK /\ WorkersHaveTargets /\ job[w] \in Runs
  BY DEF RowsInv, TypeOK
<1>2. pc[w] \notin {"idle", "open"}
  BY DEF End, FailItem, FailRun, FailNoItems, FailRow, Finalize, FinalizeRefused
<1>3. CASE FailItem(w)
  <2> DEFINE new == [Row(w) EXCEPT !.status = "FAILED"]
  <2>1. view[w].todo # {} /\ pc[w] \in TargetSteps
    BY <1>1, <1>3 DEF FailItem, WorkersHaveTargets, TargetSteps
  <2>2. Row(w) \in ItemRows
    BY <2>1, RowType
  <2>3. UNCHANGED <<world, run, report, analyses>>
    BY <1>3 DEF FailItem
  <2>4. \/ /\ Row(w).status = "IN_PROGRESS"
           /\ SetItem(w, new)
           /\ Advance(w, "failrun") \/ NextTarget(w)
        \/ Advance(w, "failrun") /\ UNCHANGED item
    BY <1>3 DEF FailItem
  <2>5. WorkerEffect(w)
    BY <1>1, <1>2, <2>4, EndMoves, NextTargetMoves
  <2>6. RowEffect(w)
    <3>1. CASE UNCHANGED item
      BY <1>1, <2>3, <3>1, SilentEffect DEF rows
    <3>2. CASE Row(w).status = "IN_PROGRESS" /\ SetItem(w, new)
      <4>1. new \in ItemRows /\ new.status = "FAILED"
        BY <2>2, StatusField
      <4> HIDE DEF new
      <4>2. TargetWritten(w, new)
        BY <2>1, <2>3, <3>2, <4>1 DEF TargetWritten, SetItem
      <4>3. QED
        BY <1>1, <2>3, <4>1, <4>2 DEF RowEffect, TypeOK
    <3>3. QED
      BY <2>4, <3>1, <3>2
  <2>7. QED
    BY <1>1, <2>3, <2>5, <2>6 DEF Effect, WorldEffect, world, TypeOK
<1>4. CASE FailRun(w)
  <2>1. Leave(w) /\ UNCHANGED <<world, report, analyses>>
    BY <1>4 DEF FailRun
  <2>2. RunFailed(w) \/ UNCHANGED rows
    BY <1>4, <2>1 DEF FailRun, RunFailed, MayFail, rows
  <2>3. RowEffect(w)
    BY <1>1, <2>1, <2>2, SilentEffect DEF RowEffect, TypeOK
  <2>4. QED
    BY <1>1, <1>2, <2>1, <2>3, EndMoves DEF Effect, WorldEffect, world, TypeOK
<1>5. CASE FailNoItems(w)
  <2>1. Moved(w, "failrow", view[w])
    BY <1>1, <1>2, <1>5 DEF FailNoItems, Moved, Advance, Goto, rows, TypeOK,
       WorkersHaveTargets, TargetSteps
  <2>2. WorkerEffect(w)
    BY <1>1, <2>1 DEF WorkerEffect, TypeOK, Steps
  <2>3. QED
    BY <1>1, <1>5, <2>2, SilentEffect DEF Effect, WorldEffect, FailNoItems, world, TypeOK
<1>6. CASE FailRow(w)
  <2>1. Leave(w) /\ UNCHANGED <<world, item, report, analyses>>
    BY <1>6 DEF FailRow
  <2>2. RunFailed(w) \/ UNCHANGED rows
    BY <1>6, <2>1 DEF FailRow, RunFailed, MayFail, rows
  <2>3. RowEffect(w)
    BY <1>1, <2>1, <2>2, SilentEffect DEF RowEffect, TypeOK
  <2>4. QED
    BY <1>1, <1>2, <2>1, <2>3, EndMoves DEF Effect, WorldEffect, world, TypeOK
<1>7. CASE Finalize(w)
  BY <1>1, <1>2, <1>7, EndMoves
     DEF Finalize, Publish, Effect, RowEffect, WorldEffect, world, TypeOK
<1>8. CASE FinalizeRefused(w)
  BY <1>1, <1>2, <1>8, EndMoves, SilentEffect
     DEF FinalizeRefused, Effect, WorldEffect, world, TypeOK
<1>9. QED
  BY <1>3, <1>4, <1>5, <1>6, <1>7, <1>8 DEF End

\* Everything adverse but the loss of a lock.
LEMMA AdversityEffect ==
    ASSUME RowsInv, NEW w \in Workers, Adversity(w)
    PROVE  Effect(w) \/ LoseLock(w)
<1>1. TypeOK /\ WorkersHaveTargets /\ job[w] \in Runs
  BY DEF RowsInv, TypeOK
<1>2. pc[w] \in TargetSteps => pc[w] \notin {"idle", "open"} /\ view[w].todo # {}
  BY <1>1 DEF WorkersHaveTargets, TargetSteps
<1>3. faults + 1 \in Nat
  BY <1>1 DEF TypeOK
<1>4. CASE PaperFails(w)
  <2>1. FailTarget(w, FALSE) /\ UNCHANGED <<world, rows>> /\ pc[w] \in TargetSteps
    BY <1>4 DEF PaperFails, TargetSteps
  <2>2. QED
    BY <1>1, <1>2, <2>1, FailTargetMoves, SilentEffect DEF Effect, WorldEffect, world, TypeOK
<1>5. CASE ConfigurationFails(w)
  <2>1. FailTarget(w, TRUE) /\ UNCHANGED <<deployed, losses, rows>> /\ pc[w] \in TargetSteps
    BY <1>5 DEF ConfigurationFails, TargetSteps
  <2>2. QED
    BY <1>1, <1>2, <1>3, <1>5, <2>1, FailTargetMoves, SilentEffect
       DEF Effect, WorldEffect, ConfigurationFails
<1>6. CASE FinalizeAnswerLost(w)
  <2>1. pc[w] \notin {"idle", "open"}
    BY <1>6 DEF FinalizeAnswerLost
  <2>2. QED
    BY <1>1, <1>3, <1>6, <2>1, EndMoves
       DEF FinalizeAnswerLost, Publish, Effect, RowEffect, WorldEffect, TypeOK
<1>7. CASE WriteFails(w)
  <2>1. \/ pc[w] \in TargetSteps /\ FailTarget(w, TRUE)
        \/ pc[w] \notin {"idle", "open"} /\ Advance(w, "failrun")
    BY <1>7 DEF WriteFails, TargetSteps
  <2>2. WorkerEffect(w)
    BY <1>1, <1>2, <2>1, EndMoves, FailTargetMoves
  <2>3. QED
    BY <1>1, <1>3, <1>7, <2>2, SilentEffect DEF Effect, WorldEffect, WriteFails
<1>8. CASE Crash(w)
  BY <1>1, <1>3, <1>8, SilentEffect DEF Crash, Effect, WorkerEffect, WorldEffect
<1>9. QED
  BY <1>4, <1>5, <1>6, <1>7, <1>8 DEF Adversity

\* A step is the effect of a worker, the beginning of an attempt, the loss of a
\* lock, a deployment or a stutter.
LEMMA StepEffect ==
    ASSUME RowsInv, [Next]_vars
    PROVE  \/ \E w \in Workers : Effect(w)
           \/ \E w \in Workers : LoseLock(w)
           \/ \E w \in Workers, r \in Runs : Begin(w, r)
           \/ Deploy
           \/ UNCHANGED vars
<1>1. ASSUME NEW w \in Workers, Step(w) PROVE Effect(w)
  BY <1>1, OpenEffect, ReloadEffect, TakeTargetEffect, WorkEffect, EndEffect DEF Step
<1>2. ASSUME NEW w \in Workers, Adversity(w) PROVE Effect(w) \/ LoseLock(w)
  BY <1>2, AdversityEffect
<1>3. QED
  BY <1>1, <1>2 DEF Next

----------------------------------------------------------------------------
(* Types *)

LEMMA InitType == Init => TypeOK
<1> SUFFICES ASSUME Init PROVE TypeOK
  OBVIOUS
<1>1. AnyRun \in Runs
  BY RunsAssumption DEF AnyRun
<1>2. run \in [Runs -> RunRows] /\ item \in [Runs -> [Versions -> ItemRows]]
  BY ItemRowsType DEF Init, RunRows
<1>3. view \in [Workers -> Views] /\ job \in [Workers -> Runs] /\ pc \in [Workers -> Steps]
  BY <1>1, BlankViewType DEF Init, Steps
<1>4. deployed \in 1 .. Contracts /\ faults \in Nat /\ losses \in Nat
  BY BoundsAssumption DEF Init
<1>5. QED
  BY <1>2, <1>3, <1>4 DEF Init, TypeOK

\* Failing a run fails the items in progress and leaves the others.
LEMMA ItemsFailedType ==
    ASSUME TypeOK, NEW r \in Runs
    PROVE  /\ ItemsFailed(r) \in [Versions -> ItemRows]
           /\ \A v \in Versions :
                 /\ ItemsFailed(r)[v].status # "IN_PROGRESS"
                 /\ item[r][v].status = "IN_PROGRESS" => ItemsFailed(r)[v].status = "FAILED"
                 /\ item[r][v].status # "IN_PROGRESS" => ItemsFailed(r)[v] = item[r][v]
<1>1. \A v \in Versions : item[r][v] \in ItemRows
  BY DEF TypeOK
<1>2. ASSUME NEW v \in Versions
      PROVE  /\ [item[r][v] EXCEPT !.status = "FAILED"] \in ItemRows
             /\ [item[r][v] EXCEPT !.status = "FAILED"].status = "FAILED"
  BY <1>1, StatusField
<1>3. ASSUME NEW v \in Versions, item[r][v].status = "IN_PROGRESS"
      PROVE  ItemsFailed(r)[v] \in ItemRows /\ ItemsFailed(r)[v].status = "FAILED"
  BY <1>2, <1>3 DEF ItemsFailed
<1>4. ASSUME NEW v \in Versions, item[r][v].status # "IN_PROGRESS"
      PROVE  ItemsFailed(r)[v] = item[r][v]
  BY <1>4 DEF ItemsFailed
<1>5. \E f : ItemsFailed(r) = [v \in Versions |-> f[v]]
  <2> DEFINE g == ItemsFailed(r)
  <2>1. g = [v \in Versions |-> g[v]]
    BY DEF ItemsFailed
  <2>2. QED
    BY <2>1
<1>6. \A v \in Versions : ItemsFailed(r)[v] \in ItemRows
  BY <1>1, <1>3, <1>4
<1>7. QED
  BY <1>3, <1>4, <1>5, <1>6

LEMMA RunStatusType ==
    ASSUME NEW row \in RunRows, NEW status \in {"ABSENT", "RUNNING", "FAILED", "COMPLETE", "PARTIAL"}
    PROVE  /\ [row EXCEPT !.status = status] \in RunRows
           /\ [row EXCEPT !.status = status].status = status
           /\ [row EXCEPT !.status = status].selected = row.selected
  BY DEF RunRows

\* How the status of a run changes when it fails, and when it is published.
LEMMA MarkFailedRun ==
    ASSUME TypeOK, NEW r \in Runs, MarkFailed(r)
    PROVE  /\ run' \in [Runs -> RunRows]
           /\ run'[r].status = "FAILED"
           /\ \A q \in Runs : q # r => run'[q] = run[q]
<1> DEFINE new == [run[r] EXCEPT !.status = "FAILED"]
<1>1. new \in RunRows /\ new.status = "FAILED"
  BY RunStatusType DEF TypeOK
<1>2. run' = [run EXCEPT ![r] = new]
  BY DEF MarkFailed
<1> HIDE DEF new
<1>3. QED
  BY <1>1, <1>2 DEF TypeOK

LEMMA PublishedRun ==
    ASSUME TypeOK, NEW r \in Runs, Publish(r)
    PROVE  /\ run' \in [Runs -> RunRows]
           /\ report' \in [Runs -> (SUBSET Versions) \cup {NoReport}]
           /\ run[r].status = "RUNNING"
           /\ ItemsIn(r, "IN_PROGRESS") = {}
           /\ run'[r].status \in {"COMPLETE", "PARTIAL"}
           /\ run'[r].status = "PARTIAL" <=> report'[r] # {}
           /\ report'[r] = ItemsIn(r, "FAILED")
           /\ \A q \in Runs : q # r => run'[q] = run[q] /\ report'[q] = report[q]
<1> DEFINE s == IF ItemsIn(r, "FAILED") = {} THEN "COMPLETE" ELSE "PARTIAL"
           new == [run[r] EXCEPT !.status = s]
<1>1. s \in {"COMPLETE", "PARTIAL"} /\ (s = "PARTIAL" <=> ItemsIn(r, "FAILED") # {})
  OBVIOUS
<1>2. run' = [run EXCEPT ![r] = new]
  BY DEF Publish
<1> HIDE DEF s
<1>3. new \in RunRows /\ new.status = s
  <2>1. run[r] \in RunRows /\ s \in {"ABSENT", "RUNNING", "FAILED", "COMPLETE", "PARTIAL"}
    BY <1>1 DEF TypeOK
  <2>2. QED
    BY <2>1, RunStatusType
<1> HIDE DEF new
<1>4. run' \in [Runs -> RunRows] /\ run'[r].status = s /\ \A q \in Runs : q # r => run'[q] = run[q]
  BY <1>2, <1>3 DEF TypeOK
<1>5. ItemsIn(r, "FAILED") \in SUBSET Versions
  BY DEF ItemsIn
<1>6. report' = [report EXCEPT ![r] = ItemsIn(r, "FAILED")]
  BY DEF Publish
<1>7. /\ report' \in [Runs -> (SUBSET Versions) \cup {NoReport}]
      /\ report'[r] = ItemsIn(r, "FAILED")
      /\ \A q \in Runs : q # r => report'[q] = report[q]
  BY <1>5, <1>6 DEF TypeOK
<1>8. run[r].status = "RUNNING" /\ ItemsIn(r, "IN_PROGRESS") = {}
  BY DEF Publish, Finalizable
<1>9. QED
  BY <1>1, <1>4, <1>7, <1>8

\* What a target's row becomes, and that the others stay.
LEMMA WrittenRow ==
    ASSUME TypeOK, WorkersHaveTargets, NEW w \in Workers, NEW row \in ItemRows,
           TargetWritten(w, row)
    PROVE  /\ item' \in [Runs -> [Versions -> ItemRows]]
           /\ job[w] \in Runs /\ Current(w) \in Versions /\ Current(w) \in Targets[job[w]]
           /\ item'[job[w]][Current(w)] = row
           /\ \A r \in Runs, v \in Versions :
                 (r # job[w] \/ v # Current(w)) => item'[r][v] = item[r][v]
<1>1. job[w] \in Runs /\ Current(w) \in Versions /\ Current(w) \in Targets[job[w]]
  BY CurrentIsTarget DEF TargetWritten, TypeOK
<1>2. item' = [item EXCEPT ![job[w]][Current(w)] = row]
  BY DEF TargetWritten
<1>3. QED
  BY <1>1, <1>2 DEF TypeOK

LEMMA RowTypes ==
    ASSUME TypeOK, WorkersHaveTargets, NEW w \in Workers, RowEffect(w)
    PROVE  /\ run' \in [Runs -> RunRows]
           /\ item' \in [Runs -> [Versions -> ItemRows]]
           /\ report' \in [Runs -> (SUBSET Versions) \cup {NoReport}]
           /\ analyses' \subseteq Identities
<1>1. job[w] \in Runs
  BY DEF TypeOK
<1>2. CASE UNCHANGED <<run, item, report>>
  BY <1>2 DEF TypeOK, RowEffect
<1>3. CASE \E row \in ItemRows : TargetWritten(w, row)
  BY <1>3, WrittenRow DEF TargetWritten, TypeOK, RowEffect
<1>4. ASSUME NEW items \in [Versions -> ItemRows], Opened(job[w], items)
      PROVE  /\ run' \in [Runs -> RunRows]
             /\ item' \in [Runs -> [Versions -> ItemRows]]
             /\ report' \in [Runs -> (SUBSET Versions) \cup {NoReport}]
  <2>1. [status |-> "RUNNING", selected |-> Cardinality(Targets[job[w]])] \in RunRows
    BY <1>1, SelectedType DEF RunRows
  <2>2. QED
    BY <1>4, <2>1 DEF Opened, TypeOK
<1>5. CASE RunFailed(w)
  <2>1. run' \in [Runs -> RunRows]
    BY <1>1, <1>5, MarkFailedRun DEF RunFailed
  <2>2. item' \in [Runs -> [Versions -> ItemRows]]
    BY <1>1, <1>5, ItemsFailedType DEF RunFailed, TypeOK
  <2>3. QED
    BY <1>5, <2>1, <2>2 DEF RunFailed, TypeOK, RowEffect
<1>6. CASE Publish(job[w])
  BY <1>1, <1>6, PublishedRun DEF Publish, TypeOK, RowEffect
<1>7. QED
  BY <1>2, <1>3, <1>4, <1>5, <1>6 DEF RowEffect

LEMMA LeaveType ==
    ASSUME TypeOK, NEW w \in Workers, Leave(w)
    PROVE  /\ pc' \in [Workers -> Steps]
           /\ view' \in [Workers -> Views]
           /\ job' \in [Workers -> Runs]
           /\ holder' \in [Dates -> Workers \cup {Nobody}]
<1>1. "idle" \in Steps
  BY DEF Steps
<1>2. QED
  BY <1>1, BlankViewType DEF Leave, Goto, TypeOK

LEMMA WorkerTypes ==
    ASSUME TypeOK, NEW w \in Workers, WorkerEffect(w)
    PROVE  /\ pc' \in [Workers -> Steps]
           /\ view' \in [Workers -> Views]
           /\ job' \in [Workers -> Runs]
           /\ holder' \in [Dates -> Workers \cup {Nobody}]
<1>1. ASSUME NEW step \in Steps, NEW local \in Views, Moved(w, step, local)
      PROVE  /\ pc' \in [Workers -> Steps]
             /\ view' \in [Workers -> Views]
             /\ job' \in [Workers -> Runs]
             /\ holder' \in [Dates -> Workers \cup {Nobody}]
  BY <1>1 DEF Moved, TypeOK
<1>2. QED
  BY <1>1, LeaveType DEF WorkerEffect

LEMMA BeginType ==
    ASSUME TypeOK, NEW w \in Workers, NEW r \in Runs, Begin(w, r)
    PROVE  /\ TypeOK'
           /\ view'[w].todo = {}
<1> DEFINE l == [BlankView EXCEPT !.contract = deployed]
<1>1. l \in Views /\ l.todo = {}
  <2>1. deployed \in 1 .. Contracts
    BY DEF TypeOK
  <2>2. QED
    BY <2>1 DEF BlankView, Views
<1>2. view' = [view EXCEPT ![w] = l]
  BY DEF Begin
<1> HIDE DEF l
<1>3. view' \in [Workers -> Views] /\ view'[w].todo = {}
  BY <1>1, <1>2 DEF TypeOK
<1>4. LogicalDate[r] \in Dates /\ "open" \in Steps
  BY DEF Dates, Steps
<1>5. QED
  BY <1>3, <1>4 DEF Begin, Goto, TypeOK, world, rows

LEMMA TypeStep ==
    ASSUME RowsInv, [Next]_vars
    PROVE  TypeOK'
<1>1. TypeOK /\ WorkersHaveTargets
  BY DEF RowsInv
<1>2. ASSUME NEW w \in Workers, Effect(w) PROVE TypeOK'
  BY <1>1, <1>2, RowTypes, WorkerTypes DEF Effect, WorldEffect, TypeOK
<1>3. ASSUME NEW w \in Workers, LoseLock(w) PROVE TypeOK'
  <2>1. UNCHANGED <<deployed, faults, rows, pc, job, view>> /\ losses' = losses + 1
    BY <1>3 DEF LoseLock
  <2>2. holder' \in [Dates -> Workers \cup {Nobody}]
    BY <1>1, <1>3 DEF LoseLock, TypeOK
  <2>3. QED
    BY <1>1, <2>1, <2>2 DEF TypeOK, rows
<1>4. ASSUME Deploy PROVE TypeOK'
  <2>1. deployed' \in 1 .. Contracts
    BY <1>1, <1>4, BoundsAssumption DEF Deploy, TypeOK
  <2>2. QED
    BY <1>1, <1>4, <2>1 DEF Deploy, TypeOK, rows
<1>5. ASSUME UNCHANGED vars PROVE TypeOK'
  BY <1>1, <1>5 DEF vars, TypeOK
<1>6. QED
  BY <1>1, <1>2, <1>3, <1>4, <1>5, StepEffect, BeginType

----------------------------------------------------------------------------
(* Items, reports and what workers have to do *)

LEMMA InitRows == Init => RowsInv
<1> SUFFICES ASSUME Init PROVE RowsInv
  OBVIOUS
<1>1. TypeOK
  BY InitType
<1>2. ItemsAreTargets
  BY DEF Init, ItemsAreTargets
<1>3. WorkersHaveTargets
  BY BlankViewType DEF Init, WorkersHaveTargets, TargetSteps
<1>4. ReportsAgree
  BY DEF Init, ReportsAgree, Terminal
<1>5. QED
  BY <1>1, <1>2, <1>3, <1>4 DEF RowsInv

\* A step writes the rows of one run only, and none becomes absent.
LEMMA OneRunWritten ==
    ASSUME RowsInv, NEW w \in Workers, RowEffect(w), NEW r \in Runs
    PROVE  /\ r # job[w] => run'[r] = run[r] /\ item'[r] = item[r] /\ report'[r] = report[r]
           /\ run[r].status # "ABSENT" => run'[r].status # "ABSENT"
<1>1. TypeOK /\ WorkersHaveTargets /\ job[w] \in Runs
  BY DEF RowsInv, TypeOK
<1>2. CASE UNCHANGED <<run, item, report>>
  BY <1>2
<1>3. CASE \E row \in ItemRows : TargetWritten(w, row)
  BY <1>1, <1>3 DEF TargetWritten, TypeOK
<1>4. CASE \E items \in [Versions -> ItemRows] : Opened(job[w], items)
  BY <1>1, <1>4 DEF Opened, TypeOK
<1>5. CASE RunFailed(w)
  <2>1. r # job[w] => item'[r] = item[r] /\ report'[r] = report[r]
    BY <1>1, <1>5 DEF RunFailed, TypeOK
  <2>2. QED
    BY <1>1, <1>5, <2>1, MarkFailedRun DEF RunFailed
<1>6. CASE Publish(job[w])
  BY <1>1, <1>6, PublishedRun DEF Publish
<1>7. QED
  BY <1>2, <1>3, <1>4, <1>5, <1>6 DEF RowEffect

LEMMA ItemsAreTargetsEffect ==
    ASSUME RowsInv, NEW w \in Workers, RowEffect(w)
    PROVE  ItemsAreTargets'
<1>1. TypeOK /\ WorkersHaveTargets /\ ItemsAreTargets /\ job[w] \in Runs
  BY DEF RowsInv, TypeOK
<1> DEFINE Fits(r, v) == IF run[r].status = "ABSENT"
                           THEN item[r][v] = NoItem
                           ELSE item[r][v].status = "ABSENT" <=> v \notin Targets[r]
<1> SUFFICES ASSUME NEW r \in Runs, NEW v \in Versions PROVE Fits(r, v)'
  BY DEF ItemsAreTargets
<1>2. Fits(r, v)
  BY <1>1 DEF ItemsAreTargets
<1>3. CASE r # job[w]
  BY <1>2, <1>3, OneRunWritten
<1>4. CASE r = job[w] /\ UNCHANGED <<run, item, report>>
  BY <1>2, <1>4
<1>5. ASSUME r = job[w], NEW row \in ItemRows, TargetWritten(w, row) PROVE Fits(r, v)'
  <2>1. run[r].status # "ABSENT" /\ UNCHANGED run
    BY <1>1, <1>5 DEF TargetWritten, WorkersHaveTargets, TargetSteps
  <2>2. item[r][v].status = "ABSENT" <=> item'[r][v].status = "ABSENT"
    <3>1. CASE v = Current(w)
      <4>1. item'[r][v] = row
        BY <1>1, <1>5, <3>1, WrittenRow
      <4>2. Row(w) = item[r][v] /\ v \in Targets[r]
        BY <1>1, <1>5, <3>1, WrittenRow DEF Row
      <4>3. QED
        BY <1>2, <1>5, <2>1, <4>1, <4>2 DEF TargetWritten
    <3>2. CASE v # Current(w)
      BY <1>1, <1>5, <3>2, WrittenRow
    <3>3. QED
      BY <3>1, <3>2
  <2>3. QED
    BY <1>2, <2>1, <2>2
<1>6. ASSUME r = job[w], NEW items \in [Versions -> ItemRows], Opened(r, items)
      PROVE  Fits(r, v)'
  <2>1. run'[r].status = "RUNNING" /\ item'[r] = items
    BY <1>1, <1>6 DEF Opened, TypeOK
  <2>2. QED
    BY <1>6, <2>1 DEF Opened
<1>7. CASE r = job[w] /\ RunFailed(w)
  <2>1. run'[r].status = "FAILED" /\ run[r].status = "RUNNING"
    BY <1>1, <1>7, MarkFailedRun DEF RunFailed
  <2>2. item'[r][v].status = "ABSENT" <=> item[r][v].status = "ABSENT"
    <3>1. CASE item' = [item EXCEPT ![r] = ItemsFailed(r)]
      <4>1. item'[r] = ItemsFailed(r)
        BY <1>1, <3>1 DEF TypeOK
      <4>2. QED
        BY <1>1, <4>1, ItemsFailedType
    <3>2. QED
      BY <1>7, <3>1 DEF RunFailed
  <2>3. QED
    BY <1>2, <2>1, <2>2
<1>8. CASE r = job[w] /\ Publish(r)
  BY <1>1, <1>2, <1>8, PublishedRun DEF Publish
<1>9. QED
  BY <1>3, <1>4, <1>5, <1>6, <1>7, <1>8 DEF RowEffect

LEMMA WorkersHaveTargetsEffect ==
    ASSUME RowsInv, NEW w \in Workers, RowEffect(w), WorkerEffect(w)
    PROVE  WorkersHaveTargets'
<1>1. TypeOK /\ WorkersHaveTargets
  BY DEF RowsInv
<1> SUFFICES ASSUME NEW u \in Workers
             PROVE  /\ pc'[u] \notin {"idle", "open"} => run'[job'[u]].status # "ABSENT"
                    /\ view'[u].todo \subseteq Targets[job'[u]]
                    /\ pc'[u] \in TargetSteps => view'[u].todo # {}
  BY DEF WorkersHaveTargets
<1>2. /\ pc[u] \notin {"idle", "open"} => run[job[u]].status # "ABSENT"
      /\ view[u].todo \subseteq Targets[job[u]]
      /\ pc[u] \in TargetSteps => view[u].todo # {}
      /\ job[u] \in Runs
  BY <1>1 DEF WorkersHaveTargets, TypeOK
<1>3. run[job[u]].status # "ABSENT" => run'[job[u]].status # "ABSENT"
  BY <1>2, OneRunWritten
<1>4. ASSUME NEW step \in Steps \ {"idle", "open"}, NEW local \in Views, Moved(w, step, local)
      PROVE  /\ pc'[u] \notin {"idle", "open"} => run'[job'[u]].status # "ABSENT"
             /\ view'[u].todo \subseteq Targets[job'[u]]
             /\ pc'[u] \in TargetSteps => view'[u].todo # {}
  <2>1. CASE u # w
    BY <1>1, <1>2, <1>3, <1>4, <2>1 DEF Moved, TypeOK
  <2>2. CASE u = w
    BY <1>1, <1>2, <1>3, <1>4, <2>2 DEF Moved, TypeOK
  <2>3. QED
    BY <2>1, <2>2
<1>5. CASE Leave(w)
  <2>1. job'[u] = job[u]
    BY <1>5 DEF Leave
  <2>2. CASE u # w
    BY <1>1, <1>2, <1>3, <1>5, <2>1, <2>2 DEF Leave, Goto, TypeOK
  <2>3. CASE u = w
    <3>1. pc'[u] = "idle" /\ view'[u] = BlankView
      BY <1>1, <1>5, <2>3 DEF Leave, Goto, TypeOK
    <3>2. QED
      BY <3>1, BlankViewType DEF TargetSteps
  <2>4. QED
    BY <2>2, <2>3
<1>6. QED
  BY <1>4, <1>5 DEF WorkerEffect

LEMMA WorkersHaveTargetsBegin ==
    ASSUME RowsInv, NEW w \in Workers, NEW r \in Runs, Begin(w, r)
    PROVE  WorkersHaveTargets'
<1>1. TypeOK /\ WorkersHaveTargets
  BY DEF RowsInv
<1>2. view'[w].todo = {}
  BY <1>1, BeginType
<1>3. pc'[w] = "open" /\ job'[w] = r /\ UNCHANGED run
  BY <1>1 DEF Begin, Goto, TypeOK, rows
<1>4. ASSUME NEW u \in Workers, u # w
      PROVE  pc'[u] = pc[u] /\ job'[u] = job[u] /\ view'[u] = view[u]
  BY <1>1, <1>4 DEF Begin, Goto, TypeOK
<1>5. QED
  BY <1>1, <1>2, <1>3, <1>4 DEF WorkersHaveTargets, TargetSteps

\* The statuses of the items of a run decide the sets that a report lists.
LEMMA SameStatuses ==
    ASSUME NEW r \in Runs, \A v \in Versions : item'[r][v].status = item[r][v].status
    PROVE  /\ ItemsIn(r, "IN_PROGRESS")' = ItemsIn(r, "IN_PROGRESS")
           /\ ItemsIn(r, "FAILED")' = ItemsIn(r, "FAILED")
  BY DEF ItemsIn

\* What a step does to an item: completed items stay completed, items of a
\* finished run stay what they are.
LEMMA ItemChanges ==
    ASSUME RowsInv, NEW w \in Workers, RowEffect(w), NEW r \in Runs, NEW v \in Versions
    PROVE  /\ item[r][v].status = "COMPLETED" => item'[r][v].status = "COMPLETED"
           /\ Terminal(r) => item'[r][v].status = item[r][v].status
<1>1. TypeOK /\ WorkersHaveTargets /\ ReportsAgree /\ job[w] \in Runs
  BY DEF RowsInv, TypeOK
<1>2. Terminal(r) => item[r][v].status # "IN_PROGRESS"
  BY <1>1 DEF ReportsAgree, ItemsIn
<1>3. CASE r # job[w] \/ UNCHANGED item
  BY <1>3, OneRunWritten
<1>4. ASSUME r = job[w], NEW row \in ItemRows, TargetWritten(w, row)
      PROVE  /\ item[r][v].status = "COMPLETED" => item'[r][v].status = "COMPLETED"
             /\ Terminal(r) => item'[r][v].status = item[r][v].status
  <2>1. CASE v # Current(w)
    BY <1>1, <1>4, <2>1, WrittenRow
  <2>2. CASE v = Current(w)
    <3>1. item'[r][v] = row /\ Row(w) = item[r][v]
      BY <1>1, <1>4, <2>2, WrittenRow DEF Row
    <3>2. QED
      BY <1>2, <1>4, <3>1 DEF TargetWritten
  <2>3. QED
    BY <2>1, <2>2
<1>5. ASSUME r = job[w], NEW items \in [Versions -> ItemRows], Opened(r, items)
      PROVE  /\ item[r][v].status = "COMPLETED" => item'[r][v].status = "COMPLETED"
             /\ ~Terminal(r)
  <2>1. item'[r] = items
    BY <1>1, <1>5 DEF Opened, TypeOK
  <2>2. QED
    BY <1>5, <2>1 DEF Opened, Terminal
<1>6. CASE r = job[w] /\ RunFailed(w) /\ item' = [item EXCEPT ![r] = ItemsFailed(r)]
  <2>1. item'[r] = ItemsFailed(r)
    BY <1>1, <1>6 DEF TypeOK
  <2>2. ~Terminal(r)
    BY <1>6 DEF RunFailed, Terminal
  <2>3. QED
    BY <1>1, <2>1, <2>2, ItemsFailedType
<1>7. Publish(r) \/ (RunFailed(w) /\ UNCHANGED item) => UNCHANGED item
  BY DEF Publish
<1>8. QED
  BY <1>3, <1>4, <1>5, <1>6, <1>7 DEF RowEffect, RunFailed

\* A finished run keeps its row and its report.
LEMMA TerminalRowsKept ==
    ASSUME RowsInv, NEW w \in Workers, RowEffect(w), NEW r \in Runs, Terminal(r)
    PROVE  run'[r] = run[r] /\ report'[r] = report[r]
<1>1. CASE r # job[w]
  BY <1>1, OneRunWritten
<1>2. CASE r = job[w]
  <2>1. ~Publish(r) /\ ~RunFailed(w) /\ \A items : ~Opened(r, items)
    BY <1>2 DEF Publish, Finalizable, RunFailed, Opened, Terminal
  <2>2. UNCHANGED <<run, report>>
    BY <1>2, <2>1 DEF RowEffect, TargetWritten
  <2>3. QED
    BY <2>2
<1>3. QED
  BY <1>1, <1>2

LEMMA ReportsAgreeEffect ==
    ASSUME RowsInv, NEW w \in Workers, RowEffect(w)
    PROVE  ReportsAgree'
<1>1. TypeOK /\ WorkersHaveTargets /\ ReportsAgree /\ job[w] \in Runs
  BY DEF RowsInv, TypeOK
<1> SUFFICES ASSUME NEW r \in Runs, Terminal(r)'
             PROVE  /\ ItemsIn(r, "IN_PROGRESS")' = {}
                    /\ report'[r] = ItemsIn(r, "FAILED")'
                    /\ run'[r].status = "PARTIAL" <=> report'[r] # {}
  BY DEF ReportsAgree
<1>2. CASE Terminal(r)
  <2>1. \A v \in Versions : item'[r][v].status = item[r][v].status
    BY <1>2, ItemChanges
  <2>2. run'[r] = run[r] /\ report'[r] = report[r]
    BY <1>2, TerminalRowsKept
  <2>3. QED
    BY <1>1, <1>2, <2>1, <2>2, SameStatuses DEF ReportsAgree
<1>3. CASE ~Terminal(r)
  <2>1. run'[r].status # run[r].status
    BY <1>3 DEF Terminal
  <2>2. r = job[w]
    BY <2>1, OneRunWritten
  <2>3. ~(UNCHANGED run)
    BY <2>1
  <2>4. ~RunFailed(w)
    <3>1. RunFailed(w) => run'[r].status = "FAILED"
      BY <1>1, <2>2, MarkFailedRun DEF RunFailed
    <3>2. QED
      BY <3>1 DEF Terminal
  <2>5. ASSUME NEW items PROVE ~Opened(r, items)
    <3>1. Opened(r, items) => run'[r].status = "RUNNING"
      BY <1>1 DEF Opened, TypeOK
    <3>2. QED
      BY <3>1 DEF Terminal
  <2>6. Publish(r)
    BY <2>2, <2>3, <2>4, <2>5 DEF RowEffect, TargetWritten
  <2>7. UNCHANGED item
    BY <2>6 DEF Publish
  <2>8. QED
    BY <1>1, <2>6, <2>7, PublishedRun, SameStatuses
<1>4. QED
  BY <1>2, <1>3

\* Begin, LoseLock and Deploy leave the rows alone.
LEMMA OtherSteps ==
    ASSUME \/ \E w \in Workers : LoseLock(w)
           \/ \E w \in Workers, r \in Runs : Begin(w, r)
           \/ Deploy
           \/ UNCHANGED vars
    PROVE  UNCHANGED rows
  BY DEF LoseLock, Begin, Deploy, vars, rows

LEMMA RowsStep ==
    ASSUME RowsInv, [Next]_vars
    PROVE  RowsInv'
<1>1. TypeOK'
  BY TypeStep
<1>2. CASE \E w \in Workers : Effect(w)
  BY <1>1, <1>2, ItemsAreTargetsEffect, WorkersHaveTargetsEffect, ReportsAgreeEffect
     DEF Effect, RowsInv
<1>3. CASE UNCHANGED rows
  <2>1. ItemsAreTargets'
    BY <1>3 DEF RowsInv, ItemsAreTargets, rows
  <2>2. ReportsAgree'
    BY <1>3 DEF RowsInv, ReportsAgree, Terminal, ItemsIn, rows
  <2>3. CASE UNCHANGED <<pc, job, view>>
    BY <1>1, <1>3, <2>1, <2>2, <2>3 DEF RowsInv, WorkersHaveTargets, rows
  <2>4. CASE \E w \in Workers, r \in Runs : Begin(w, r)
    BY <1>1, <2>1, <2>2, <2>4, WorkersHaveTargetsBegin DEF RowsInv
  <2>5. (\E w \in Workers : LoseLock(w)) \/ Deploy \/ UNCHANGED vars => UNCHANGED <<pc, job, view>>
    BY DEF LoseLock, Deploy, vars
  <2>6. QED
    BY <1>2, <2>3, <2>4, <2>5, StepEffect
<1>4. QED
  BY <1>2, <1>3, StepEffect, OtherSteps

\* Type correctness, and what the rows of runs, items and reports say of each
\* other and of the workers, hold in every state.
LEMMA RowsInvariant == Spec => []RowsInv
<1>1. RowsInv /\ [Next]_vars => RowsInv'
  BY RowsStep
<1>2. QED
  BY InitRows, <1>1, PTL DEF Spec

\* Every variable of the analysis model keeps its type: the rows of runs and
\* items, the stored analyses, the locks and the state of each attempt.
THEOREM TypeCorrect == Spec => []TypeOK
<1>1. RowsInv => TypeOK
  BY DEF RowsInv
<1>2. QED
  BY <1>1, RowsInvariant, PTL

\* Retries, crashes and strays never undo finished work: completed items stay
\* completed, a finished run keeps its status, its report and its outcomes.
THEOREM FinishedWorkKept == Spec => FinishedWorkIsKept
<1>1. ASSUME RowsInv, [Next]_vars, NEW r \in Runs
      PROVE  /\ ItemsIn(r, "COMPLETED") \subseteq ItemsIn(r, "COMPLETED")'
             /\ Terminal(r) =>
                   /\ run'[r] = run[r]
                   /\ report'[r] = report[r]
                   /\ \A v \in Versions : item'[r][v].status = item[r][v].status
  <2>1. CASE \E w \in Workers : Effect(w)
    BY <1>1, <2>1, ItemChanges, TerminalRowsKept DEF Effect, ItemsIn
  <2>2. CASE UNCHANGED rows
    BY <2>2 DEF rows, ItemsIn
  <2>3. QED
    BY <1>1, <2>1, <2>2, StepEffect, OtherSteps
<1>2. RowsInv /\ [Next]_vars =>
        [\A r \in Runs :
            /\ ItemsIn(r, "COMPLETED") \subseteq ItemsIn(r, "COMPLETED")'
            /\ Terminal(r) =>
                  /\ run'[r] = run[r]
                  /\ report'[r] = report[r]
                  /\ \A v \in Versions : item'[r][v].status = item[r][v].status]_vars
  BY <1>1
<1>3. QED
  BY <1>2, RowsInvariant, PTL DEF Spec, FinishedWorkIsKept

----------------------------------------------------------------------------
(* Locks: a run that failed is settled *)

LEMMA InitLocks == Init => LockInv
  BY DEF Init, LockInv, WorkersHoldLocks, NothingToFail, FailedRunsAreSettled

LEMMA LocksEffect ==
    ASSUME TypeOK, WorkersHoldLocks, NEW w \in Workers, WorkerEffect(w), WorldEffect
    PROVE  WorkersHoldLocks'
<1> SUFFICES ASSUME losses = 0, NEW u \in Workers, pc'[u] # "idle"
             PROVE  holder'[LogicalDate[job'[u]]] = u
  BY DEF WorkersHoldLocks, WorldEffect
<1>1. ASSUME NEW step, NEW local, Moved(w, step, local)
      PROVE  holder'[LogicalDate[job'[u]]] = u
  <2>1. pc[u] # "idle"
    BY <1>1 DEF Moved, TypeOK
  <2>2. QED
    BY <1>1, <2>1 DEF Moved, WorkersHoldLocks
<1>2. CASE Leave(w)
  <2>1. u # w /\ pc[u] # "idle"
    BY <1>2 DEF Leave, Goto, TypeOK
  <2>2. holder[LogicalDate[job[u]]] = u
    BY <2>1 DEF WorkersHoldLocks
  <2>3. LogicalDate[job[u]] \in Dates /\ job' = job
    BY <1>2 DEF TypeOK, Dates, Leave
  <2>4. QED
    BY <1>2, <2>1, <2>2, <2>3 DEF Leave
<1>3. QED
  BY <1>1, <1>2 DEF WorkerEffect

LEMMA LocksBegin ==
    ASSUME TypeOK, WorkersHoldLocks, NEW w \in Workers, NEW r \in Runs, Begin(w, r)
    PROVE  WorkersHoldLocks'
<1> SUFFICES ASSUME losses = 0, NEW u \in Workers, pc'[u] # "idle"
             PROVE  holder'[LogicalDate[job'[u]]] = u
  BY DEF WorkersHoldLocks, Begin, world
<1>1. LogicalDate[r] \in Dates
  BY DEF Dates
<1>2. CASE u = w
  BY <1>1, <1>2 DEF Begin, TypeOK
<1>3. CASE u # w
  <2>1. pc[u] # "idle" /\ job'[u] = job[u]
    BY <1>3 DEF Begin, Goto, TypeOK
  <2>2. holder[LogicalDate[job[u]]] = u /\ LogicalDate[job[u]] \in Dates
    BY <2>1 DEF WorkersHoldLocks, Dates, TypeOK
  <2>3. LogicalDate[job[u]] # LogicalDate[r]
    BY <2>2, WorkersAssumption DEF Begin
  <2>4. QED
    BY <2>1, <2>2, <2>3 DEF Begin, TypeOK
<1>4. QED
  BY <1>2, <1>3

\* Two workers at work on the same run would hold the same lock.
LEMMA OneWorkerPerRun ==
    ASSUME WorkersHoldLocks, losses = 0, NEW u \in Workers, NEW w \in Workers,
           pc[u] # "idle", pc[w] # "idle", job[u] = job[w]
    PROVE  u = w
  BY DEF WorkersHoldLocks

LEMMA NothingToFailEffect ==
    ASSUME RowsInv, LockInv, NEW w \in Workers, Effect(w)
    PROVE  NothingToFail'
<1>1. TypeOK /\ WorkersHoldLocks /\ NothingToFail /\ losses' = losses
  BY DEF RowsInv, LockInv, Effect, WorldEffect
<1> SUFFICES ASSUME losses = 0, NEW u \in Workers, pc'[u] = "failrow"
             PROVE  ItemsIn(job[u], "IN_PROGRESS")' = {}
  BY <1>1 DEF NothingToFail
<1>2. CASE u # w
  <2>1. pc[u] = "failrow" /\ job'[u] = job[u] /\ pc[w] # "idle" /\ job[u] \in Runs
    BY <1>1, <1>2 DEF Effect, WorkerEffect, Moved, Leave, Goto, TypeOK
  <2>2. job[u] # job[w]
    BY <1>1, <1>2, <2>1, OneWorkerPerRun
  <2>3. item'[job[u]] = item[job[u]]
    BY <2>1, <2>2, OneRunWritten DEF Effect
  <2>4. ItemsIn(job[u], "IN_PROGRESS") = {}
    BY <1>1, <2>1 DEF NothingToFail
  <2>5. QED
    BY <2>1, <2>3, <2>4 DEF ItemsIn
<1>3. CASE u = w
  <2>1. ~Leave(w)
    BY <1>1, <1>3 DEF Leave, Goto, TypeOK
  <2>2. PICK step \in Steps, local \in Views : Moved(w, step, local)
    BY <2>1 DEF Effect, WorkerEffect
  <2>3. step = "failrow" /\ job' = job
    BY <1>1, <1>3, <2>2 DEF Moved, TypeOK
  <2>4. QED
    BY <1>3, <2>2, <2>3 DEF Moved, ItemsIn
<1>4. QED
  BY <1>2, <1>3

LEMMA NothingToFailBegin ==
    ASSUME TypeOK, NothingToFail, NEW w \in Workers, NEW r \in Runs, Begin(w, r)
    PROVE  NothingToFail'
<1> SUFFICES ASSUME losses = 0, NEW u \in Workers, pc'[u] = "failrow"
             PROVE  ItemsIn(job[u], "IN_PROGRESS")' = {}
  BY DEF NothingToFail, Begin, world
<1>1. u # w /\ pc[u] = "failrow" /\ job'[u] = job[u] /\ UNCHANGED item
  BY DEF Begin, Goto, TypeOK, rows
<1>2. QED
  BY <1>1 DEF NothingToFail, ItemsIn

LEMMA SettledEffect ==
    ASSUME RowsInv, LockInv, NEW w \in Workers, Effect(w)
    PROVE  FailedRunsAreSettled'
<1>1. TypeOK /\ WorkersHaveTargets /\ NothingToFail /\ FailedRunsAreSettled /\ losses' = losses
  BY DEF RowsInv, LockInv, Effect, WorldEffect
<1>2. job[w] \in Runs
  BY <1>1 DEF TypeOK
<1> SUFFICES ASSUME losses = 0, NEW r \in Runs, run'[r].status = "FAILED", NEW v \in Versions
             PROVE  item'[r][v].status # "IN_PROGRESS"
  BY <1>1 DEF FailedRunsAreSettled, ItemsIn
<1>3. RowEffect(w)
  BY DEF Effect
<1>4. run[r].status = "FAILED" => item[r][v].status # "IN_PROGRESS"
  BY <1>1 DEF FailedRunsAreSettled, ItemsIn
<1>5. CASE r # job[w] \/ UNCHANGED <<run, item, report>>
  BY <1>3, <1>4, <1>5, OneRunWritten
<1>6. ASSUME r = job[w], NEW row \in ItemRows, TargetWritten(w, row)
      PROVE  item'[r][v].status # "IN_PROGRESS"
  <2>1. item[r][v].status # "IN_PROGRESS"
    BY <1>4, <1>6 DEF TargetWritten
  <2>2. v = Current(w) => Row(w) = item[r][v] /\ item'[r][v] = row
    BY <1>1, <1>6, WrittenRow DEF Row
  <2>3. v # Current(w) => item'[r][v] = item[r][v]
    BY <1>1, <1>6, WrittenRow
  <2>4. QED
    BY <1>6, <2>1, <2>2, <2>3 DEF TargetWritten
<1>7. ASSUME r = job[w], NEW items, Opened(r, items)
      PROVE  FALSE
  BY <1>1, <1>7 DEF Opened, TypeOK
<1>8. CASE r = job[w] /\ RunFailed(w)
  <2>1. CASE item' = [item EXCEPT ![r] = ItemsFailed(r)]
    <3>1. item'[r] = ItemsFailed(r)
      BY <1>1, <2>1 DEF TypeOK
    <3>2. QED
      BY <1>1, <3>1, ItemsFailedType
  <2>2. CASE UNCHANGED item /\ pc[w] = "failrow"
    BY <1>1, <1>8, <2>2 DEF NothingToFail, ItemsIn
  <2>3. QED
    BY <1>8, <2>1, <2>2 DEF RunFailed
<1>9. CASE r = job[w] /\ Publish(r)
  BY <1>1, <1>9, PublishedRun
<1>10. QED
  BY <1>3, <1>5, <1>6, <1>7, <1>8, <1>9 DEF RowEffect

LEMMA LockStep ==
    ASSUME RowsInv, LockInv, [Next]_vars
    PROVE  LockInv'
<1>1. TypeOK /\ WorkersHoldLocks /\ NothingToFail /\ FailedRunsAreSettled
  BY DEF RowsInv, LockInv
<1>2. ASSUME NEW w \in Workers, Effect(w) PROVE LockInv'
  BY <1>1, <1>2, LocksEffect, NothingToFailEffect, SettledEffect DEF Effect, LockInv
<1>3. ASSUME NEW w \in Workers, LoseLock(w) PROVE LockInv'
  <2>1. losses' # 0
    BY <1>1, <1>3 DEF LoseLock, TypeOK
  <2>2. QED
    BY <2>1 DEF LockInv, WorkersHoldLocks, NothingToFail, FailedRunsAreSettled
<1>4. ASSUME NEW w \in Workers, NEW r \in Runs, Begin(w, r) PROVE LockInv'
  <2>1. FailedRunsAreSettled'
    BY <1>1, <1>4 DEF Begin, FailedRunsAreSettled, ItemsIn, world, rows
  <2>2. QED
    BY <1>1, <1>4, <2>1, LocksBegin, NothingToFailBegin DEF LockInv
<1>5. CASE Deploy \/ UNCHANGED vars
  <2>1. UNCHANGED <<losses, rows, holder, pc, job, view>>
    BY <1>5 DEF Deploy, vars, rows
  <2>2. QED
    BY <1>1, <2>1
       DEF LockInv, WorkersHoldLocks, NothingToFail, FailedRunsAreSettled, ItemsIn, rows
<1>6. QED
  BY <1>2, <1>3, <1>4, <1>5, StepEffect

LEMMA LockInvariant == Spec => []LockInv
<1>1. RowsInv /\ LockInv /\ [Next]_vars => LockInv'
  BY LockStep
<1>2. QED
  BY InitLocks, <1>1, RowsInvariant, PTL DEF Spec

\* A finished run, its items and its report tell one story, whatever processes
\* without their lock go on writing, and a run that failed is settled.
THEOREM FinishedRunsCorrect == Spec => []FinishedRunsAgree
<1>1. RowsInv /\ LockInv => FinishedRunsAgree
  <2> SUFFICES ASSUME RowsInv, LockInv PROVE FinishedRunsAgree
    OBVIOUS
  <2>1. ASSUME NEW r \in Runs, Terminal(r)
        PROVE  /\ ItemsIn(r, "COMPLETED") \cup ItemsIn(r, "FAILED") = Targets[r]
               /\ report[r] = ItemsIn(r, "FAILED")
               /\ run[r].status = "PARTIAL" <=> report[r] # {}
    <3>1. ReportsAgree /\ ItemsAreTargets /\ TypeOK /\ Targets[r] \subseteq Versions
      BY VersionsAssumption DEF RowsInv
    <3>2. \A v \in Versions :
             /\ item[r][v].status \in {"ABSENT", "IN_PROGRESS", "COMPLETED", "FAILED"}
             /\ item[r][v].status # "IN_PROGRESS"
             /\ item[r][v].status = "ABSENT" <=> v \notin Targets[r]
      BY <2>1, <3>1 DEF ReportsAgree, ItemsAreTargets, ItemsIn, TypeOK, ItemRows, Terminal
    <3>3. ItemsIn(r, "COMPLETED") \cup ItemsIn(r, "FAILED") = Targets[r]
      BY <3>1, <3>2 DEF ItemsIn
    <3>4. QED
      BY <2>1, <3>1, <3>3 DEF ReportsAgree
  <2>2. QED
    BY <2>1 DEF FinishedRunsAgree, LockInv
<1>2. QED
  BY <1>1, RowsInvariant, LockInvariant, PTL

----------------------------------------------------------------------------
(* Completed items have an analysis *)

\* An item completes with an analysis of its version and its revision.
LEMMA CompletedWithAnalysis ==
    ASSUME RowsInv, NEW w \in Workers, RowEffect(w), NEW r \in Runs, NEW v \in Versions,
           item'[r][v].status = "COMPLETED"
    PROVE  item[r][v].status = "COMPLETED" \/ HasAnalysis(r, v)'
<1>1. TypeOK /\ WorkersHaveTargets /\ job[w] \in Runs
  BY DEF RowsInv, TypeOK
<1>2. CASE r # job[w] \/ UNCHANGED item
  BY <1>2, OneRunWritten
<1>3. ASSUME r = job[w], NEW row \in ItemRows, TargetWritten(w, row)
      PROVE  item[r][v].status = "COMPLETED" \/ HasAnalysis(r, v)'
  <2>1. CASE v # Current(w)
    BY <1>1, <1>3, <2>1, WrittenRow
  <2>2. CASE v = Current(w)
    <3>1. item'[r][v] = row /\ Row(w) = item[r][v]
      BY <1>1, <1>3, <2>2, WrittenRow DEF Row
    <3>2. QED
      BY <1>3, <2>2, <3>1 DEF TargetWritten, HasAnalysis, Revision
  <2>3. QED
    BY <2>1, <2>2
<1>4. ASSUME r = job[w], NEW items \in [Versions -> ItemRows], Opened(r, items)
      PROVE  item[r][v].status = "COMPLETED"
  BY <1>1, <1>4 DEF Opened, TypeOK
<1>5. CASE r = job[w] /\ item' = [item EXCEPT ![r] = ItemsFailed(r)]
  <2>1. item'[r] = ItemsFailed(r)
    BY <1>1, <1>5 DEF TypeOK
  <2>2. QED
    BY <1>1, <2>1, ItemsFailedType
<1>6. QED
  BY <1>2, <1>3, <1>4, <1>5 DEF RowEffect, RunFailed, Publish

LEMMA BackedStep ==
    ASSUME RowsInv, CompletedItemsAreBacked, [Next]_vars
    PROVE  CompletedItemsAreBacked'
<1> SUFFICES ASSUME NEW r \in Runs, NEW v \in Versions, item'[r][v].status = "COMPLETED"
             PROVE  HasAnalysis(r, v)'
  BY DEF CompletedItemsAreBacked, ItemsIn, HasAnalysis, Revision
<1>1. item[r][v].status = "COMPLETED" => HasAnalysis(r, v)
  BY DEF CompletedItemsAreBacked, ItemsIn, HasAnalysis
<1>2. ASSUME NEW w \in Workers, Effect(w) PROVE HasAnalysis(r, v)'
  <2>1. analyses \subseteq analyses'
    BY <1>2 DEF Effect, RowEffect
  <2>2. HasAnalysis(r, v) => HasAnalysis(r, v)'
    BY <2>1 DEF HasAnalysis, Revision
  <2>3. QED
    BY <1>1, <1>2, <2>2, CompletedWithAnalysis DEF Effect
<1>3. CASE UNCHANGED rows
  BY <1>1, <1>3 DEF rows, HasAnalysis, Revision
<1>4. QED
  BY <1>2, <1>3, StepEffect, OtherSteps

\* Publication finds an analysis for every completed paper of a structured run:
\* one of its own revision for a reprocess, a canonical one otherwise.
THEOREM CompletedItemsBacked == Spec => []CompletedItemsAreBacked
<1>1. Init => CompletedItemsAreBacked
  BY DEF Init, CompletedItemsAreBacked, ItemsIn, NoItem
<1>2. RowsInv /\ CompletedItemsAreBacked /\ [Next]_vars => CompletedItemsAreBacked'
  BY BackedStep
<1>3. QED
  BY <1>1, <1>2, RowsInvariant, PTL DEF Spec
=============================================================================
