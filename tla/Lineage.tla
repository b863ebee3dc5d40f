------------------------------ MODULE Lineage ------------------------------
(***************************************************************************)
(* The lineage of a paper: build_lineage_snapshot walks breadth first from *)
(* the root over the published relations to predecessors, within bounds on *)
(* depth, nodes and edges; the snapshot is stored; every request reads it  *)
(* back and walks again over the stored edges, with bounds of its own.     *)
(*                                                                         *)
(* The two walks of the source are one here: they differ in the edges they *)
(* follow and in the order in which edges that are not part of the tree    *)
(* are added.  One action takes one paper from the queue.  The queue is    *)
(* what has been found and not expanded yet, in the order of "place", the  *)
(* insertion order of the dictionary selected_depths.                      *)
(*                                                                         *)
(* Identifiers of papers and edges and the values of relation types are    *)
(* numbers, in the order in which the code sorts their text.               *)
(***************************************************************************)
EXTENDS Integers, FiniteSets

CONSTANTS
    Papers,     \* graph entities of papers: numbers
    Root,       \* the paper whose lineage is built
    AsOf,       \* the date of the snapshot, a number
    NoDate,     \* for a paper without a publication date
    Permitted,  \* relation types that lead to a predecessor
    Calendars,  \* what the publication dates of the papers may be
    Corpora,    \* what the published edges may be
    Built,      \* bounds with which a snapshot may be built
    Requested   \* bounds with which a request may come

Bounds == [depth : Nat \ {0}, nodes : Nat \ {0}, edges : Nat \ {0}]
Edges == [id : Nat, src : Papers, dst : Papers, type : Nat, status : {"UNVERIFIED", "HUMAN_VERIFIED", "REJECTED"}]

ASSUME PapersAssumption == Papers \subseteq Nat /\ IsFiniteSet(Papers) /\ Root \in Papers
ASSUME DatesAssumption ==
    /\ AsOf \in Nat
    /\ NoDate \notin Nat
    /\ Calendars \subseteq [Papers -> Nat \cup {NoDate}]
ASSUME CorporaAssumption ==
    /\ Permitted \subseteq Nat
    /\ \A c \in Corpora :
          /\ c \subseteq Edges
          /\ IsFiniteSet(c)
          /\ \A e, f \in c : e.id = f.id => e = f
ASSUME BoundsAssumption == Built \subseteq Bounds /\ Requested \subseteq Bounds

VARIABLES
    date, corpus,   \* the published papers and relations
    phase,      \* what is going on
    limits,     \* the bounds of the walk
    edges,      \* the edges it may follow
    depth,      \* the papers it has found, with their distance from the root
    place,      \* and their number in the order of finding
    expanded,   \* those it has taken from the queue
    tree,       \* the edges by which they were found
    truncated,  \* whether it left something out
    stored,     \* the snapshot
    answer      \* the answer to the last request

walk == <<limits, edges, depth, place, expanded, tree, truncated>>
lineageVars == <<date, corpus, phase, walk, stored, answer>>

Nothing == [depth |-> <<>>, place |-> <<>>, edges |-> {}, limits |-> <<>>,
            truncated |-> FALSE, verified |-> FALSE]

\* A request starts from the rows of the snapshot, and from no relation of a type
\* that does not lead to a predecessor.
ReadEdges == {e \in stored.edges : e.type \in Permitted}
Nodes(s) == DOMAIN s.depth

NoLimits == [depth |-> 1, nodes |-> 1, edges |-> 1]

LineageInit ==
    /\ date \in Calendars
    /\ corpus \in Corpora
    /\ phase = "published"
    /\ limits = NoLimits
    /\ edges = {}
    /\ depth = <<>>
    /\ place = <<>>
    /\ expanded = {}
    /\ tree = {}
    /\ truncated = FALSE
    /\ stored = Nothing
    /\ answer = Nothing

----------------------------------------------------------------------------
(* What a lineage is made of *)

EligiblePapers == {p \in Papers : date[p] = NoDate \/ date[p] <= AsOf}

\* A relation to a paper of a later date is no relation to a predecessor.
AgainstTime(e) ==
    /\ NoDate \notin {date[e.src], date[e.dst]}
    /\ date[e.dst] > date[e.src]

Eligible ==
    {e \in corpus : /\ e.type \in Permitted
                    /\ e.status # "REJECTED"
                    /\ {e.src, e.dst} \subseteq EligiblePapers
                    /\ ~AgainstTime(e)}

\* Papers without a date come last.
DateKey(p) == IF date[p] = NoDate THEN AsOf + 1 ELSE date[p]

\* Mutant: one of the two walks goes by identifiers alone.
BeforeByIdInAnswers(p, q) == \/ phase # "projecting" /\ DateKey(p) < DateKey(q)
                             \/ (phase = "projecting" \/ DateKey(p) = DateKey(q)) /\ p < q

Before(p, q) == \/ DateKey(p) < DateKey(q)
                \/ DateKey(p) = DateKey(q) /\ p < q

\* The first edge of a node's list that leads to a paper.
EdgeBefore(e, f) == \/ e.type < f.type
                    \/ e.type = f.type /\ e.id < f.id

----------------------------------------------------------------------------
(* The walk *)

Found == DOMAIN depth
Waiting == Found \ expanded

\* Mutant: the queue gives back what came last.
LastFound == CHOOSE p \in Waiting : \A q \in Waiting : place[q] <= place[p]

Head == CHOOSE p \in Waiting : \A q \in Waiting : place[p] <= place[q]

Outgoing(p) == {e \in edges : e.src = p}
Fresh(p) == {e.dst : e \in Outgoing(p)} \ Found

Room == IF limits.nodes - Cardinality(Found) < limits.edges - Cardinality(tree)
        THEN limits.nodes - Cardinality(Found)
        ELSE limits.edges - Cardinality(tree)

Rank(p, t) == Cardinality({u \in Fresh(p) : Before(u, t)})
Taken(p) == {t \in Fresh(p) : Rank(p, t) < Room}
Link(p, t) == CHOOSE e \in Outgoing(p) :
                 e.dst = t /\ \A f \in Outgoing(p) : f.dst = t => f = e \/ EdgeBefore(e, f)

\* The walk starts at the root.
Start(l, es) ==
    /\ limits' = l
    /\ edges' = es
    /\ depth' = [p \in {Root} |-> 0]
    /\ place' = [p \in {Root} |-> 0]
    /\ expanded' = {}
    /\ tree' = {}
    /\ truncated' = FALSE

Walking == phase \in {"building", "projecting"}

\* A paper at the bound on depth: its predecessors are left out.
Stop ==
    /\ Walking
    /\ Waiting # {}
    /\ depth[Head] >= limits.depth
    /\ expanded' = expanded \cup {Head}
    /\ truncated' = (truncated \/ Fresh(Head) # {})
    /\ UNCHANGED <<date, corpus, phase, limits, edges, depth, place, tree, stored, answer>>

\* Its predecessors, oldest first, as long as there is room.
Expand ==
    /\ Walking
    /\ Waiting # {}
    /\ depth[Head] < limits.depth
    /\ LET p == Head
           new == Taken(p)
       IN  /\ expanded' = expanded \cup {p}
           /\ depth' = [q \in Found \cup new |-> IF q \in new THEN depth[p] + 1 ELSE depth[q]]
           /\ place' = [q \in Found \cup new |->
                           IF q \in new THEN Cardinality(Found) + Rank(p, q) ELSE place[q]]
           /\ tree' = tree \cup {Link(p, t) : t \in new}
           /\ truncated' = (truncated \/ new # Fresh(p))
    /\ UNCHANGED <<date, corpus, phase, limits, edges, stored, answer>>

----------------------------------------------------------------------------
(* The snapshot *)

Forward == {e \in edges : {e.src, e.dst} \subseteq Found /\ depth[e.dst] = depth[e.src] + 1}
Additional == Forward \ tree

\* The order of eligible edges, when building and when projecting.
BuildOrder(e, f) ==
    \/ e.type < f.type
    \/ e.type = f.type /\ e.src < f.src
    \/ e.type = f.type /\ e.src = f.src /\ e.dst < f.dst
    \/ e.type = f.type /\ e.src = f.src /\ e.dst = f.dst /\ e.id < f.id
RequestOrder(e, f) ==
    \/ Before(e.dst, f.dst)
    \/ e.dst = f.dst /\ EdgeBefore(e, f)
First(e, f) == IF phase = "building" THEN BuildOrder(e, f) ELSE RequestOrder(e, f)

\* Mutant: the bound cuts the forward edges in their order, the tree among them.
KeptRegardlessOfTree == {e \in Forward : Cardinality({f \in Forward : First(f, e)}) < limits.edges}

Kept == tree \cup {e \in Additional :
                      Cardinality({f \in Additional : First(f, e)}) < limits.edges - Cardinality(tree)}

Snapshot(cut) ==
    [depth |-> depth, place |-> place, edges |-> Kept, limits |-> limits,
     truncated |-> truncated \/ cut \/ Kept # tree \cup Additional,
     verified |-> \E e \in Kept : e.src = Root /\ e.status = "HUMAN_VERIFIED"]

\* The checks of every LineageSnapshot.  Layer by layer all nodes are reached, since
\* each but the root has an edge from the layer before its own.
Valid(s) ==
    /\ Cardinality(Nodes(s)) <= s.limits.nodes
    /\ Cardinality(s.edges) <= s.limits.edges
    /\ Root \in Nodes(s) /\ s.depth[Root] = 0
    /\ \A p \in Nodes(s) : s.depth[p] <= s.limits.depth
    /\ \A e \in s.edges : /\ e.type \in Permitted
                          /\ {e.src, e.dst} \subseteq Nodes(s)
                          /\ s.depth[e.dst] = s.depth[e.src] + 1
    /\ \A p \in Nodes(s) \ {Root} : \E e \in s.edges : e.dst = p

----------------------------------------------------------------------------
(* Building, storing and answering *)

\* A root of a later date has no lineage: the publication lists the failure.
Refuse ==
    /\ phase = "published"
    /\ Root \notin EligiblePapers
    /\ phase' = "refused"
    /\ UNCHANGED <<date, corpus, walk, stored, answer>>

Build(l) ==
    /\ phase = "published"
    /\ Root \in EligiblePapers
    /\ phase' = "building"
    /\ Start(l, Eligible)
    /\ UNCHANGED <<date, corpus, stored, answer>>

Store ==
    /\ phase = "building"
    /\ Waiting = {}
    /\ phase' = "stored"
    /\ stored' = Snapshot(FALSE)
    /\ UNCHANGED <<date, corpus, walk, answer>>

Lesser(m, n) == IF m < n THEN m ELSE n
Effective(l) == [depth |-> Lesser(l.depth, stored.limits.depth),
                 nodes |-> Lesser(l.nodes, stored.limits.nodes),
                 edges |-> Lesser(l.edges, stored.limits.edges)]

Request(l) ==
    /\ phase \in {"stored", "answered"}
    /\ phase' = "projecting"
    /\ Start(Effective(l), ReadEdges)
    /\ answer' = Nothing
    /\ UNCHANGED <<date, corpus, stored>>

\* Mutant: the answer says what the projection left out, not what the snapshot did.
AnswerForgetsTruncation ==
    /\ phase = "projecting"
    /\ Waiting = {}
    /\ phase' = "answered"
    /\ answer' = Snapshot(FALSE)
    /\ UNCHANGED <<date, corpus, walk, stored>>

Answer ==
    /\ phase = "projecting"
    /\ Waiting = {}
    /\ phase' = "answered"
    /\ answer' = Snapshot(stored.truncated)
    /\ UNCHANGED <<date, corpus, walk, stored>>

LineageNext ==
    \/ Refuse
    \/ \E l \in Built : Build(l)
    \/ Stop
    \/ Expand
    \/ Store
    \/ \E l \in Requested : Request(l)
    \/ Answer

LineageSpec == LineageInit /\ [][LineageNext]_lineageVars

----------------------------------------------------------------------------
(* Properties *)

Snapshots == {s \in {stored, answer} : s # Nothing}

\* The papers that n steps over eligible edges lead to from the root, or fewer.
Within ==
    LET relations == Eligible
        reached[n \in 0 .. Cardinality(Papers)] ==
            IF n = 0 THEN {Root}
            ELSE LET before == reached[n - 1]
                 IN  before \cup {e.dst : e \in {f \in relations : f.src \in before}}
    IN  reached

\* Whatever the bounds cut off, the depth of a paper, in a snapshot and in an answer,
\* is its distance from the root among the published relations (selected_depths).
DepthIsDistance ==
    LET within == Within
    IN  \A p \in Found : /\ p \in within[depth[p]]
                         /\ depth[p] > 0 => p \notin within[depth[p] - 1]

\* Neither the snapshot a publication builds nor any answer cut out of it fails
\* the checks of LineageSnapshot, so no request ends in "stored lineage violates
\* domain invariants", and their depths are distances (build_lineage_snapshot,
\* _bounded_lineage).
SnapshotsAreValid == (\A s \in Snapshots : Valid(s)) /\ DepthIsDistance

Reachable == Within[Cardinality(Papers)]

\* A snapshot or an answer says that it was truncated exactly when it lacks a paper
\* that can be reached or a relation between consecutive layers of papers it has; one
\* that does not say so knows of every verified predecessor of the root (truncated).
Told(s) ==
    LET relations == Eligible
        papers == Nodes(s)
        between == {e \in relations : /\ {e.src, e.dst} \subseteq papers
                                     /\ s.depth[e.dst] = s.depth[e.src] + 1}
    IN  /\ s.truncated <=> papers # Reachable \/ s.edges # between
        /\ ~s.truncated =>
              (s.verified <=> \E e \in relations :
                                 e.src = Root /\ e.dst # Root /\ e.status = "HUMAN_VERIFIED")

TruncationIsTold == \A s \in Snapshots : Told(s)

\* A request that asks for less is answered with a beginning of the stored lineage:
\* the papers that were found first, each at its depth, and no edge that is not
\* stored (_bounded_lineage).
AnswersAreBeginnings ==
    answer # Nothing =>
       LET kept == Nodes(answer) IN
       /\ kept \subseteq Nodes(stored)
       /\ \A p \in kept : answer.depth[p] = stored.depth[p]
       /\ \A p \in kept, q \in Nodes(stored) : stored.place[q] < stored.place[p] => q \in kept
       /\ answer.edges \subseteq stored.edges
=============================================================================
