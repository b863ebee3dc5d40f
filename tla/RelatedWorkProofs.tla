------------------------- MODULE RelatedWorkProofs -------------------------
(***************************************************************************)
(* Proofs about RelatedWork, for every record the provider may know, every *)
(* answer, plan and bound.                                                 *)
(***************************************************************************)
EXTENDS RelatedWork, ExternalPapersProofs, SequenceTheorems

\* The shapes of the records of the state.
IsProc(p) ==
    p = [at |-> p.at, step |-> p.step, asked |-> p.asked, plan |-> p.plan,
         memory |-> p.memory, sources |-> p.sources, queue |-> p.queue, todo |-> p.todo,
         expanded |-> p.expanded, stop |-> p.stop, seen |-> p.seen, draft |-> p.draft]

IsRow(s) == s = [status |-> s.status, stop |-> s.stop, plan |-> s.plan]

IsCall(a) == a = [tool |-> a.tool, target |-> a.target, depth |-> a.depth, status |-> a.status]

IsFound(c) == c = [depth |-> c.depth, by |-> c.by, decision |-> c.decision, target |-> c.target]

\* What the repository may have against a page.
PageRefusals == {"overrun", "outside", "failing", "crowded", "aliased"}

\* The steps whose calls completed.
Done == {s \in DOMAIN actions : actions[s].status = "COMPLETED"}

SelectedOf(found) == {id \in DOMAIN found : found[id].decision = "SELECTED"}

\* Candidates are stored papers, found by nothing but the corpus and the steps in
\* "done", and not too many of them are selected.
SoundCandidates(rows, found, done) ==
    /\ found = [id \in DOMAIN found |-> found[id]]
    /\ DOMAIN found \subseteq Ids(rows)
    /\ \A id \in DOMAIN found :
          /\ IsFound(found[id])
          /\ found[id].by \subseteq {0} \cup done
          /\ found[id].decision \in {"PENDING", "REJECTED", "SELECTED"}
    /\ Cardinality(SelectedOf(found)) <= MaxSelected

\* A selected candidate's records go on in a selected candidate.
SelectedGoOn(rows, found, newRows, newFound) ==
    \A p \in rows : p.id \in SelectedOf(found) =>
        \E q \in newRows : p.of \subseteq q.of /\ q.id \in SelectedOf(newFound)

----------------------------------------------------------------------------
(* The upsert of a record *)

LEMMA IdsFinite ==
    ASSUME NEW rows, IsFiniteSet(rows)
    PROVE  IsFiniteSet(Ids(rows))
<1> DEFINE f == [p \in rows |-> p.id]
<1>1. f \in Surjection(rows, Ids(rows))
  BY DEF Surjection, Ids
<1>2. QED
  <2> HIDE DEF f
  <2>1. QED
    BY <1>1, FS_Surjection

\* The set of candidates that are selected is finite.
LEMMA SelectedFinite ==
    ASSUME NEW rows, Table(rows), NEW found, DOMAIN found \subseteq Ids(rows)
    PROVE  /\ IsFiniteSet(SelectedOf(found)) /\ Cardinality(SelectedOf(found)) \in Nat
           /\ IsFiniteSet(DOMAIN found)
<1>1. IsFiniteSet(Ids(rows))
  BY IdsFinite DEF Table
<1>2. DOMAIN found \in SUBSET Ids(rows) /\ SelectedOf(found) \in SUBSET Ids(rows)
  BY DEF SelectedOf
<1>3. QED
  BY <1>1, <1>2, FS_Subset, FS_CardinalityType

\* Only the survivor's key may belong to no matching row.
LEMMA KeyIsMatched ==
    ASSUME NEW rows, Table(rows), NEW r, NEW id \in Ids(rows), Rekeyed(rows, r, id) = Identity(r)
    PROVE  id \in Ids(Matching(rows, r))
<1>1. PICK p \in rows : p.id = id
  BY DEF Ids
<1>2. CASE id # Identity(r)
  BY <1>2 DEF Rekeyed
<1>3. CASE id = Identity(r)
  BY <1>1, <1>3 DEF Matching, Ids
<1>4. QED
  BY <1>2, <1>3

\* The decision that stands was made for one of the candidates, and none is stronger.
LEMMA DecidedIsStrongest ==
    ASSUME NEW found, NEW owners, owners # {}, NEW base,
           \A id \in owners : found[id].decision \in {"PENDING", "REJECTED", "SELECTED"}
    PROVE  /\ \E id \in owners : Decided(found, owners, base) = found[id].decision
           /\ (\E id \in owners : found[id].decision = "SELECTED") =>
                 Decided(found, owners, base) = "SELECTED"
<1> DEFINE Best(id) == \A other \in owners :
                Priority(found[id].decision) >= Priority(found[other].decision)
<1>1. \A id \in owners : /\ Priority(found[id].decision) \in 0 .. 2
                         /\ Priority(found[id].decision) = 2 <=> found[id].decision = "SELECTED"
                         /\ Priority(found[id].decision) = 1 <=> found[id].decision = "REJECTED"
  BY DEF Priority
<1>2. \E id \in owners : Best(id)
  <2>1. CASE \E id \in owners : Priority(found[id].decision) = 2
    BY <1>1, <2>1
  <2>2. CASE /\ ~ \E id \in owners : Priority(found[id].decision) = 2
             /\ \E id \in owners : Priority(found[id].decision) = 1
    BY <1>1, <2>2
  <2>3. CASE ~ \E id \in owners : Priority(found[id].decision) \in {1, 2}
    <3>1. \A id \in owners : Priority(found[id].decision) = 0
      BY <1>1, <2>3
    <3>2. QED
      BY <3>1
  <2>4. QED
    BY <2>1, <2>2, <2>3
<1> DEFINE best == CHOOSE id \in owners : Best(id)
<1>3. best \in owners /\ Best(best)
  BY <1>2
<1>4. Decided(found, owners, base) = found[best].decision
  BY DEF Decided
<1> HIDE DEF best
<1>5. ASSUME NEW id \in owners, found[id].decision = "SELECTED"
      PROVE  found[best].decision = "SELECTED"
  BY <1>1, <1>3, <1>5
<1>6. QED
  BY <1>3, <1>4, <1>5

\* A stored record leaves candidates that are sound, under the keys of their papers, and
\* loses no selected one.
LEMMA UpsertIsSound ==
    ASSUME NEW rows, Table(rows), NEW r, Named(r), NEW found, NEW done,
           SoundCandidates(rows, found, done), MaxSelected \in Nat
    PROVE  /\ Table(Upserted(rows, r))
           /\ SoundCandidates(Upserted(rows, r), CandidatesAfter(rows, r, found), done)
           /\ SelectedGoOn(rows, found, Upserted(rows, r), CandidatesAfter(rows, r, found))
<1> DEFINE owners == Ids(Matching(rows, r)) \cap DOMAIN found
           new == CandidatesAfter(rows, r, found)
           merged == MergedCandidate(found, owners, Survivor(rows, r).id)
           base == IF Survivor(rows, r).id \in owners THEN Survivor(rows, r).id ELSE Min(owners)
<1>1. Table(Upserted(rows, r))
  BY UpsertKeepsIndexes
<1>2. /\ new = [id \in Followed(rows, r, DOMAIN found) |->
                  IF id = Identity(r) THEN merged ELSE found[id]]
      /\ DOMAIN new = Followed(rows, r, DOMAIN found)
  BY DEF CandidatesAfter
<1>3. DOMAIN found \in SUBSET Ids(rows)
  BY DEF SoundCandidates
<1>4. DOMAIN new \subseteq Ids(Upserted(rows, r))
  BY <1>1, <1>2, <1>3, DependentsFollow
\* Either a candidate of a matching paper or one that stays as it is.
<1>5. \A id \in DOMAIN found : \/ id \in owners /\ Rekeyed(rows, r, id) = Identity(r)
                               \/ id \notin owners /\ Rekeyed(rows, r, id) = id /\ id # Identity(r)
  <2>1. \A id \in DOMAIN found : id \in Ids(rows)
    BY <1>3
  <2>2. QED
    BY <2>1, KeyIsMatched DEF Rekeyed
<1>6. \A id \in DOMAIN new : \/ id = Identity(r) /\ owners # {} /\ new[id] = merged
                             \/ /\ id # Identity(r) /\ id \in DOMAIN found \ owners
                                /\ new[id] = found[id]
  BY <1>2, <1>5 DEF Followed
<1>7. owners \in SUBSET Nat
  BY <1>3 DEF Ids, Table
<1>8. ASSUME owners # {} PROVE base \in owners
  BY <1>7, <1>8, LeastExists
<1>9. merged = [depth |-> Min({found[id].depth : id \in owners}),
                by |-> UNION {found[id].by : id \in owners},
                decision |-> Decided(found, owners, base),
                target |-> found[base].target]
  BY DEF MergedCandidate
<1>10. \A id \in owners : /\ found[id].by \subseteq {0} \cup done
                          /\ found[id].decision \in {"PENDING", "REJECTED", "SELECTED"}
  BY DEF SoundCandidates
<1> HIDE DEF new, owners, merged, base
<1>11. ASSUME owners # {}
       PROVE  /\ IsFound(merged) /\ merged.by \subseteq {0} \cup done
              /\ \E id \in owners : merged.decision = found[id].decision
              /\ (\E id \in owners : found[id].decision = "SELECTED") =>
                    merged.decision = "SELECTED"
  <2>1. IsFound(merged) /\ merged.decision = Decided(found, owners, base)
    BY <1>9 DEF IsFound
  <2>2. merged.by \subseteq {0} \cup done
    <3>1. merged.by = UNION {found[id].by : id \in owners}
      BY <1>9
    <3>2. QED
      BY <1>10, <3>1
  <2>3. QED
    BY <1>10, <1>11, <2>1, <2>2, DecidedIsStrongest
<1>12. \A id \in DOMAIN new :
          /\ IsFound(new[id])
          /\ new[id].by \subseteq {0} \cup done
          /\ new[id].decision \in {"PENDING", "REJECTED", "SELECTED"}
  <2>1. \A id \in DOMAIN found :
          /\ IsFound(found[id])
          /\ found[id].by \subseteq {0} \cup done
          /\ found[id].decision \in {"PENDING", "REJECTED", "SELECTED"}
    BY DEF SoundCandidates
  <2>2. QED
    BY <1>6, <1>10, <1>11, <2>1
<1>13. Cardinality(SelectedOf(new)) <= MaxSelected
  <2> DEFINE S == SelectedOf(found)
             T == {Rekeyed(rows, r, id) : id \in S}
             f == [id \in S |-> Rekeyed(rows, r, id)]
  <2>1. f \in Surjection(S, T)
    BY DEF Surjection
  <2>2. IsFiniteSet(S) /\ Cardinality(S) \in Nat /\ Cardinality(S) <= MaxSelected
    BY SelectedFinite, <1>3 DEF SoundCandidates
  <2>3. SelectedOf(new) \in SUBSET T
    <3>1. ASSUME NEW id \in DOMAIN new, new[id].decision = "SELECTED" PROVE id \in T
      <4>1. CASE id = Identity(r) /\ owners # {} /\ new[id] = merged
        <5>1. PICK own \in owners : merged.decision = found[own].decision
          BY <1>11, <4>1
        <5>2. own \in S
          <6>1. own \in DOMAIN found /\ found[own].decision = "SELECTED"
            BY <3>1, <4>1, <5>1 DEF owners
          <6>2. QED
            BY <6>1 DEF SelectedOf
        <5>3. Rekeyed(rows, r, own) = id
          BY <1>5, <4>1, <5>1 DEF owners
        <5>4. QED
          BY <5>2, <5>3
      <4>2. CASE id # Identity(r) /\ id \in DOMAIN found \ owners /\ new[id] = found[id]
        <5>1. id \in S
          BY <3>1, <4>2 DEF SelectedOf
        <5>2. Rekeyed(rows, r, id) = id
          BY <1>5, <4>2
        <5>3. QED
          BY <5>1, <5>2
      <4>3. QED
        BY <1>6, <4>1, <4>2
    <3>2. QED
      BY <3>1 DEF SelectedOf
  <2> HIDE DEF S, T, f
  <2>4. IsFiniteSet(T) /\ Cardinality(T) <= Cardinality(S)
    BY <2>1, <2>2, FS_Surjection
  <2>5. /\ IsFiniteSet(SelectedOf(new)) /\ Cardinality(SelectedOf(new)) <= Cardinality(T)
        /\ Cardinality(SelectedOf(new)) \in Nat /\ Cardinality(T) \in Nat
    BY <2>3, <2>4, FS_Subset, FS_CardinalityType
  <2>6. QED
    BY <2>2, <2>4, <2>5
<1>14. SelectedGoOn(rows, found, Upserted(rows, r), new)
  <2>1. SUFFICES ASSUME NEW p \in rows, p.id \in SelectedOf(found)
                 PROVE  \E q \in Upserted(rows, r) : p.of \subseteq q.of /\ q.id \in SelectedOf(new)
    BY DEF SelectedGoOn
  <2>2. PICK q \in Upserted(rows, r) :
           /\ q.id = Rekeyed(rows, r, p.id) /\ p.of \subseteq q.of
           /\ q = IF p \in Matching(rows, r) THEN Merged(rows, r) ELSE p
    BY RowsGoOn
  <2>3. p.id \in DOMAIN found /\ found[p.id].decision = "SELECTED"
    BY <2>1 DEF SelectedOf
  <2>4. q.id \in DOMAIN new
    BY <1>2, <2>2, <2>3 DEF Followed
  <2>5. new[q.id].decision = "SELECTED"
    <3>1. CASE p.id \in owners /\ q.id = Identity(r)
      BY <1>6, <1>11, <2>3, <2>4, <3>1
    <3>2. CASE p.id \notin owners /\ q.id = p.id /\ q.id # Identity(r)
      BY <1>6, <2>3, <2>4, <3>2
    <3>3. QED
      BY <1>5, <2>2, <2>3, <3>1, <3>2
  <2>6. QED
    BY <2>2, <2>4, <2>5 DEF SelectedOf
<1>15. new = [id \in DOMAIN new |-> new[id]]
  BY <1>2
<1>16. QED
  BY <1>1, <1>4, <1>12, <1>13, <1>14, <1>15 DEF SoundCandidates, new

----------------------------------------------------------------------------
(* Transactions *)

\* The states a transaction goes through.
Sequel(f, page, N) ==
    f = [n \in 0 .. N |-> IF n = 0 THEN Current ELSE Store(f[n - 1], InOrder(page)[n])]

LEMMA SequelExists ==
    ASSUME NEW page, NEW N \in Nat
    PROVE  \E f : Sequel(f, page, N)
<1> DEFINE S == {k \in Nat : \E f : Sequel(f, page, k)}
<1>1. 0 \in S
  <2> DEFINE f == [n \in 0 .. 0 |-> Current]
  <2>1. f = [n \in 0 .. 0 |-> IF n = 0 THEN Current ELSE Store(f[n - 1], InOrder(page)[n])]
    OBVIOUS
  <2>2. QED
    BY <2>1 DEF Sequel
<1>2. ASSUME NEW k \in S PROVE k + 1 \in S
  <2>1. PICK f : Sequel(f, page, k)
    OBVIOUS
  <2> DEFINE last == Store(f[k], InOrder(page)[k + 1])
             g == [n \in 0 .. k + 1 |-> IF n <= k THEN f[n] ELSE last]
             h == [n \in 0 .. k + 1 |->
                     IF n = 0 THEN Current ELSE Store(g[n - 1], InOrder(page)[n])]
  <2>2. ASSUME NEW n \in 0 .. k + 1 PROVE g[n] = h[n]
    <3>1. CASE n = 0
      BY <2>1, <3>1 DEF Sequel
    <3>2. CASE n # 0 /\ n <= k
      <4>1. g[n] = f[n] /\ g[n - 1] = f[n - 1] /\ h[n] = Store(g[n - 1], InOrder(page)[n])
        BY <3>2
      <4>2. f[n] = Store(f[n - 1], InOrder(page)[n])
        BY <2>1, <3>2 DEF Sequel
      <4>3. QED
        BY <4>1, <4>2
    <3>3. CASE n = k + 1
      BY <3>3
    <3>4. QED
      BY <3>1, <3>2, <3>3
  <2>3. g = h
    <3>1. /\ g = [n \in 0 .. k + 1 |-> g[n]]
          /\ h = [n \in 0 .. k + 1 |-> h[n]]
      OBVIOUS
    <3> HIDE DEF g, h
    <3>2. QED
      BY <2>2, <3>1
  <2>4. Sequel(g, page, k + 1)
    BY <2>3 DEF Sequel
  <2>5. QED
    BY <2>4
<1>3. S = Nat
  <2>1. S \in SUBSET Nat
    OBVIOUS
  <2> HIDE DEF S
  <2>2. QED
    BY <1>1, <1>2, <2>1, SetInduction
<1>4. QED
  BY <1>3

LEMMA StoredInSteps ==
    ASSUME NEW page, Cardinality(page) \in Nat
    PROVE  \E f : /\ f[0] = Current /\ StoredBy(page) = f[Cardinality(page)]
                  /\ \A n \in 1 .. Cardinality(page) :
                        f[n] = Store(f[n - 1], InOrder(page)[n])
<1> DEFINE N == Cardinality(page)
           f == CHOOSE f : Sequel(f, page, N)
<1>1. Sequel(f, page, N)
  BY SequelExists
<1>2. StoredBy(page) = f[N]
  BY DEF StoredBy, Sequel
<1> HIDE DEF f
<1>3. /\ f[0] = Current
      /\ \A n \in 1 .. N : f[n] = Store(f[n - 1], InOrder(page)[n])
  BY <1>1 DEF Sequel
<1>4. QED
  BY <1>2, <1>3

\* A page of named records, each with an identifier of its own.
IsPage(page) ==
    /\ IsFiniteSet(page)
    /\ \A r \in page : Named(r)
    /\ \A r, q \in page : r.sid = q.sid => r = q

\* A transaction's papers and candidates are sound, and selections go on.
SoundState(s, done) ==
    /\ s = [papers |-> s.papers, candidates |-> s.candidates, ambiguous |-> s.ambiguous]
    /\ Table(s.papers) /\ SoundCandidates(s.papers, s.candidates, done)
    /\ SelectedGoOn(papers, candidates, s.papers, s.candidates)

LEMMA SelectedGoOnFurther ==
    ASSUME NEW P, NEW F, NEW Q, NEW G, NEW R, NEW H,
           SelectedGoOn(P, F, Q, G), SelectedGoOn(Q, G, R, H)
    PROVE  SelectedGoOn(P, F, R, H)
<1>1. SUFFICES ASSUME NEW p \in P, p.id \in SelectedOf(F)
               PROVE  \E q \in R : p.of \subseteq q.of /\ q.id \in SelectedOf(H)
  BY DEF SelectedGoOn
<1>2. PICK q \in Q : p.of \subseteq q.of /\ q.id \in SelectedOf(G)
  BY <1>1 DEF SelectedGoOn
<1>3. PICK x \in R : q.of \subseteq x.of /\ x.id \in SelectedOf(H)
  BY <1>2 DEF SelectedGoOn
<1>4. QED
  BY <1>2, <1>3

LEMMA StoreIsSound ==
    ASSUME NEW s, NEW done, SoundState(s, done), NEW r, Named(r), MaxSelected \in Nat
    PROVE  SoundState(Store(s, r), done)
<1>1. CASE s.ambiguous \/ Ambiguous(s.papers, r)
  <2>1. Store(s, r) = [s EXCEPT !.ambiguous = TRUE]
    BY <1>1 DEF Store
  <2>2. Store(s, r) = [papers |-> s.papers, candidates |-> s.candidates, ambiguous |-> TRUE]
    BY <2>1 DEF SoundState
  <2>3. QED
    BY <2>2 DEF SoundState
<1>2. CASE ~(s.ambiguous \/ Ambiguous(s.papers, r))
  <2> DEFINE t == [papers     |-> Upserted(s.papers, r),
                   candidates |-> CandidatesAfter(s.papers, r, s.candidates),
                   ambiguous  |-> FALSE]
  <2>1. Store(s, r) = t
    BY <1>2 DEF Store
  <2>2. /\ Table(s.papers) /\ SoundCandidates(s.papers, s.candidates, done)
        /\ SelectedGoOn(papers, candidates, s.papers, s.candidates)
    BY DEF SoundState
  <2>3. /\ Table(t.papers) /\ SoundCandidates(t.papers, t.candidates, done)
        /\ SelectedGoOn(s.papers, s.candidates, t.papers, t.candidates)
    BY <2>2, UpsertIsSound
  <2>4. t = [papers |-> t.papers, candidates |-> t.candidates, ambiguous |-> t.ambiguous]
    OBVIOUS
  <2> HIDE DEF t
  <2>5. SelectedGoOn(papers, candidates, t.papers, t.candidates)
    BY <2>2, <2>3, SelectedGoOnFurther
  <2>6. QED
    BY <2>1, <2>3, <2>4, <2>5 DEF SoundState
<1>3. QED
  BY <1>1, <1>2

LEMMA PageIsSound ==
    ASSUME NEW page, IsPage(page), NEW done, Table(papers),
           SoundCandidates(papers, candidates, done), MaxSelected \in Nat
    PROVE  SoundState(StoredBy(page), done)
<1> DEFINE N == Cardinality(page)
<1>1. N \in Nat /\ \A r \in page : Named(r) /\ r.sid \in Nat
  BY FS_CardinalityType DEF IsPage, Named
<1>2. \A n \in 1 .. N : InOrder(page)[n] \in page
  BY <1>1, EachIsStored DEF IsPage
<1>3. PICK f : /\ f[0] = Current /\ StoredBy(page) = f[N]
               /\ \A n \in 1 .. N : f[n] = Store(f[n - 1], InOrder(page)[n])
  BY <1>1, StoredInSteps
<1> DEFINE S == {n \in Nat : n <= N => SoundState(f[n], done)}
<1>4. 0 \in S
  <2>1. SelectedGoOn(papers, candidates, papers, candidates)
    BY DEF SelectedGoOn
  <2>2. SoundState(Current, done)
    BY <2>1 DEF SoundState, Current
  <2>3. QED
    BY <1>3, <2>2
<1>5. ASSUME NEW n \in S PROVE n + 1 \in S
  <2>1. SUFFICES ASSUME n + 1 <= N PROVE SoundState(f[n + 1], done)
    OBVIOUS
  <2>2. n \in Nat /\ n + 1 \in 1 .. N /\ (n + 1) - 1 = n /\ SoundState(f[n], done)
    BY <1>1, <2>1
  <2>3. Named(InOrder(page)[n + 1]) /\ f[n + 1] = Store(f[n], InOrder(page)[n + 1])
    BY <1>1, <1>2, <1>3, <2>2
  <2>4. QED
    BY <2>2, <2>3, StoreIsSound
<1>6. S = Nat
  <2>1. S \in SUBSET Nat
    OBVIOUS
  <2> HIDE DEF S
  <2>2. QED
    BY <1>4, <1>5, <2>1, SetInduction
<1>7. QED
  <2>1. N \in S
    BY <1>1, <1>6
  <2>2. QED
    BY <1>1, <1>3, <2>1

----------------------------------------------------------------------------
(* Pages that the search stores *)

\* A page that is not refused leaves sound candidates; the ones it names were found by
\* its step.
LEMMA OutcomeIsSound ==
    ASSUME NEW page, IsPage(page), NEW depth, NEW step, NEW done, Table(papers),
           SoundCandidates(papers, candidates, done), MaxSelected \in Nat,
           NEW outcome, outcome = Outcome(page, depth, step), outcome.refusal = None
    PROVE  /\ Table(outcome.papers)
           /\ SoundCandidates(outcome.papers, outcome.candidates, done \cup {step})
<1> DEFINE state == StoredBy(page)
           memory == Remembered(page, depth)
           kept == Retained(page)
           named == {memory[r.sid].id : r \in kept}
           Naming(id) == {r \in kept : memory[r.sid].id = id}
           Before(id) == IF id \in DOMAIN state.candidates
                         THEN state.candidates[id].by ELSE {}
           new == [id \in DOMAIN state.candidates \cup named |->
                      IF id \notin named THEN state.candidates[id]
                      ELSE [depth |-> Min({memory[r.sid].depth : r \in Naming(id)}),
                            by |-> {step} \cup Before(id),
                            decision |-> "PENDING", target |-> FALSE]]
<1>1. SoundState(state, done)
  BY PageIsSound
<1>2. outcome.papers = state.papers /\ outcome.candidates = new
  BY DEF Outcome
<1>3. \A r \in kept : \E p \in state.papers : p.id = memory[r.sid].id
  <2>1. \A r \in kept : \E p \in state.papers : p.id = memory[r.sid].id /\ p.sid = r.sid
    BY NoneIsNoOutcome DEF Outcome, Refusals
  <2>2. QED
    BY <2>1
<1>4. named \subseteq Ids(state.papers)
  BY <1>3 DEF Ids
<1> HIDE DEF state, memory, kept
<1>5. /\ Table(state.papers)
      /\ DOMAIN state.candidates \subseteq Ids(state.papers)
      /\ \A id \in DOMAIN state.candidates :
            /\ IsFound(state.candidates[id])
            /\ state.candidates[id].by \subseteq {0} \cup done
            /\ state.candidates[id].decision \in {"PENDING", "REJECTED", "SELECTED"}
      /\ Cardinality(SelectedOf(state.candidates)) <= MaxSelected
  BY <1>1 DEF SoundState, SoundCandidates
<1>6. DOMAIN new = DOMAIN state.candidates \cup named
  OBVIOUS
<1>7. \A id \in DOMAIN new :
         \/ id \in DOMAIN state.candidates /\ new[id] = state.candidates[id]
         \/ /\ IsFound(new[id]) /\ new[id].by = {step} \cup Before(id)
            /\ new[id].decision = "PENDING"
  <2>1. ASSUME NEW id \in named
        PROVE  new[id] = [depth |-> Min({memory[r.sid].depth : r \in Naming(id)}),
                          by |-> {step} \cup Before(id),
                          decision |-> "PENDING", target |-> FALSE]
    OBVIOUS
  <2>2. ASSUME NEW id \in DOMAIN state.candidates, id \notin named
        PROVE  new[id] = state.candidates[id]
    BY <2>2
  <2>3. ASSUME NEW id \in named
        PROVE  \E d : new[id] = [depth |-> d, by |-> {step} \cup Before(id),
                                decision |-> "PENDING", target |-> FALSE]
    BY <2>1
  <2> HIDE DEF new, named, Naming, Before
  <2>4. ASSUME NEW id \in named
        PROVE  /\ IsFound(new[id]) /\ new[id].by = {step} \cup Before(id)
               /\ new[id].decision = "PENDING"
    <3>1. PICK d : new[id] = [depth |-> d, by |-> {step} \cup Before(id),
                              decision |-> "PENDING", target |-> FALSE]
      BY <2>3
    <3>2. QED
      BY <3>1 DEF IsFound
  <2>5. QED
    BY <1>6, <2>2, <2>4
<1>8. new = [id \in DOMAIN new |-> new[id]]
  OBVIOUS
<1> HIDE DEF new, named, Naming
<1>9. \A id \in DOMAIN new :
         /\ IsFound(new[id])
         /\ new[id].by \subseteq {0} \cup (done \cup {step})
         /\ new[id].decision \in {"PENDING", "REJECTED", "SELECTED"}
  BY <1>5, <1>7
<1>10. Cardinality(SelectedOf(new)) <= MaxSelected
  <2>1. SelectedOf(new) \in SUBSET SelectedOf(state.candidates)
    BY <1>7 DEF SelectedOf
  <2>2. /\ IsFiniteSet(SelectedOf(state.candidates))
        /\ Cardinality(SelectedOf(state.candidates)) \in Nat
    BY <1>5, SelectedFinite
  <2>3. /\ Cardinality(SelectedOf(new)) <= Cardinality(SelectedOf(state.candidates))
        /\ Cardinality(SelectedOf(new)) \in Nat
    BY <2>1, <2>2, FS_Subset, FS_CardinalityType
  <2>4. QED
    BY <1>5, <2>2, <2>3
<1>11. DOMAIN new \subseteq Ids(state.papers)
  BY <1>4, <1>5, <1>6
<1>12. SoundCandidates(state.papers, new, done \cup {step})
  BY <1>8, <1>9, <1>10, <1>11 DEF SoundCandidates
<1>13. QED
  BY <1>2, <1>5, <1>12

----------------------------------------------------------------------------
(* The invariant *)

\* Where the process searches, with the session to itself.
Crawling ==
    {"local", "storing", "source", "planning", "calling", "querying", "recommending",
     "queueing", "expanding", "selecting", "finishing", "failing"}

ProcInv ==
    /\ IsProc(proc) /\ proc.step \in Nat
    /\ proc.at = "storing" => IsPage(proc.seen)

\* A process that searches has a RUNNING session.
SessionInv == proc.at \in Crawling => IsRow(session) /\ session.status = "RUNNING"

\* Steps are numbered, and the last one is under way while its call is.
ActionsInv ==
    /\ actions = [s \in DOMAIN actions |-> actions[s]]
    /\ \A s \in DOMAIN actions : IsCall(actions[s])
    /\ proc.at \in Crawling => DOMAIN actions \subseteq 1 .. proc.step
    /\ proc.at = "calling" =>
          proc.step \in DOMAIN actions /\ actions[proc.step].status = "RUNNING"

CandidatesInv == Table(papers) /\ SoundCandidates(papers, candidates, Done)

ClosedInv == session # None /\ session.status # "RUNNING" => ~ Running

SearchInv == ProcInv /\ SessionInv /\ ActionsInv /\ CandidatesInv /\ ClosedInv

LEMMA BoundsAreNat == MaxSelected \in Nat /\ MaxSteps \in Nat
  BY SearchAssumption

LEMMA RecordsAreNamed ==
    /\ IsFiniteSet(Records) /\ Corpus \subseteq Records /\ Elsewhere \subseteq Records
    /\ \A r \in Records : Named(r)
  BY SearchAssumption DEF Named, Identifiers

LEMMA SubpageIsPage ==
    ASSUME NEW page, IsPage(page), NEW part \in SUBSET page
    PROVE  IsPage(part)
  BY FS_Subset DEF IsPage

LEMMA InitIsSound == Init => SearchInv
<1> SUFFICES ASSUME Init PROVE SearchInv
  OBVIOUS
<1>1. proc = [at |-> "out", step |-> 0, asked |-> 0, plan |-> NoPlan, memory |-> <<>>,
              sources |-> {}, queue |-> <<>>, todo |-> <<>>, expanded |-> {},
              stop |-> "done", seen |-> {}, draft |-> None]
  BY DEF Init, Out
<1>2. proc.at = "out" /\ proc.step = 0 /\ IsProc(proc)
  BY <1>1 DEF IsProc
<1>3. ProcInv /\ SessionInv /\ ClosedInv
  BY <1>2 DEF ProcInv, SessionInv, ClosedInv, Crawling, Init
<1>4. actions = <<>> /\ candidates = <<>> /\ papers = {NewPaper(r) : r \in Corpus}
  BY DEF Init
<1>5. DOMAIN actions = {} /\ actions = [s \in DOMAIN actions |-> actions[s]]
  BY <1>4
<1>6. ActionsInv
  BY <1>2, <1>5 DEF ActionsInv, Crawling
<1>7. DOMAIN candidates = {} /\ candidates = [id \in DOMAIN candidates |-> candidates[id]]
  BY <1>4
<1>8. SelectedOf(candidates) = {}
  BY <1>7 DEF SelectedOf
<1>9. SoundCandidates(papers, candidates, Done)
  BY <1>7, <1>8, FS_EmptySet, BoundsAreNat DEF SoundCandidates
<1>10. Table(papers)
  <2> DEFINE f == [r \in Corpus |-> NewPaper(r)]
  <2>1. IsFiniteSet(Corpus)
    BY RecordsAreNamed, FS_Subset
  <2>2. f \in Surjection(Corpus, papers)
    BY <1>4 DEF Surjection
  <2> HIDE DEF f
  <2>3. IsFiniteSet(papers)
    BY <2>1, <2>2, FS_Surjection
  <2>4. \A p \in papers : Named(p) /\ p.id \in Nat
    <3>1. ASSUME NEW r \in Corpus PROVE Named(NewPaper(r)) /\ NewPaper(r).id \in Nat
      <4>1. Named(r)
        BY RecordsAreNamed
      <4>2. QED
        BY <4>1 DEF Named, NewPaper, Identity, Identifiers
    <3>2. QED
      BY <1>4, <3>1
  <2>5. \A p, q \in papers : p # q => Apart(p, q)
    BY <1>4, CorpusAssumption
  <2>6. QED
    BY <2>3, <2>4, <2>5 DEF Table
<1>11. QED
  BY <1>3, <1>6, <1>9, <1>10 DEF SearchInv, CandidatesInv

----------------------------------------------------------------------------
(* Steps of the process alone *)

LEMMA ProcStep ==
    ASSUME SearchInv, UNCHANGED <<papers, candidates, session, actions>>,
           IsProc(proc'), proc'.step \in Nat, proc'.at # "calling",
           proc'.at \in Crawling => proc.at \in Crawling /\ proc'.step >= proc.step,
           proc'.at = "storing" => IsPage(proc'.seen)
    PROVE  SearchInv'
<1>1. ProcInv'
  BY DEF ProcInv
<1>2. SessionInv'
  BY DEF SearchInv, SessionInv
<1>3. ActionsInv'
  <2>1. proc.step \in Nat
    BY DEF SearchInv, ProcInv
  <2>2. ASSUME proc'.at \in Crawling PROVE DOMAIN actions \subseteq 1 .. proc'.step
    <3>1. DOMAIN actions \subseteq 1 .. proc.step /\ proc'.step >= proc.step
      BY <2>2 DEF SearchInv, ActionsInv
    <3>2. QED
      BY <2>1, <3>1
  <2>3. QED
    BY <2>2 DEF SearchInv, ActionsInv
<1>4. CandidatesInv'
  BY DEF SearchInv, CandidatesInv, Done
<1>5. ClosedInv'
  BY DEF SearchInv, ClosedInv, Running
<1>6. QED
  BY <1>1, <1>2, <1>3, <1>4, <1>5 DEF SearchInv

\* The process moves on, or ends.
LEMMA MovesStep ==
    ASSUME SearchInv, UNCHANGED <<papers, candidates, session, actions>>, NEW at, Moves(at),
           at \notin {"calling", "storing"}, at \in Crawling => proc.at \in Crawling
    PROVE  SearchInv'
<1>1. IsProc(proc) /\ proc.step \in Nat /\ proc' = [proc EXCEPT !.at = at]
  BY DEF SearchInv, ProcInv, Moves
<1>2. IsProc(proc') /\ proc'.at = at /\ proc'.step = proc.step
  BY <1>1 DEF IsProc
<1>3. QED
  BY <1>1, <1>2, ProcStep

LEMMA EndsProc ==
    ASSUME NEW why, Ends(why)
    PROVE  IsProc(proc') /\ proc'.at = why /\ proc'.step = 0 /\ proc'.seen = {}
  BY DEF Ends, Out, IsProc

LEMMA EndsStep ==
    ASSUME SearchInv, UNCHANGED <<papers, candidates, session, actions>>, NEW why, Ends(why),
           why \notin Crawling
    PROVE  SearchInv'
<1>1. IsProc(proc') /\ proc'.at = why /\ proc'.step = 0
  BY EndsProc
<1>2. why # "calling" /\ why # "storing"
  BY DEF Crawling
<1>3. QED
  BY <1>1, <1>2, ProcStep

LEMMA StopsStep ==
    ASSUME SearchInv, UNCHANGED <<papers, candidates, session, actions>>, NEW stop, NEW at,
           Stops(stop, at), at \notin {"calling", "storing"}, proc.at \in Crawling
    PROVE  SearchInv'
<1>1. /\ IsProc(proc) /\ proc.step \in Nat
      /\ proc' = [proc EXCEPT !.stop = stop, !.at = at, !.todo = <<>>]
  BY DEF SearchInv, ProcInv, Stops
<1>2. IsProc(proc') /\ proc'.at = at /\ proc'.step = proc.step
  BY <1>1 DEF IsProc
<1>3. QED
  BY <1>1, <1>2, ProcStep

\* A call begins, or is refused.
LEMMA CallStep ==
    ASSUME SearchInv, UNCHANGED <<papers, candidates, session>>, proc.at \in Crawling,
           NEW tool, NEW target, NEW depth, Call(tool, target, depth)
    PROVE  SearchInv'
<1>1. CASE Exceeds(tool, depth)
  <2>1. Ends("overrun") /\ UNCHANGED actions
    BY <1>1 DEF Call
  <2>2. QED
    BY <2>1, EndsStep DEF Crawling
<1>2. CASE ~Exceeds(tool, depth)
  <2> DEFINE n == proc.step + 1
             a == [tool |-> tool, target |-> target, depth |-> depth, status |-> "RUNNING"]
  <2>1. /\ actions' = [s \in DOMAIN actions \cup {n} |-> IF s \in DOMAIN actions THEN actions[s] ELSE a]
        /\ proc' = [proc EXCEPT !.at = "calling", !.step = @ + 1,
                        !.asked = IF tool = "SEARCH_PAPERS" THEN @ + 1 ELSE @,
                        !.todo = IF @ = <<>> THEN @ ELSE Tail(@),
                        !.expanded = IF proc.todo = <<>> THEN @ ELSE @ \cup {<<tool, target>>}]
    BY <1>2 DEF Call
  <2>2. IsProc(proc) /\ proc.step \in Nat
    BY DEF SearchInv, ProcInv
  <2>3. IsProc(proc') /\ proc'.at = "calling" /\ proc'.step = n
    BY <2>1, <2>2 DEF IsProc
  <2>4. DOMAIN actions \subseteq 1 .. proc.step /\ n \notin DOMAIN actions
    BY <2>2 DEF SearchInv, ActionsInv
  <2>5. /\ DOMAIN actions' = DOMAIN actions \cup {n}
        /\ actions' = [s \in DOMAIN actions' |-> actions'[s]]
        /\ \A s \in DOMAIN actions : actions'[s] = actions[s]
        /\ actions'[n] = a
    <3> HIDE DEF n, a
    <3>1. QED
      BY <2>1, <2>4
  <2>6. IsCall(a) /\ a.status = "RUNNING"
    BY DEF IsCall
  <2> HIDE DEF a
  <2>7. ProcInv'
    BY <2>2, <2>3 DEF ProcInv
  <2>8. SessionInv'
    BY DEF SearchInv, SessionInv
  <2>9. ActionsInv'
    <3>1. DOMAIN actions' \subseteq 1 .. proc'.step
      BY <2>2, <2>3, <2>4, <2>5
    <3>2. \A s \in DOMAIN actions' : IsCall(actions'[s])
      BY <2>5, <2>6 DEF SearchInv, ActionsInv
    <3> HIDE DEF n
    <3>3. QED
      BY <2>3, <2>5, <2>6, <3>1, <3>2 DEF ActionsInv
  <2>10. CandidatesInv'
    <3> HIDE DEF n
    <3>1. Done' = Done
      BY <2>4, <2>5, <2>6 DEF Done
    <3>2. QED
      BY <3>1 DEF SearchInv, CandidatesInv
  <2>11. ClosedInv'
    BY DEF SearchInv, SessionInv, ClosedInv
  <2>12. QED
    BY <2>7, <2>8, <2>9, <2>10, <2>11 DEF SearchInv
<1>3. QED
  BY <1>1, <1>2

----------------------------------------------------------------------------
(* The steps of a search *)

LEMMA OpenStep == ASSUME SearchInv, Open PROVE SearchInv'
<1>1. CASE session # None /\ session.status = "COMPLETE"
  <2>1. Moves("reading") /\ UNCHANGED <<papers, candidates, session, actions>>
    BY <1>1 DEF Open
  <2>2. QED
    BY <2>1, MovesStep DEF Crawling
<1>2. CASE ~(session # None /\ session.status = "COMPLETE")
  <2>1. /\ session' = [status |-> "RUNNING", stop |-> None, plan |-> None]
        /\ actions' = <<>> /\ candidates' = <<>> /\ papers' = papers
        /\ proc' = [Out EXCEPT !.at = "local"]
    BY <1>2 DEF Open
  <2>2. IsProc(proc') /\ proc'.at = "local" /\ proc'.step = 0
    BY <2>1 DEF IsProc, Out
  <2>3. ProcInv'
    BY <2>2 DEF ProcInv
  <2>4. SessionInv' /\ ClosedInv'
    BY <2>1 DEF SessionInv, ClosedInv, IsRow
  <2>5. DOMAIN actions' = {} /\ actions' = [s \in DOMAIN actions' |-> actions'[s]]
    BY <2>1
  <2>6. ActionsInv'
    BY <2>2, <2>5 DEF ActionsInv
  <2>7. /\ DOMAIN candidates' = {}
        /\ candidates' = [id \in DOMAIN candidates' |-> candidates'[id]]
    BY <2>1
  <2>8. SelectedOf(candidates') = {}
    BY <2>7 DEF SelectedOf
  <2>9. SoundCandidates(papers', candidates', Done')
    BY <2>7, <2>8, FS_EmptySet, BoundsAreNat DEF SoundCandidates
  <2>10. CandidatesInv'
    BY <2>1, <2>9 DEF SearchInv, CandidatesInv
  <2>11. QED
    BY <2>3, <2>4, <2>6, <2>10 DEF SearchInv
<1>3. QED
  BY <1>1, <1>2

LEMMA SearchCorpusStep == ASSUME SearchInv, SearchCorpus PROVE SearchInv'
<1>1. PICK best \in SUBSET Local :
         proc' = [proc EXCEPT !.at = "storing", !.seen = {Stub(p) : p \in best}]
  BY DEF SearchCorpus
<1>2. proc.at = "local" /\ UNCHANGED <<papers, candidates, session, actions>>
  BY DEF SearchCorpus, work
<1> DEFINE seen == {Stub(p) : p \in best}
<1>3. IsProc(proc) /\ proc.step \in Nat /\ Table(papers)
  BY DEF SearchInv, ProcInv, CandidatesInv
<1>4. IsPage(seen)
  <2> DEFINE f == [p \in best |-> Stub(p)]
  <2>1. best \in SUBSET papers
    BY <1>1 DEF Local
  <2>2. IsFiniteSet(best)
    BY <1>3, <2>1, FS_Subset DEF Table
  <2>3. f \in Surjection(best, seen)
    BY DEF Surjection
  <2>4. \A p \in best : Stub(p).sid = p.sid /\ Named(Stub(p))
    BY <1>3, <2>1 DEF Table, Named, Stub
  <2>5. \A p, q \in best : p.sid = q.sid => p = q
    BY <1>3, <2>1 DEF Table, Apart
  <2> HIDE DEF f
  <2>6. IsFiniteSet(seen)
    BY <2>2, <2>3, FS_Surjection
  <2>7. QED
    BY <2>4, <2>5, <2>6 DEF IsPage
<1> HIDE DEF seen
<1>5. proc' = [proc EXCEPT !.at = "storing", !.seen = seen]
  BY <1>1 DEF seen
<1>6. IsProc(proc') /\ proc'.at = "storing" /\ proc'.seen = seen /\ proc'.step = proc.step
  BY <1>3, <1>5 DEF IsProc
<1>7. QED
  BY <1>2, <1>3, <1>4, <1>6, ProcStep DEF Crawling

\* A page that is refused changes nothing but the process.
LEMMA RefuseStep ==
    ASSUME SearchInv, UNCHANGED <<session, actions>>, proc.at \in Crawling,
           NEW page, NEW depth, NEW step, Refuse(Outcome(page, depth, step))
    PROVE  SearchInv'
<1> DEFINE outcome == Outcome(page, depth, step)
<1>1. UNCHANGED <<papers, candidates, session, actions>>
  BY DEF Refuse
<1>2. CASE outcome.refusal = "failing"
  <2>1. Moves("failing")
    BY <1>2 DEF Refuse
  <2>2. QED
    BY <1>1, <2>1, MovesStep
<1>3. CASE outcome.refusal # "failing"
  <2>1. Ends(outcome.refusal) /\ outcome.refusal # None
    BY <1>3 DEF Refuse
  <2>2. outcome.refusal \in PageRefusals \cup {None}
    BY DEF Outcome, PageRefusals
  <2> HIDE DEF outcome
  <2>3. outcome.refusal \notin Crawling
    BY <1>3, <2>1, <2>2 DEF Crawling, PageRefusals
  <2>4. QED
    BY <1>1, <2>1, <2>3, EndsStep
<1>4. QED
  BY <1>2, <1>3

LEMMA StoreLocalStep == ASSUME SearchInv, StoreLocal PROVE SearchInv'
<1> DEFINE outcome == Outcome(proc.seen, 0, 0)
<1>1. proc.at = "storing" /\ UNCHANGED <<session, actions>>
  BY DEF StoreLocal, work
<1>2. \/ /\ Accept(outcome)
         /\ proc' = [proc EXCEPT !.at = "source", !.seen = {}, !.memory = outcome.memory]
      \/ Refuse(outcome)
  BY DEF StoreLocal
<1>3. CASE Refuse(outcome)
  BY <1>1, <1>3, RefuseStep DEF Crawling
<1>4. CASE /\ Accept(outcome)
           /\ proc' = [proc EXCEPT !.at = "source", !.seen = {}, !.memory = outcome.memory]
  <2>1. /\ IsPage(proc.seen) /\ IsProc(proc) /\ proc.step \in Nat /\ Table(papers)
        /\ SoundCandidates(papers, candidates, Done)
    BY <1>1 DEF SearchInv, ProcInv, CandidatesInv
  <2>2. /\ outcome.refusal = None
        /\ papers' = outcome.papers /\ candidates' = outcome.candidates
    BY <1>4 DEF Accept
  <2> HIDE DEF outcome
  <2>3. Table(outcome.papers) /\ SoundCandidates(outcome.papers, outcome.candidates, Done \cup {0})
    BY <2>1, <2>2, BoundsAreNat, OutcomeIsSound DEF outcome
  <2>4. IsProc(proc') /\ proc'.at = "source" /\ proc'.step = proc.step
    BY <1>4, <2>1 DEF IsProc
  <2>5. Done' = Done
    BY <1>1 DEF Done
  <2>6. CandidatesInv'
    BY <2>2, <2>3, <2>5 DEF CandidatesInv, SoundCandidates
  <2>7. ProcInv'
    BY <2>1, <2>4 DEF ProcInv
  <2>8. SessionInv' /\ ClosedInv'
    BY <1>1 DEF SearchInv, SessionInv, ClosedInv, Crawling
  <2>9. ActionsInv'
    BY <1>1, <2>4 DEF SearchInv, ActionsInv, Crawling
  <2>10. QED
    BY <2>6, <2>7, <2>8, <2>9 DEF SearchInv
<1>5. QED
  BY <1>2, <1>3, <1>4

LEMMA AskSourceStep == ASSUME SearchInv, AskSource PROVE SearchInv'
<1>1. proc.at = "source" /\ UNCHANGED <<papers, candidates, session>>
  BY DEF AskSource
<1>2. \/ Stops("limit", "selecting") /\ UNCHANGED actions
      \/ Call("GET_PAPER", Source, 0)
  BY DEF AskSource
<1>3. CASE Stops("limit", "selecting") /\ UNCHANGED actions
  BY <1>1, <1>3, StopsStep DEF Crawling
<1>4. CASE Call("GET_PAPER", Source, 0)
  BY <1>1, <1>4, CallStep DEF Crawling
<1>5. QED
  BY <1>2, <1>3, <1>4

LEMMA QueryStep == ASSUME SearchInv, Query PROVE SearchInv'
<1>1. proc.at = "querying" /\ UNCHANGED <<papers, candidates, session>>
  BY DEF Query
<1>2. \/ Call("SEARCH_PAPERS", proc.asked + 1, 0)
      \/ Stops("limit", "selecting") /\ UNCHANGED actions
      \/ Moves("recommending") /\ UNCHANGED actions
  BY DEF Query
<1>3. CASE Call("SEARCH_PAPERS", proc.asked + 1, 0)
  BY <1>1, <1>3, CallStep DEF Crawling
<1>4. CASE Stops("limit", "selecting") /\ UNCHANGED actions
  BY <1>1, <1>4, StopsStep DEF Crawling
<1>5. CASE Moves("recommending") /\ UNCHANGED actions
  BY <1>1, <1>5, MovesStep DEF Crawling
<1>6. QED
  BY <1>2, <1>3, <1>4, <1>5

LEMMA RecommendStep == ASSUME SearchInv, Recommend PROVE SearchInv'
<1>1. proc.at = "recommending" /\ UNCHANGED <<papers, candidates, session>>
  BY DEF Recommend
<1>2. \/ Call("GET_RECOMMENDATIONS", None, 0)
      \/ Moves("queueing") /\ UNCHANGED actions
  BY DEF Recommend
<1>3. CASE Call("GET_RECOMMENDATIONS", None, 0)
  BY <1>1, <1>3, CallStep DEF Crawling
<1>4. CASE Moves("queueing") /\ UNCHANGED actions
  BY <1>1, <1>4, MovesStep DEF Crawling
<1>5. QED
  BY <1>2, <1>3, <1>4

LEMMA PlanStep == ASSUME SearchInv, Plan PROVE SearchInv'
<1>1. proc.at = "planning" /\ UNCHANGED <<papers, candidates, actions>>
  BY DEF Plan
<1>2. \/ Stops("limit", "selecting") /\ UNCHANGED session
      \/ \E plan \in Plans : /\ session' = [session EXCEPT !.plan = plan]
                             /\ proc' = [proc EXCEPT !.at = "querying", !.plan = plan]
  BY DEF Plan
<1>3. CASE Stops("limit", "selecting") /\ UNCHANGED session
  BY <1>1, <1>3, StopsStep DEF Crawling
<1>4. ASSUME NEW plan, session' = [session EXCEPT !.plan = plan],
             proc' = [proc EXCEPT !.at = "querying", !.plan = plan]
      PROVE  SearchInv'
  <2>1. /\ IsProc(proc) /\ proc.step \in Nat
        /\ IsRow(session) /\ session.status = "RUNNING"
    BY <1>1 DEF SearchInv, ProcInv, SessionInv, Crawling
  <2>2. IsProc(proc') /\ proc'.at = "querying" /\ proc'.step = proc.step
    BY <1>4, <2>1 DEF IsProc
  <2>3. IsRow(session') /\ session'.status = "RUNNING"
    BY <1>4, <2>1 DEF IsRow
  <2>4. ProcInv' /\ SessionInv' /\ ClosedInv'
    BY <2>1, <2>2, <2>3 DEF ProcInv, SessionInv, ClosedInv
  <2>5. ActionsInv'
    BY <1>1, <2>2 DEF SearchInv, ActionsInv, Crawling
  <2>6. CandidatesInv'
    BY <1>1 DEF SearchInv, CandidatesInv, Done
  <2>7. QED
    BY <2>4, <2>5, <2>6 DEF SearchInv
<1>5. QED
  BY <1>2, <1>3, <1>4

LEMMA EnqueueStep == ASSUME SearchInv, Enqueue PROVE SearchInv'
<1>1. proc.at = "queueing" /\ UNCHANGED <<papers, candidates, session, actions>>
  BY DEF Enqueue, work
<1>2. \E queue : proc' = [proc EXCEPT !.at = "expanding", !.queue = queue]
  BY DEF Enqueue
<1>3. PICK queue : proc' = [proc EXCEPT !.at = "expanding", !.queue = queue]
  BY <1>2
<1>4. IsProc(proc) /\ proc.step \in Nat
  BY DEF SearchInv, ProcInv
<1>5. IsProc(proc') /\ proc'.at = "expanding" /\ proc'.step = proc.step
  BY <1>3, <1>4 DEF IsProc
<1>6. QED
  BY <1>1, <1>4, <1>5, ProcStep DEF Crawling

LEMMA PopStep == ASSUME SearchInv, Pop PROVE SearchInv'
<1>1. proc.at = "expanding" /\ UNCHANGED <<papers, candidates, session, actions>>
  BY DEF Pop, work
<1>2. \/ Moves("selecting")
      \/ Stops("limit", "selecting")
      \/ \E queue, todo : proc' = [proc EXCEPT !.queue = queue, !.todo = todo]
  BY DEF Pop
<1>3. CASE Moves("selecting")
  BY <1>1, <1>3, MovesStep DEF Crawling
<1>4. CASE Stops("limit", "selecting")
  BY <1>1, <1>4, StopsStep DEF Crawling
<1>5. ASSUME NEW queue, NEW todo, proc' = [proc EXCEPT !.queue = queue, !.todo = todo]
      PROVE  SearchInv'
  <2>1. IsProc(proc) /\ proc.step \in Nat
    BY DEF SearchInv, ProcInv
  <2>2. IsProc(proc') /\ proc'.at = proc.at /\ proc'.step = proc.step
    BY <1>5, <2>1 DEF IsProc
  <2>3. QED
    BY <1>1, <2>1, <2>2, ProcStep
<1>6. QED
  BY <1>2, <1>3, <1>4, <1>5

LEMMA ExpandStep == ASSUME SearchInv, Expand PROVE SearchInv'
<1>1. proc.at = "expanding" /\ UNCHANGED <<papers, candidates, session>>
  BY DEF Expand
<1>2. \/ \E todo : proc' = [proc EXCEPT !.todo = todo] /\ UNCHANGED actions
      \/ /\ \E todo, pairs : proc' = [proc EXCEPT !.todo = todo, !.step = @ + 1, !.expanded = pairs]
         /\ UNCHANGED actions
      \/ \E tool, target, depth : Call(tool, target, depth)
  BY DEF Expand
<1>3. IsProc(proc) /\ proc.step \in Nat
  BY DEF SearchInv, ProcInv
<1>4. ASSUME NEW todo, proc' = [proc EXCEPT !.todo = todo], UNCHANGED actions
      PROVE  SearchInv'
  <2>1. IsProc(proc') /\ proc'.at = proc.at /\ proc'.step = proc.step
    BY <1>3, <1>4 DEF IsProc
  <2>2. QED
    BY <1>1, <1>3, <1>4, <2>1, ProcStep
<1>5. ASSUME NEW todo, NEW pairs,
             proc' = [proc EXCEPT !.todo = todo, !.step = @ + 1, !.expanded = pairs],
             UNCHANGED actions
      PROVE  SearchInv'
  <2>1. IsProc(proc') /\ proc'.at = proc.at /\ proc'.step = proc.step + 1
    BY <1>3, <1>5 DEF IsProc
  <2>2. proc'.step \in Nat /\ proc'.step >= proc.step
    BY <1>3, <2>1
  <2>3. QED
    BY <1>1, <1>5, <2>1, <2>2, ProcStep
<1>6. ASSUME NEW tool, NEW target, NEW depth, Call(tool, target, depth)
      PROVE  SearchInv'
  BY <1>1, <1>6, CallStep DEF Crawling
<1>7. QED
  BY <1>2, <1>4, <1>5, <1>6

\* The status of the last step changes, and nothing else of the actions.
LEMMA LastCall ==
    ASSUME SearchInv, proc.at = "calling", NEW status,
           actions' = [actions EXCEPT ![proc.step].status = status]
    PROVE  /\ DOMAIN actions' = DOMAIN actions /\ proc.step \in DOMAIN actions
           /\ actions' = [s \in DOMAIN actions' |-> actions'[s]]
           /\ \A s \in DOMAIN actions \ {proc.step} : actions'[s] = actions[s]
           /\ \A s \in DOMAIN actions' : IsCall(actions'[s])
           /\ actions'[proc.step].status = status
           /\ Done' = IF status = "COMPLETED" THEN Done \cup {proc.step} ELSE Done
<1>1. /\ actions = [s \in DOMAIN actions |-> actions[s]]
      /\ \A s \in DOMAIN actions : IsCall(actions[s])
      /\ proc.step \in DOMAIN actions /\ actions[proc.step].status = "RUNNING"
  BY DEF SearchInv, ActionsInv
<1>2. PICK last : last = [actions[proc.step] EXCEPT !.status = status]
  OBVIOUS
<1>3. IsCall(last) /\ last.status = status
  BY <1>1, <1>2 DEF IsCall
<1>4. actions' = [actions EXCEPT ![proc.step] = last]
  BY <1>2
<1>5. /\ DOMAIN actions' = DOMAIN actions
      /\ actions' = [s \in DOMAIN actions' |-> actions'[s]]
      /\ \A s \in DOMAIN actions \ {proc.step} : actions'[s] = actions[s]
      /\ actions'[proc.step] = last
  BY <1>1, <1>4
<1>6. \A s \in DOMAIN actions' : IsCall(actions'[s])
  BY <1>1, <1>3, <1>5
<1>7. Done' = IF status = "COMPLETED" THEN Done \cup {proc.step} ELSE Done
  BY <1>1, <1>3, <1>5 DEF Done
<1>8. QED
  BY <1>1, <1>3, <1>5, <1>6, <1>7

\* Papers and candidates change under a process that keeps its place or moves on.
LEMMA CandidatesStep ==
    ASSUME SearchInv, UNCHANGED <<session, actions>>,
           Table(papers'), SoundCandidates(papers', candidates', Done),
           IsProc(proc'), proc'.step = proc.step,
           proc'.at = "calling" => proc.at = "calling",
           proc'.at \in Crawling => proc.at \in Crawling,
           proc'.at = "storing" => IsPage(proc'.seen)
    PROVE  SearchInv'
<1>1. ProcInv' /\ SessionInv' /\ ActionsInv' /\ ClosedInv'
  BY DEF SearchInv, ProcInv, SessionInv, ActionsInv, ClosedInv, Running
<1>2. Done' = Done
  BY DEF Done
<1>3. CandidatesInv'
  BY <1>2 DEF CandidatesInv
<1>4. QED
  BY <1>1, <1>3 DEF SearchInv

\* A call ends while the process goes on searching.
LEMMA CallEnds ==
    ASSUME SearchInv, proc.at = "calling", UNCHANGED session, NEW status,
           actions' = [actions EXCEPT ![proc.step].status = status],
           Table(papers'), SoundCandidates(papers', candidates', Done'),
           IsProc(proc'), proc'.step = proc.step, proc'.at \notin {"calling", "storing"}
    PROVE  SearchInv'
<1>1. SessionInv /\ proc.step \in Nat /\ DOMAIN actions \subseteq 1 .. proc.step
  BY DEF SearchInv, ActionsInv, ProcInv, Crawling
<1>2. ProcInv' /\ SessionInv' /\ CandidatesInv' /\ ClosedInv'
  BY <1>1 DEF ProcInv, SessionInv, CandidatesInv, ClosedInv, Crawling
<1>3. ActionsInv'
  BY <1>1, LastCall DEF ActionsInv
<1>4. QED
  BY <1>2, <1>3 DEF SearchInv

LEMMA AnsweredStep == ASSUME SearchInv, Answered PROVE SearchInv'
<1> DEFINE call == actions[proc.step]
<1>1. proc.at = "calling" /\ UNCHANGED session
  BY DEF Answered
<1>2. PICK reply \in Answers(call) :
        \/ Answer(call, reply, Outcome(Page(call.tool, reply), call.depth, proc.step))
        \/ RefuseAnswer(Outcome(Page(call.tool, reply), call.depth, proc.step))
  BY DEF Answered
<1> HIDE DEF call
<1> DEFINE page == Page(call.tool, reply)
           outcome == Outcome(page, call.depth, proc.step)
<1>3. IsPage(page)
  <2>1. IsPage(reply)
    <3>1. reply \in SUBSET Records /\ \A r, q \in reply : r.sid = q.sid => r = q
      BY DEF Answers
    <3>2. QED
      BY <3>1, RecordsAreNamed, FS_Subset DEF IsPage
  <2>2. page \in SUBSET reply
    BY DEF Page, Cut
  <2> HIDE DEF page
  <2>3. QED
    BY <2>1, <2>2, SubpageIsPage
<1>4. CASE RefuseAnswer(outcome)
  <2>1. Refuse(outcome) /\ UNCHANGED <<session, actions>> /\ proc.at \in Crawling
    BY <1>1, <1>4 DEF RefuseAnswer, Crawling
  <2> HIDE DEF page
  <2>2. QED
    BY <2>1, RefuseStep
<1>5. CASE Answer(call, reply, outcome)
  <2>1. /\ outcome.refusal = None
        /\ papers' = outcome.papers /\ candidates' = outcome.candidates
    BY <1>5 DEF Answer, Accept
  <2>2. actions' = [actions EXCEPT ![proc.step].status = "COMPLETED"]
    BY <1>5 DEF Answer
  <2>3. proc' = [proc EXCEPT !.at = Then(call.tool), !.memory = outcome.memory,
                    !.sources = @ \cup SourceIds(call.tool, reply),
                    !.queue = @ \o Enqueued(call, outcome.memory)]
    BY <1>5 DEF Answer
  <2>4. /\ IsProc(proc) /\ Table(papers) /\ SoundCandidates(papers, candidates, Done)
    BY DEF SearchInv, ProcInv, CandidatesInv
  <2>5. Then(call.tool) \in {"planning", "querying", "queueing", "expanding"}
    BY DEF Then
  <2> HIDE DEF page
  <2>6. Table(outcome.papers) /\ SoundCandidates(outcome.papers, outcome.candidates, Done \cup {proc.step})
    BY <1>3, <2>1, <2>4, BoundsAreNat, OutcomeIsSound
  <2>7. Done' = Done \cup {proc.step}
    BY <1>1, <2>2, LastCall
  <2> HIDE DEF outcome
  <2>8. IsProc(proc') /\ proc'.at = Then(call.tool) /\ proc'.step = proc.step
    BY <2>3, <2>4 DEF IsProc
  <2>9. QED
    BY <1>1, <2>1, <2>2, <2>5, <2>6, <2>7, <2>8, CallEnds
<1>6. QED
  BY <1>2, <1>4, <1>5

LEMMA CallFailsStep == ASSUME SearchInv, CallFails PROVE SearchInv'
<1>1. /\ proc.at = "calling" /\ UNCHANGED <<papers, candidates, session>>
      /\ actions' = [actions EXCEPT ![proc.step].status = "FAILED"]
      /\ \/ proc' = [proc EXCEPT !.at = "failing"]
         \/ proc' = [proc EXCEPT !.at = "finishing", !.stop = "timeout"]
  BY DEF CallFails, Moves
<1>2. IsProc(proc) /\ Table(papers) /\ SoundCandidates(papers, candidates, Done)
  BY DEF SearchInv, ProcInv, CandidatesInv
<1>3. IsProc(proc') /\ proc'.at \in {"failing", "finishing"} /\ proc'.step = proc.step
  BY <1>1, <1>2 DEF IsProc
<1>4. Done' = Done
  <2>1. proc.at = "calling" /\ actions' = [actions EXCEPT ![proc.step].status = "FAILED"]
    BY <1>1
  <2>2. Done' = IF "FAILED" = "COMPLETED" THEN Done \cup {proc.step} ELSE Done
    BY <2>1, LastCall, Zenon
  <2>3. QED
    BY <2>2
<1>5. QED
  BY <1>1, <1>2, <1>3, <1>4, CallEnds

LEMMA DeadlineStep == ASSUME SearchInv, Deadline PROVE SearchInv'
<1>1. /\ proc.at \in Crawling /\ UNCHANGED <<papers, candidates, session, actions>>
      /\ Stops("timeout", "finishing")
  BY DEF Deadline, Crawling, work
<1>2. QED
  BY <1>1, StopsStep

LEMMA ModelFailsStep == ASSUME SearchInv, ModelFails PROVE SearchInv'
<1>1. /\ proc.at \in Crawling /\ UNCHANGED <<papers, candidates, session, actions>>
      /\ Moves("failing")
  BY DEF ModelFails, Crawling, work
<1>2. QED
  BY <1>1, MovesStep

\* Only decisions or targets of the candidates change.
LEMMA FieldsStep ==
    ASSUME SearchInv, UNCHANGED <<papers, session, actions>>,
           DOMAIN candidates' = DOMAIN candidates,
           candidates' = [id \in DOMAIN candidates' |-> candidates'[id]],
           \A id \in DOMAIN candidates :
              /\ IsFound(candidates'[id]) /\ candidates'[id].by = candidates[id].by
              /\ candidates'[id].decision \in {"PENDING", "REJECTED", "SELECTED"},
           Cardinality(SelectedOf(candidates')) <= MaxSelected,
           NEW at, Moves(at), at \notin {"calling", "storing"},
           at \in Crawling => proc.at \in Crawling
    PROVE  SearchInv'
<1>1. IsProc(proc) /\ Table(papers) /\ SoundCandidates(papers, candidates, Done)
  BY DEF SearchInv, ProcInv, CandidatesInv
<1>2. IsProc(proc') /\ proc'.at = at /\ proc'.step = proc.step
  BY <1>1 DEF IsProc, Moves
<1>3. SoundCandidates(papers, candidates', Done)
  <2>1. \A id \in DOMAIN candidates : candidates[id].by \subseteq {0} \cup Done
    BY <1>1 DEF SoundCandidates
  <2>2. DOMAIN candidates \subseteq Ids(papers)
    BY <1>1 DEF SoundCandidates
  <2>3. QED
    BY <2>1, <2>2 DEF SoundCandidates
<1>4. QED
  BY <1>1, <1>2, <1>3, CandidatesStep

LEMMA SelectStep == ASSUME SearchInv, Select PROVE SearchInv'
<1> DEFINE known == UNION {Candidate(sid) : sid \in DOMAIN proc.memory}
           D(chosen, rejected, id) == CASE id \in chosen -> "SELECTED"
                                        [] id \in rejected -> "REJECTED"
                                        [] OTHER -> "PENDING"
<1>1. proc.at = "selecting" /\ UNCHANGED <<papers, session, actions>>
  BY DEF Select, work
<1>2. CASE Ends("aliased") /\ UNCHANGED candidates
  BY <1>1, <1>2, EndsStep DEF Crawling
<1>3. ASSUME NEW chosen \in SUBSET known, NEW rejected \in SUBSET (known \ chosen),
             Cardinality(chosen) <= MaxSelected, Moves("finishing"),
             candidates' = [id \in DOMAIN candidates |->
                [candidates[id] EXCEPT !.decision = D(chosen, rejected, id)]]
      PROVE  SearchInv'
  <2>1. Table(papers) /\ SoundCandidates(papers, candidates, Done)
    BY DEF SearchInv, CandidatesInv
  <2>2. \A id : /\ D(chosen, rejected, id) \in {"PENDING", "REJECTED", "SELECTED"}
                /\ D(chosen, rejected, id) = "SELECTED" => id \in chosen
    OBVIOUS
  <2>3. known \subseteq DOMAIN candidates
    BY DEF Candidate
  <2>4. IsFiniteSet(chosen) /\ Cardinality(chosen) \in Nat
    <3>1. IsFiniteSet(DOMAIN candidates)
      BY <2>1, SelectedFinite DEF SoundCandidates
    <3>2. QED
      BY <2>3, <3>1, FS_Subset, FS_CardinalityType
  <2>5. \A id \in DOMAIN candidates : IsFound(candidates[id])
    BY <2>1 DEF SoundCandidates
  <2> HIDE DEF D, known
  <2>6. /\ DOMAIN candidates' = DOMAIN candidates
        /\ candidates' = [id \in DOMAIN candidates' |-> candidates'[id]]
        /\ \A id \in DOMAIN candidates : candidates'[id] =
              [candidates[id] EXCEPT !.decision = D(chosen, rejected, id)]
    BY <1>3
  <2>7. \A id \in DOMAIN candidates :
           /\ IsFound(candidates'[id]) /\ candidates'[id].by = candidates[id].by
           /\ candidates'[id].decision = D(chosen, rejected, id)
    BY <2>5, <2>6 DEF IsFound
  <2>8. SelectedOf(candidates') \in SUBSET chosen
    BY <2>2, <2>6, <2>7 DEF SelectedOf
  <2>9. Cardinality(SelectedOf(candidates')) <= MaxSelected
    <3>1. /\ Cardinality(SelectedOf(candidates')) <= Cardinality(chosen)
          /\ Cardinality(SelectedOf(candidates')) \in Nat
      BY <2>4, <2>8, FS_Subset, FS_CardinalityType
    <3>2. QED
      BY <1>3, <2>4, <3>1, BoundsAreNat
  <2>10. \A id \in DOMAIN candidates :
            candidates'[id].decision \in {"PENDING", "REJECTED", "SELECTED"}
    BY <2>2, <2>7
  <2>11. QED
    BY <1>1, <1>3, <2>6, <2>7, <2>9, <2>10, FieldsStep DEF Crawling
<1>4. QED
  BY <1>2, <1>3 DEF Select

LEMMA AssignStep == ASSUME SearchInv, Assign PROVE SearchInv'
<1>1. proc.at = "assigning" /\ UNCHANGED <<papers, session, actions>>
  BY DEF Assign, work
<1>2. \/ Moves("out") /\ UNCHANGED candidates
      \/ \E why \in {"aliased", "overtargeted"} : Ends(why) /\ UNCHANGED candidates
      \/ \E targets : /\ candidates' = [id \in DOMAIN candidates |->
                            [candidates[id] EXCEPT !.target = id \in targets]]
                      /\ Moves("planned")
  BY DEF Assign
<1>3. CASE Moves("out") /\ UNCHANGED candidates
  BY <1>1, <1>3, MovesStep DEF Crawling
<1>4. ASSUME NEW why \in {"aliased", "overtargeted"}, Ends(why), UNCHANGED candidates
      PROVE  SearchInv'
  BY <1>1, <1>4, EndsStep DEF Crawling
<1>5. ASSUME NEW targets, Moves("planned"),
             candidates' = [id \in DOMAIN candidates |->
                [candidates[id] EXCEPT !.target = id \in targets]]
      PROVE  SearchInv'
  <2>1. /\ \A id \in DOMAIN candidates :
              /\ IsFound(candidates[id])
              /\ candidates[id].decision \in {"PENDING", "REJECTED", "SELECTED"}
        /\ Cardinality(SelectedOf(candidates)) <= MaxSelected
    BY DEF SearchInv, CandidatesInv, SoundCandidates
  <2>2. /\ DOMAIN candidates' = DOMAIN candidates
        /\ candidates' = [id \in DOMAIN candidates' |-> candidates'[id]]
        /\ \A id \in DOMAIN candidates :
              candidates'[id] = [candidates[id] EXCEPT !.target = id \in targets]
    BY <1>5
  <2>3. \A id \in DOMAIN candidates :
           /\ IsFound(candidates'[id]) /\ candidates'[id].by = candidates[id].by
           /\ candidates'[id].decision = candidates[id].decision
    BY <2>1, <2>2 DEF IsFound
  <2>4. SelectedOf(candidates') = SelectedOf(candidates)
    BY <2>2, <2>3 DEF SelectedOf
  <2>5. QED
    BY <1>1, <1>5, <2>1, <2>2, <2>3, <2>4, FieldsStep DEF Crawling
<1>6. QED
  BY <1>2, <1>3, <1>4, <1>5

\* A finished session has no call under way.
LEMMA FinishesStep ==
    ASSUME SearchInv, UNCHANGED <<papers, candidates, actions>>, proc.at \in Crawling,
           NEW status, NEW stop, NEW at, Finishes(status, stop, at), at \notin Crawling
    PROVE  SearchInv'
<1>1. CASE MayFinish
  <2>1. session' = [session EXCEPT !.status = status, !.stop = stop] /\ Moves(at)
    BY <1>1 DEF Finishes
  <2>2. IsProc(proc) /\ proc.step \in Nat
    BY DEF SearchInv, ProcInv
  <2>3. IsProc(proc') /\ proc'.at = at /\ proc'.step = proc.step
    BY <2>1, <2>2 DEF IsProc, Moves
  <2>4. ProcInv' /\ SessionInv'
    BY <2>2, <2>3 DEF ProcInv, SessionInv, Crawling
  <2>5. ActionsInv' /\ ClosedInv'
    BY <1>1, <2>3 DEF SearchInv, ActionsInv, ClosedInv, MayFinish, Running, Crawling
  <2>6. CandidatesInv'
    BY DEF SearchInv, CandidatesInv, Done
  <2>7. QED
    BY <2>4, <2>5, <2>6 DEF SearchInv
<1>2. CASE ~ MayFinish
  <2>1. Ends("running") /\ UNCHANGED session
    BY <1>2 DEF Finishes
  <2>2. QED
    BY <2>1, EndsStep DEF Crawling
<1>3. QED
  BY <1>1, <1>2

LEMMA CompleteStep == ASSUME SearchInv, Complete PROVE SearchInv'
<1>1. /\ proc.at \in Crawling /\ UNCHANGED <<papers, candidates, actions>>
      /\ Finishes("COMPLETE", proc.stop, "reading")
  BY DEF Complete, Crawling
<1>2. QED
  BY <1>1, FinishesStep DEF Crawling

LEMMA FailStep == ASSUME SearchInv, Fail PROVE SearchInv'
<1>1. /\ proc.at \in Crawling /\ UNCHANGED <<papers, candidates, actions>>
      /\ Finishes("FAILED", "failed", "out")
  BY DEF Fail, Crawling
<1>2. QED
  BY <1>1, FinishesStep DEF Crawling

----------------------------------------------------------------------------
(* The steps after the search, and of others *)

\* Reading, comparing and leaving touch neither the session nor its candidates.
AfterTheSearch == Read \/ ReadTargets \/ Materialize \/ Draft \/ Compare \/ Leave

LEMMA AfterTheSearchStep == ASSUME SearchInv, AfterTheSearch PROVE SearchInv'
<1>1. UNCHANGED <<papers, candidates, session, actions>>
  BY DEF AfterTheSearch, Read, ReadTargets, Materialize, Draft, Compare, Leave, work
<1>2. IsProc(proc) /\ proc.step \in Nat
  BY DEF SearchInv, ProcInv
<1>3. CASE Read
  <2>1. \E seen : proc' = [Out EXCEPT !.at = "assigning", !.seen = seen]
    BY <1>3 DEF Read
  <2>2. IsProc(proc') /\ proc'.at = "assigning" /\ proc'.step = 0
    BY <2>1 DEF Out, IsProc
  <2>3. QED
    BY <1>1, <2>2, ProcStep DEF Crawling
<1>4. CASE ReadTargets
  <2>1. \/ proc' = [proc EXCEPT !.at = "materializing", !.seen = TargetPairs]
        \/ proc' = [proc EXCEPT !.at = "comparing", !.seen = TargetPairs]
    <3>1. PICK next \in {<<"planned", "materializing">>, <<"materialized", "comparing">>} :
             proc' = [proc EXCEPT !.at = next[2], !.seen = TargetPairs]
      BY <1>4 DEF ReadTargets
    <3>2. next[2] = "materializing" \/ next[2] = "comparing"
      OBVIOUS
    <3>3. QED
      BY <3>1, <3>2
  <2>2. IsProc(proc') /\ proc'.at \in {"materializing", "comparing"} /\ proc'.step = proc.step
    BY <1>2, <2>1 DEF IsProc
  <2>3. QED
    BY <1>1, <1>2, <2>2, ProcStep DEF Crawling
<1>5. CASE Materialize
  <2>1. Moves("materialized") \/ Ends("aliased")
    BY <1>5 DEF Materialize
  <2>2. QED
    BY <1>1, <2>1, MovesStep, EndsStep DEF Crawling
<1>6. CASE Draft
  <2>1. /\ proc.at = "comparing"
        /\ \/ \E seen : proc' = [proc EXCEPT !.seen = seen]
           \/ \E seen, draft : proc' = [[proc EXCEPT !.seen = seen] EXCEPT !.at = "drafted", !.draft = draft]
    BY <1>6 DEF Draft, Dropped
  <2>2. IsProc(proc') /\ proc'.at \in {"comparing", "drafted"} /\ proc'.step = proc.step
    BY <1>2, <2>1 DEF IsProc
  <2>3. QED
    BY <1>1, <1>2, <2>2, ProcStep DEF Crawling
<1>7. CASE Compare
  <2>1. \/ proc' = [proc EXCEPT !.at = "comparing", !.draft = None]
        \/ Ends("aliased")
    BY <1>7 DEF Compare
  <2>2. CASE Ends("aliased")
    BY <1>1, <2>2, EndsStep DEF Crawling
  <2>3. CASE proc' = [proc EXCEPT !.at = "comparing", !.draft = None]
    <3>1. IsProc(proc') /\ proc'.at = "comparing" /\ proc'.step = proc.step
      BY <1>2, <2>3 DEF IsProc
    <3>2. QED
      BY <1>1, <1>2, <3>1, ProcStep DEF Crawling
  <2>4. QED
    BY <2>1, <2>2, <2>3
<1>8. CASE Leave
  <2>1. Moves("out")
    BY <1>8 DEF Leave
  <2>2. QED
    BY <1>1, <2>1, MovesStep DEF Crawling
<1>9. QED
  BY <1>3, <1>4, <1>5, <1>6, <1>7, <1>8 DEF AfterTheSearch

LEMMA CrashStep == ASSUME SearchInv, Crash PROVE SearchInv'
<1>1. UNCHANGED <<papers, candidates, session, actions>> /\ Ends("out")
  BY DEF Crash, work
<1>2. QED
  BY <1>1, EndsStep DEF Crawling

LEMMA SingletonIsPage ==
    ASSUME NEW r \in Elsewhere
    PROVE  IsPage({r})
  BY RecordsAreNamed, FS_Singleton DEF IsPage

LEMMA StoreElsewhereStep ==
    ASSUME SearchInv, NEW r \in Elsewhere, StoreElsewhere(r)
    PROVE  /\ SearchInv'
           /\ SelectedGoOn(papers, candidates, papers', candidates')
<1> DEFINE state == StoredBy({r})
<1>1. /\ papers' = state.papers /\ candidates' = state.candidates
      /\ UNCHANGED <<session, actions, proc>>
  BY DEF StoreElsewhere, work
<1>2. Table(papers) /\ SoundCandidates(papers, candidates, Done) /\ IsProc(proc)
  BY DEF SearchInv, CandidatesInv, ProcInv
<1>3. SoundState(state, Done)
  BY <1>2, BoundsAreNat, SingletonIsPage, PageIsSound
<1> HIDE DEF state
<1>4. /\ Table(papers') /\ SoundCandidates(papers', candidates', Done)
      /\ SelectedGoOn(papers, candidates, papers', candidates')
  BY <1>1, <1>3 DEF SoundState
<1>5. SearchInv'
  BY <1>1, <1>2, <1>4, CandidatesStep DEF SearchInv, ProcInv
<1>6. QED
  BY <1>4, <1>5

----------------------------------------------------------------------------
(* The theorems *)

LEMMA NextKeepsInv == ASSUME SearchInv, [Next]_vars PROVE SearchInv'
<1>1. CASE UNCHANGED vars
  <2>1. UNCHANGED <<papers, session, actions, candidates, proc>>
    BY <1>1 DEF vars
  <2>2. QED
    BY <2>1 DEF SearchInv, ProcInv, SessionInv, ActionsInv, CandidatesInv, ClosedInv, Done,
                Running
<1>2. CASE Work
  <2>1. \/ Open \/ SearchCorpus \/ StoreLocal \/ AskSource \/ Plan \/ Query \/ Recommend
        \/ Enqueue \/ Pop \/ Expand \/ Answered \/ Select \/ Complete \/ Fail
        \/ Assign \/ AfterTheSearch
    BY <1>2 DEF Work, AfterTheSearch
  <2>2. QED
    BY <2>1, OpenStep, SearchCorpusStep, StoreLocalStep, AskSourceStep, PlanStep, QueryStep,
       RecommendStep, EnqueueStep, PopStep, ExpandStep, AnsweredStep, SelectStep, CompleteStep,
       FailStep, AssignStep, AfterTheSearchStep
<1>3. CASE CallFails \/ Deadline \/ ModelFails \/ Crash
  BY <1>3, CallFailsStep, DeadlineStep, ModelFailsStep, CrashStep
<1>4. ASSUME NEW r \in Elsewhere, StoreElsewhere(r) PROVE SearchInv'
  BY <1>4, StoreElsewhereStep
<1>5. QED
  BY <1>1, <1>2, <1>3, <1>4 DEF Next

\* Whatever the provider answers, the models decide, and other transactions
\* store: candidates are stored papers, found by the corpus and by completed
\* calls, and a searching process has a RUNNING session to itself.
THEOREM SearchIsSound == Spec => []SearchInv
<1>1. QED
  BY InitIsSound, NextKeepsInv, PTL DEF Spec

\* A session rests without a call under way (_finish_search_session), with
\* candidates that only completed calls have found, and with no more of them
\* selected than the session allows, however papers were re-keyed and merged.
THEOREM SessionsAreClosed == Spec => []TerminalSessionsAreClosed
<1>1. SearchInv => TerminalSessionsAreClosed
  <2>1. SUFFICES ASSUME SearchInv, session # None /\ session.status # "RUNNING"
                 PROVE  /\ ~ Running
                        /\ \A id \in DOMAIN candidates : \A s \in candidates[id].by \ {0} :
                              actions[s].status = "COMPLETED"
                        /\ Cardinality({id \in DOMAIN candidates :
                              candidates[id].decision = "SELECTED"}) <= MaxSelected
    BY DEF TerminalSessionsAreClosed
  <2>2. ~ Running
    BY <2>1 DEF SearchInv, ClosedInv
  <2>3. \A id \in DOMAIN candidates : candidates[id].by \subseteq {0} \cup Done
    BY <2>1 DEF SearchInv, CandidatesInv, SoundCandidates
  <2>4. Cardinality({id \in DOMAIN candidates : candidates[id].decision = "SELECTED"})
           <= MaxSelected
    BY <2>1 DEF SearchInv, CandidatesInv, SoundCandidates, SelectedOf
  <2>5. QED
    BY <2>2, <2>3, <2>4 DEF Done
<1>2. QED
  BY <1>1, SearchIsSound, PTL

LEMMA ChosenAreSelected == Chosen = {p \in papers : p.id \in SelectedOf(candidates)}
  BY DEF Chosen, SelectedOf

\* What a step may not do to a COMPLETE session.
KeepsWork == session' = session /\ actions' = actions
             /\ SelectedGoOn(papers, candidates, papers', candidates')

LEMMA FinishedStaysFinished ==
    ASSUME SearchInv, [Next]_vars, session # None, session.status = "COMPLETE"
    PROVE  KeepsWork
<1>1. proc.at \notin Crawling
  BY DEF SearchInv, SessionInv
\* Steps that keep the papers and the candidates as they are.
<1>2. ASSUME UNCHANGED <<papers, candidates, session, actions>>
      PROVE  KeepsWork
  BY <1>2 DEF KeepsWork, SelectedGoOn
<1>3. CASE UNCHANGED vars
  BY <1>2, <1>3 DEF vars
<1>4. CASE Open
  BY <1>2, <1>4 DEF Open
<1>5. CASE \/ SearchCorpus \/ StoreLocal \/ AskSource \/ Plan \/ Query \/ Recommend
           \/ Enqueue \/ Pop \/ Expand \/ Answered \/ Select \/ Complete \/ Fail
           \/ CallFails \/ Deadline \/ ModelFails
  <2>1. proc.at \in {"local", "storing", "source", "planning", "querying", "recommending",
                     "queueing", "expanding", "calling", "selecting", "finishing", "failing"}
    BY <1>5 DEF SearchCorpus, StoreLocal, AskSource, Plan, Query, Recommend, Enqueue, Pop,
                Expand, Answered, Select, Complete, Fail, CallFails, Deadline, ModelFails
  <2>2. QED
    BY <1>1, <2>1 DEF Crawling
<1>6. CASE Assign
  <2>1. /\ UNCHANGED <<papers, session, actions>>
        /\ \/ UNCHANGED candidates
           \/ \E targets : candidates' = [id \in DOMAIN candidates |->
                              [candidates[id] EXCEPT !.target = id \in targets]]
    BY <1>6 DEF Assign, work
  <2>2. ASSUME NEW targets,
               candidates' = [id \in DOMAIN candidates |->
                                [candidates[id] EXCEPT !.target = id \in targets]]
        PROVE  KeepsWork
    <3>1. \A id \in DOMAIN candidates : IsFound(candidates[id])
      BY DEF SearchInv, CandidatesInv, SoundCandidates
    <3>2. /\ DOMAIN candidates' = DOMAIN candidates
          /\ \A id \in DOMAIN candidates :
                candidates'[id] = [candidates[id] EXCEPT !.target = id \in targets]
      BY <2>2
    <3>3. \A id \in DOMAIN candidates : candidates'[id].decision = candidates[id].decision
      BY <3>1, <3>2 DEF IsFound
    <3>4. SelectedOf(candidates') = SelectedOf(candidates)
      BY <3>2, <3>3 DEF SelectedOf
    <3>5. QED
      BY <2>1, <3>4 DEF KeepsWork, SelectedGoOn
  <2>3. QED
    BY <1>2, <2>1, <2>2
<1>7. CASE AfterTheSearch
  <2>1. UNCHANGED <<papers, candidates, session, actions>>
    BY <1>7 DEF AfterTheSearch, Read, ReadTargets, Materialize, Draft, Compare, Leave, work
  <2>2. QED
    BY <1>2, <2>1
<1>8. CASE Crash
  BY <1>2, <1>8 DEF Crash, work
<1>9. ASSUME NEW r \in Elsewhere, StoreElsewhere(r) PROVE KeepsWork
  BY <1>9, StoreElsewhereStep DEF StoreElsewhere, work, KeepsWork
<1>10. QED
  BY <1>3, <1>4, <1>5, <1>6, <1>7, <1>8, <1>9 DEF Next, Work, AfterTheSearch

\* A COMPLETE session and its actions stay as they are, and the record behind
\* a selected candidate stays selected through every merge of papers
\* (_rekey_external_dependents merges the rows of search_candidates).
THEOREM FinishedWorkIsKept == Spec => FinishedSessionsKeepTheirWork
<1>1. ASSUME SearchInv, [Next]_vars
      PROVE  [session # None /\ session.status = "COMPLETE" =>
                 /\ session' = session /\ actions' = actions
                 /\ \A p \in Chosen : \E q \in Chosen' : p.of \subseteq q.of]_vars
  <2>1. SUFFICES ASSUME session # None, session.status = "COMPLETE"
                 PROVE  /\ session' = session /\ actions' = actions
                        /\ \A p \in Chosen : \E q \in Chosen' : p.of \subseteq q.of
    OBVIOUS
  <2>2. KeepsWork
    BY <1>1, <2>1, FinishedStaysFinished
  <2>3. Chosen = {p \in papers : p.id \in SelectedOf(candidates)}
    BY ChosenAreSelected
  <2>4. Chosen' = {p \in papers' : p.id \in SelectedOf(candidates')}
    BY DEF Chosen, SelectedOf
  <2>5. QED
    BY <2>2, <2>3, <2>4 DEF KeepsWork, SelectedGoOn
<1>2. QED
  BY <1>1, SearchIsSound, PTL DEF Spec, FinishedSessionsKeepTheirWork

----------------------------------------------------------------------------
(* The records behind the papers *)

SidsOf(p) == {r.sid : r \in p.of}

\* What all records of a paper of the provider say of its identifiers.
ArxivOf(s, v) == v # None /\ \A r \in Records : r.sid = s => r.arxiv = v
DoiOf(s, v) == v # None /\ \A r \in Records : r.sid = s => r.doi = v
Nameless(s) == \A r \in Records : r.sid = s => r.arxiv = None /\ r.doi = None

\* The identifiers that all records of the paper that the provider knows as s have
\* are among these, which are none where no record has any.
Names(s, arxiv, doi) ==
    /\ \E r \in Records : r.sid = s
    /\ \A r \in Records : /\ ArxivOf(s, r.arxiv) => arxiv = r.arxiv
                          /\ DoiOf(s, r.doi) => doi = r.doi
    /\ Nameless(s) => arxiv = None /\ doi = None

\* No identifier of the provider.
Foreign(arxiv) == \A r \in Records : r.sid # arxiv

KnownPaper(r) == (OneIdentity => Names(r.sid, r.arxiv, r.doi)) /\ Foreign(r.arxiv)

\* Each row has the identifiers of all records that it stands for, and stands for
\* no record of another row.
Identified(rows) ==
    /\ \A p \in rows : \A s \in SidsOf(p) :
          /\ Names(s, p.arxiv, p.doi)
          /\ p.arxiv = None /\ p.doi = None => SidsOf(p) = {s}
    /\ \A p, q \in rows : p # q => SidsOf(p) \cap SidsOf(q) = {}

\* Each row is one of the records that it stands for; and is identified as long as
\* the provider gives the records of one paper something in common.
Traced(rows) ==
    /\ \A p \in rows : /\ p.id \in {p.sid, p.arxiv} /\ p.sid \in SidsOf(p)
                       /\ Foreign(p.arxiv)
    /\ OneIdentity => Identified(rows)

\* The DOI of a record that is not ambiguous, or of a row it matches, is the merged
\* row's.
LEMMA DoiIsKept ==
    ASSUME NEW rows, Table(rows), NEW r, ~Ambiguous(rows, r),
           NEW p \in Matching(rows, r) \cup {r}, p.doi # None
    PROVE  Merged(rows, r).doi = p.doi
<1> DEFINE K == Known(rows, r, "doi")
<1>1. IsFiniteSet(K)
  BY KnownIsFinite DEF Table
<1>2. p.doi \in K
  BY DEF Known
<1>3. Union(rows, r, "doi") \in K
  BY <1>2 DEF Union
<1>4. ~(Cardinality(K) > 1)
  BY DEF Ambiguous
<1> HIDE DEF K
<1>5. Union(rows, r, "doi") = p.doi
  BY <1>1, <1>2, <1>3, <1>4, TwoAreMany
<1>6. QED
  BY <1>5 DEF Merged

\* A named paper has an identifier that all its records have, or it has none.
LEMMA HowNamed ==
    ASSUME OneIdentity, NEW s, NEW arxiv, NEW doi, Names(s, arxiv, doi)
    PROVE  \/ ArxivOf(s, arxiv)
           \/ DoiOf(s, doi)
           \/ Nameless(s) /\ arxiv = None /\ doi = None
<1>1. PICK x \in Records : x.sid = s
  BY DEF Names
<1>2. ArxivOf(s, x.arxiv) \/ DoiOf(s, x.doi) \/ Nameless(s)
  BY <1>1 DEF OneIdentity, ArxivOf, DoiOf, Nameless
<1>3. CASE ArxivOf(s, x.arxiv)
  BY <1>3 DEF Names
<1>4. CASE DoiOf(s, x.doi)
  BY <1>4 DEF Names
<1>5. CASE Nameless(s)
  BY <1>5 DEF Names
<1>6. QED
  BY <1>2, <1>3, <1>4, <1>5

\* A record of the paper has the identifier too.
LEMMA SameName ==
    ASSUME NEW s, NEW v, NEW arxiv, NEW doi, Names(s, arxiv, doi)
    PROVE  /\ ArxivOf(s, v) => arxiv = v
           /\ DoiOf(s, v) => doi = v
           /\ Nameless(s) => arxiv = None /\ doi = None
<1>1. PICK x \in Records : x.sid = s
  BY DEF Names
<1>2. (ArxivOf(s, v) => x.arxiv = v) /\ (DoiOf(s, v) => x.doi = v)
  BY <1>1 DEF ArxivOf, DoiOf
<1>3. QED
  BY <1>1, <1>2 DEF Names

\* A paper without identifiers is matched by records of its own only.
LEMMA NamelessIsAlone ==
    ASSUME OneIdentity, NEW rows, Table(rows), Traced(rows), NEW r, Named(r), KnownPaper(r),
           NEW p \in Matching(rows, r), p.arxiv = None, p.doi = None
    PROVE  SidsOf(p) = {r.sid} /\ p.sid = r.sid /\ Nameless(r.sid)
<1>1. p \in rows
  BY DEF Matching
<1>2. /\ p.id \in Nat /\ p.sid \in Nat /\ p.id \in {p.sid, p.arxiv} /\ p.sid \in SidsOf(p)
      /\ SidsOf(p) = {p.sid} /\ Names(p.sid, p.arxiv, p.doi)
  BY <1>1 DEF Traced, Identified, Table, Named
<1>3. p.id = p.sid
  BY <1>2, NoneIsNoNumber
<1>4. Nameless(p.sid)
  BY <1>2, HowNamed DEF ArxivOf, DoiOf
<1>5. p.id = Identity(r) \/ p.sid = r.sid
  BY DEF Matching
<1>6. p.sid = r.sid
  <2>1. CASE p.id = r.arxiv
    BY <1>2, <1>3, <2>1 DEF KnownPaper, Foreign, Names
  <2>2. QED
    BY <1>3, <1>5, <2>1 DEF Identity
<1>7. QED
  BY <1>2, <1>4, <1>6

\* A row that stands for a record's paper matches it.
LEMMA OwnRowMatches ==
    ASSUME OneIdentity, NEW rows, Traced(rows), NEW r, Named(r), KnownPaper(r),
           NEW p \in rows, r.sid \in SidsOf(p)
    PROVE  p \in Matching(rows, r)
<1>1. /\ p.sid \in SidsOf(p) /\ Names(r.sid, p.arxiv, p.doi)
      /\ p.arxiv = None /\ p.doi = None => SidsOf(p) = {r.sid}
  BY DEF Traced, Identified
<1>2. Names(r.sid, r.arxiv, r.doi)
  BY DEF KnownPaper
<1>3. CASE ArxivOf(r.sid, r.arxiv)
  <2>1. p.arxiv = r.arxiv
    BY <1>1, <1>3, SameName
  <2>2. r.arxiv # None
    BY <1>3 DEF ArxivOf
  <2>3. QED
    BY <2>1, <2>2 DEF Matching
<1>4. CASE DoiOf(r.sid, r.doi)
  <2>1. p.doi = r.doi
    BY <1>1, <1>4, SameName
  <2>2. r.doi # None
    BY <1>4 DEF DoiOf
  <2>3. QED
    BY <2>1, <2>2 DEF Matching
<1>5. CASE Nameless(r.sid)
  <2>1. p.sid = r.sid
    BY <1>1, <1>5, SameName
  <2>2. QED
    BY <2>1 DEF Matching
<1>6. QED
  BY <1>2, <1>3, <1>4, <1>5, HowNamed


\* A record of a paper without identifiers matches papers without identifiers only.
LEMMA NamelessMatches ==
    ASSUME OneIdentity, NEW rows, Table(rows), Traced(rows), NEW r, Named(r), KnownPaper(r),
           Nameless(r.sid), NEW p \in Matching(rows, r)
    PROVE  p.arxiv = None /\ p.doi = None
<1>1. Names(r.sid, r.arxiv, r.doi)
  BY DEF KnownPaper
<1>2. r.arxiv = None /\ r.doi = None
  BY <1>1 DEF Names
<1>3. p \in rows /\ (p.id = r.sid \/ p.sid = r.sid)
  BY <1>2 DEF Matching, Identity
<1>4. p.id \in {p.sid, p.arxiv} /\ p.sid \in SidsOf(p) /\ Foreign(p.arxiv)
  BY <1>3 DEF Traced
<1>5. p.sid = r.sid
  BY <1>1, <1>3, <1>4 DEF Foreign, Names
<1>6. Names(r.sid, p.arxiv, p.doi)
  BY <1>3, <1>4, <1>5 DEF Traced, Identified
<1>7. QED
  BY <1>6 DEF Names

LEMMA NoneIsForeign == Foreign(None)
  BY SearchAssumption, NoneIsNoNumber DEF Foreign

\* A stored record leaves rows that are traced.
LEMMA UpsertIsTraced ==
    ASSUME NEW rows, Table(rows), Traced(rows), NEW r, Named(r), KnownPaper(r),
           ~Ambiguous(rows, r)
    PROVE  Traced(Upserted(rows, r))
<1> DEFINE m == Merged(rows, r)
           M == Matching(rows, r)
<1>1. m.id = Identity(r) /\ m.sid = r.sid /\ m.of = {r} \cup UNION {p.of : p \in M}
  BY DEF Merged
<1>2. \A s : s \in SidsOf(m) <=> s = r.sid \/ \E p \in M : s \in SidsOf(p)
  BY <1>1 DEF SidsOf
<1>3. \A p \in M \cup {r} : /\ p.arxiv # None => m.arxiv = p.arxiv
                            /\ p.doi # None => m.doi = p.doi
  BY ArxivIsKept, DoiIsKept
<1>4. /\ m.arxiv # None => \E p \in M \cup {r} : p.arxiv = m.arxiv
      /\ m.doi # None => \E p \in M \cup {r} : p.doi = m.doi
  BY UnionIsKnown DEF Merged
<1>5. M \subseteq rows
  BY DEF Matching
<1> HIDE DEF m, M
<1>6. m.id \in {m.sid, m.arxiv} /\ m.sid \in SidsOf(m)
  BY <1>1, <1>2, <1>3 DEF Identity
<1>7. Foreign(m.arxiv)
  <2>1. \A p \in M \cup {r} : Foreign(p.arxiv)
    BY <1>5 DEF Traced, KnownPaper
  <2>2. QED
    BY <1>4, <2>1, NoneIsForeign
<1>8. ASSUME OneIdentity, NEW s \in SidsOf(m) PROVE Names(s, m.arxiv, m.doi)
  <2>1. PICK p \in M \cup {r} : Names(s, p.arxiv, p.doi)
    <3>1. \E p \in M \cup {r} : Names(s, p.arxiv, p.doi)
      BY <1>2, <1>5, <1>8 DEF KnownPaper, Traced, Identified
    <3>2. QED
      BY <3>1
  <2>2. ASSUME NEW x \in Records PROVE /\ ArxivOf(s, x.arxiv) => m.arxiv = x.arxiv
                                       /\ DoiOf(s, x.doi) => m.doi = x.doi
    <3>1. /\ ArxivOf(s, x.arxiv) => p.arxiv = x.arxiv /\ x.arxiv # None
          /\ DoiOf(s, x.doi) => p.doi = x.doi /\ x.doi # None
      BY <2>1 DEF Names, ArxivOf, DoiOf
    <3>2. QED
      BY <1>3, <2>1, <3>1
  <2>3. ASSUME Nameless(s) PROVE m.arxiv = None /\ m.doi = None
    <3>1. s = r.sid
      <4>1. SUFFICES ASSUME s # r.sid PROVE FALSE
        OBVIOUS
      <4>2. PICK q \in M : s \in SidsOf(q)
        BY <1>2, <1>8, <4>1
      <4>3. Names(s, q.arxiv, q.doi)
        BY <1>5, <1>8, <4>2 DEF Traced, Identified
      <4>4. q.arxiv = None /\ q.doi = None
        BY <2>3, <4>3 DEF Names
      <4>5. SidsOf(q) = {r.sid}
        BY <1>8, <4>4, NamelessIsAlone DEF M
      <4>6. QED
        BY <4>1, <4>2, <4>5
    <3>2. \A q \in M : q.arxiv = None /\ q.doi = None
      BY <1>8, <2>3, <3>1, NamelessMatches DEF M
    <3>3. r.arxiv = None /\ r.doi = None
      BY <1>8, <2>3, <3>1 DEF KnownPaper, Names
    <3>4. QED
      BY <1>4, <3>2, <3>3
  <2>4. \E x \in Records : x.sid = s
    BY <2>1 DEF Names
  <2>5. QED
    BY <2>2, <2>3, <2>4 DEF Names
<1>9. ASSUME OneIdentity, NEW s \in SidsOf(m), m.arxiv = None, m.doi = None PROVE SidsOf(m) = {s}
  <2>1. \A p \in M : p.arxiv = None /\ p.doi = None
    BY <1>3, <1>9
  <2>2. \A p \in M : SidsOf(p) = {r.sid}
    BY <1>9, <2>1, NamelessIsAlone DEF M
  <2>3. QED
    BY <1>2, <1>9, <2>2
<1>10. ASSUME OneIdentity, NEW p \in rows \ M PROVE SidsOf(p) \cap SidsOf(m) = {}
  <2>1. SUFFICES ASSUME NEW s \in SidsOf(p), s \in SidsOf(m) PROVE FALSE
    OBVIOUS
  <2>2. CASE s = r.sid
    BY <1>10, <2>1, <2>2, OwnRowMatches DEF M
  <2>3. CASE \E q \in M : s \in SidsOf(q)
    BY <1>5, <1>10, <2>1, <2>3 DEF Traced, Identified
  <2>4. QED
    BY <1>2, <2>1, <2>2, <2>3
<1>11. Upserted(rows, r) = (rows \ M) \cup {m}
  BY DEF Upserted, M, m
<1>12. \A p \in rows \ M : /\ p.id \in {p.sid, p.arxiv} /\ p.sid \in SidsOf(p)
                           /\ Foreign(p.arxiv)
  BY DEF Traced
<1>13. ASSUME OneIdentity PROVE Identified(Upserted(rows, r))
  <2>1. /\ \A p \in rows \ M : \A s \in SidsOf(p) :
              /\ Names(s, p.arxiv, p.doi)
              /\ p.arxiv = None /\ p.doi = None => SidsOf(p) = {s}
        /\ \A p, q \in rows \ M : p # q => SidsOf(p) \cap SidsOf(q) = {}
    BY <1>13 DEF Traced, Identified
  <2>2. QED
    BY <1>8, <1>9, <1>10, <1>11, <1>13, <2>1 DEF Identified
<1>14. QED
  BY <1>6, <1>7, <1>11, <1>12, <1>13 DEF Traced

----------------------------------------------------------------------------
(* The candidates of a stored record *)

\* Depths and steps are in their limits, and targets have something to be compared by.
ProperCandidates(rows, found) ==
    \A id \in DOMAIN found :
        /\ found[id].depth \in 0 .. MaxDepth /\ found[id].by # {}
        /\ found[id].target \in BOOLEAN
        /\ found[id].target => RowOf(rows, id).arxiv # None

\* Each candidate was one before, and stands for no fewer records.
ComeFrom(rows, found, newRows, newFound) ==
    \A id \in DOMAIN newFound : \E own \in DOMAIN found :
        SidsOf(RowOf(rows, own)) \subseteq SidsOf(RowOf(newRows, id))

\* Rows go on, with the arXiv ids they have.
PapersStay(rows, newRows) ==
    \A p \in rows : \E q \in newRows :
        p.of \subseteq q.of /\ (p.arxiv # None => q.arxiv = p.arxiv)

Owners(rows, r, found) == Ids(Matching(rows, r)) \cap DOMAIN found

\* Either a candidate of a matching paper or one that stays as it is.
LEMMA CandidatesFollow ==
    ASSUME NEW rows, Table(rows), NEW r, NEW found, DOMAIN found \subseteq Ids(rows),
           NEW owners, owners = Owners(rows, r, found),
           NEW new, new = CandidatesAfter(rows, r, found)
    PROVE  /\ new = [id \in DOMAIN new |-> new[id]]
           /\ DOMAIN new = Followed(rows, r, DOMAIN found)
           /\ \A id \in DOMAIN found :
                 \/ id \in owners /\ Rekeyed(rows, r, id) = Identity(r)
                 \/ id \notin owners /\ Rekeyed(rows, r, id) = id /\ id # Identity(r)
           /\ \A id \in DOMAIN new :
                 \/ /\ id = Identity(r) /\ owners # {}
                    /\ new[id] = MergedCandidate(found, owners, Survivor(rows, r).id)
                 \/ /\ id # Identity(r) /\ id \in DOMAIN found \ owners
                    /\ new[id] = found[id]
<1> DEFINE merged == MergedCandidate(found, owners, Survivor(rows, r).id)
<1>1. /\ new = [id \in Followed(rows, r, DOMAIN found) |->
                  IF id = Identity(r) THEN merged ELSE found[id]]
      /\ DOMAIN new = Followed(rows, r, DOMAIN found)
  BY DEF CandidatesAfter, Owners
<1>2. \A id \in DOMAIN found : \/ id \in owners /\ Rekeyed(rows, r, id) = Identity(r)
                               \/ id \notin owners /\ Rekeyed(rows, r, id) = id /\ id # Identity(r)
  BY KeyIsMatched DEF Rekeyed, Owners
<1> HIDE DEF merged
<1>3. \A id \in DOMAIN new : \/ id = Identity(r) /\ owners # {} /\ new[id] = merged
                             \/ /\ id # Identity(r) /\ id \in DOMAIN found \ owners
                                /\ new[id] = found[id]
  BY <1>1, <1>2 DEF Followed
<1>4. QED
  BY <1>1, <1>2, <1>3 DEF merged

\* The row that stands for a candidate afterwards.
LEMMA RowGoesOn ==
    ASSUME NEW rows, Table(rows), NEW r, Named(r), NEW p \in rows
    PROVE  /\ p \in Matching(rows, r) =>
                 RowOf(Upserted(rows, r), Identity(r)) = Merged(rows, r)
           /\ p \notin Matching(rows, r) => RowOf(Upserted(rows, r), p.id) = p
<1>1. Table(Upserted(rows, r))
  BY UpsertKeepsIndexes
<1>2. Merged(rows, r) \in Upserted(rows, r) /\ Merged(rows, r).id = Identity(r)
  BY DEF Upserted, Merged
<1>3. p \notin Matching(rows, r) => p \in Upserted(rows, r)
  BY DEF Upserted
<1>4. QED
  BY <1>1, <1>2, <1>3, RowIsNamed

LEMMA UpsertIsProper ==
    ASSUME NEW rows, Table(rows), NEW r, Named(r), NEW found, DOMAIN found \subseteq Ids(rows),
           ProperCandidates(rows, found), MaxDepth \in Nat,
           NEW newRows, newRows = Upserted(rows, r),
           NEW new, new = CandidatesAfter(rows, r, found)
    PROVE  /\ ProperCandidates(newRows, new)
           /\ ComeFrom(rows, found, newRows, new)
           /\ Cardinality(DOMAIN new) <= Cardinality(DOMAIN found)
<1> DEFINE owners == Owners(rows, r, found)
           merged == MergedCandidate(found, owners, Survivor(rows, r).id)
           base == IF Survivor(rows, r).id \in owners THEN Survivor(rows, r).id ELSE Min(owners)
<1>1. /\ DOMAIN new = Followed(rows, r, DOMAIN found)
      /\ \A id \in DOMAIN new : \/ id = Identity(r) /\ owners # {} /\ new[id] = merged
                                \/ /\ id # Identity(r) /\ id \in DOMAIN found \ owners
                                   /\ new[id] = found[id]
  BY CandidatesFollow
<1>2. /\ merged.depth = Min({found[id].depth : id \in owners})
      /\ merged.by = UNION {found[id].by : id \in owners}
      /\ merged.target = found[base].target
  BY DEF MergedCandidate
<1>3. owners \subseteq DOMAIN found /\ owners \subseteq Ids(Matching(rows, r))
  BY DEF Owners
<1>4. \A id \in DOMAIN found : \E p \in rows : p.id = id /\ RowOf(rows, id) = p
  BY RowIsNamed DEF Ids
<1>5. \A id \in owners : \E p \in Matching(rows, r) : p.id = id /\ p \in rows /\ RowOf(rows, id) = p
  <2>1. Matching(rows, r) \subseteq rows
    BY DEF Matching
  <2>2. QED
    BY <1>3, <2>1, RowIsNamed DEF Ids
<1>6. \A id \in DOMAIN found \ owners : RowOf(rows, id) \in rows \ Matching(rows, r)
                                        /\ RowOf(rows, id).id = id
  BY <1>4 DEF Owners, Ids
<1>7. owners \in SUBSET Nat
  BY <1>5 DEF Table
<1>8. ASSUME owners # {} PROVE base \in owners
  BY <1>7, <1>8, LeastExists
<1>9. ASSUME owners # {} PROVE RowOf(newRows, Identity(r)) = Merged(rows, r)
  BY <1>5, <1>9, RowGoesOn
<1>10. ASSUME NEW id \in DOMAIN found \ owners PROVE RowOf(newRows, id) = RowOf(rows, id)
  BY <1>6, RowGoesOn
<1>11. \A p \in Matching(rows, r) : /\ SidsOf(p) \subseteq SidsOf(Merged(rows, r))
                                    /\ p.arxiv # None => Merged(rows, r).arxiv # None
  BY UnionIsKnown DEF SidsOf, Merged
<1> HIDE DEF owners, merged, base
<1>12. ASSUME owners # {}
       PROVE  /\ merged.depth \in 0 .. MaxDepth /\ merged.by # {} /\ merged.target \in BOOLEAN
              /\ merged.target => Merged(rows, r).arxiv # None
  <2> DEFINE D == {found[id].depth : id \in owners}
  <2>1. \A id \in owners : /\ found[id].depth \in 0 .. MaxDepth /\ found[id].by # {}
                           /\ found[id].target \in BOOLEAN
                           /\ found[id].target => RowOf(rows, id).arxiv # None
    BY <1>3 DEF ProperCandidates
  <2>2. D \in SUBSET (0 .. MaxDepth) /\ D # {}
    BY <1>12, <2>1
  <2>3. merged.depth = Min(D)
    BY <1>2
  <2> HIDE DEF D
  <2>4. D \in SUBSET Nat
    BY <2>2
  <2>5. Min(D) \in D
    BY <2>2, <2>4, LeastExists
  <2>6. merged.by # {}
    BY <1>2, <1>12, <2>1
  <2>7. merged.target \in BOOLEAN /\ (merged.target => RowOf(rows, base).arxiv # None)
    BY <1>2, <1>8, <1>12, <2>1
  <2>8. RowOf(rows, base) \in Matching(rows, r)
    BY <1>5, <1>8, <1>12
  <2>9. QED
    BY <1>11, <2>2, <2>3, <2>5, <2>6, <2>7, <2>8
<1>13. ProperCandidates(newRows, new)
  <2>1. ASSUME NEW id \in DOMAIN new
        PROVE  /\ new[id].depth \in 0 .. MaxDepth /\ new[id].by # {}
               /\ new[id].target \in BOOLEAN
               /\ new[id].target => RowOf(newRows, id).arxiv # None
    <3>1. CASE id = Identity(r) /\ owners # {} /\ new[id] = merged
      BY <1>9, <1>12, <3>1
    <3>2. CASE id \in DOMAIN found \ owners /\ new[id] = found[id]
      BY <1>10, <3>2 DEF ProperCandidates
    <3>3. QED
      BY <1>1, <3>1, <3>2
  <2>2. QED
    BY <2>1 DEF ProperCandidates
<1>14. ComeFrom(rows, found, newRows, new)
  <2>1. ASSUME NEW id \in DOMAIN new
        PROVE  \E own \in DOMAIN found : SidsOf(RowOf(rows, own)) \subseteq SidsOf(RowOf(newRows, id))
    <3>1. CASE id = Identity(r) /\ owners # {} /\ new[id] = merged
      BY <1>3, <1>5, <1>9, <1>11, <3>1
    <3>2. CASE id \in DOMAIN found \ owners /\ new[id] = found[id]
      BY <1>10, <3>2
    <3>3. QED
      BY <1>1, <3>1, <3>2
  <2>2. QED
    BY <2>1 DEF ComeFrom
<1>15. Cardinality(DOMAIN new) <= Cardinality(DOMAIN found)
  <2> DEFINE f == [id \in DOMAIN found |-> Rekeyed(rows, r, id)]
  <2>1. f \in Surjection(DOMAIN found, DOMAIN new)
    BY <1>1 DEF Surjection, Followed
  <2>2. IsFiniteSet(DOMAIN found)
    BY IdsFinite, FS_Subset DEF Table
  <2> HIDE DEF f
  <2>3. QED
    BY <2>1, <2>2, FS_Surjection
<1>16. QED
  BY <1>13, <1>14, <1>15

LEMMA UpsertKeepsPapers ==
    ASSUME NEW rows, Table(rows), NEW r, Named(r), ~Ambiguous(rows, r)
    PROVE  PapersStay(rows, Upserted(rows, r))
<1>1. SUFFICES ASSUME NEW p \in rows
               PROVE  \E q \in Upserted(rows, r) :
                         p.of \subseteq q.of /\ (p.arxiv # None => q.arxiv = p.arxiv)
  BY DEF PapersStay
<1>2. PICK q \in Upserted(rows, r) :
         p.of \subseteq q.of /\ q = IF p \in Matching(rows, r) THEN Merged(rows, r) ELSE p
  BY RowsGoOn
<1>3. p \in Matching(rows, r) /\ p.arxiv # None => Merged(rows, r).arxiv = p.arxiv
  BY ArxivIsKept
<1>4. QED
  BY <1>2, <1>3

----------------------------------------------------------------------------
(* The candidates of a page *)

TracedState(s) ==
    /\ Traced(s.papers) /\ ProperCandidates(s.papers, s.candidates)
    /\ ComeFrom(papers, candidates, s.papers, s.candidates)
    /\ PapersStay(papers, s.papers)
    /\ Cardinality(DOMAIN s.candidates) <= Cardinality(DOMAIN candidates)

LEMMA StoreIsTraced ==
    ASSUME NEW s, NEW done, SoundState(s, done), TracedState(s), NEW r, Named(r), KnownPaper(r),
           MaxDepth \in Nat, IsFiniteSet(DOMAIN candidates)
    PROVE  TracedState(Store(s, r))
<1>1. CASE s.ambiguous \/ Ambiguous(s.papers, r)
  <2>1. Store(s, r) = [s EXCEPT !.ambiguous = TRUE]
    BY <1>1 DEF Store
  <2>2. Store(s, r).papers = s.papers /\ Store(s, r).candidates = s.candidates
    BY <2>1 DEF SoundState
  <2>3. QED
    BY <2>2 DEF TracedState
<1>2. CASE ~(s.ambiguous \/ Ambiguous(s.papers, r))
  <2> DEFINE rows == Upserted(s.papers, r)
             found == CandidatesAfter(s.papers, r, s.candidates)
  <2>1. Store(s, r).papers = rows /\ Store(s, r).candidates = found
    BY <1>2 DEF Store
  <2>2. /\ Table(s.papers) /\ DOMAIN s.candidates \subseteq Ids(s.papers)
        /\ Traced(s.papers) /\ ProperCandidates(s.papers, s.candidates)
    BY DEF SoundState, SoundCandidates, TracedState
  <2>3. /\ Traced(rows) /\ ProperCandidates(rows, found)
        /\ ComeFrom(s.papers, s.candidates, rows, found)
        /\ Cardinality(DOMAIN found) <= Cardinality(DOMAIN s.candidates)
        /\ PapersStay(s.papers, rows)
        /\ Table(rows) /\ DOMAIN found = Followed(s.papers, r, DOMAIN s.candidates)
    BY <1>2, <2>2, UpsertIsTraced, UpsertIsProper, UpsertKeepsPapers, UpsertKeepsIndexes,
       CandidatesFollow
  <2>4. DOMAIN found \subseteq Ids(rows)
    BY <2>2, <2>3, DependentsFollow
  <2> HIDE DEF rows, found
  <2>5. ComeFrom(papers, candidates, rows, found)
    <3>1. SUFFICES ASSUME NEW id \in DOMAIN found
                   PROVE  \E own \in DOMAIN candidates :
                             SidsOf(RowOf(papers, own)) \subseteq SidsOf(RowOf(rows, id))
      BY DEF ComeFrom
    <3>2. PICK mid \in DOMAIN s.candidates :
             SidsOf(RowOf(s.papers, mid)) \subseteq SidsOf(RowOf(rows, id))
      BY <2>3 DEF ComeFrom
    <3>3. PICK own \in DOMAIN candidates :
             SidsOf(RowOf(papers, own)) \subseteq SidsOf(RowOf(s.papers, mid))
      BY DEF TracedState, ComeFrom
    <3>4. QED
      BY <3>2, <3>3
  <2>6. PapersStay(papers, rows)
    <3>1. SUFFICES ASSUME NEW p \in papers
                   PROVE  \E q \in rows :
                             p.of \subseteq q.of /\ (p.arxiv # None => q.arxiv = p.arxiv)
      BY DEF PapersStay
    <3>2. PICK x \in s.papers : p.of \subseteq x.of /\ (p.arxiv # None => x.arxiv = p.arxiv)
      BY DEF TracedState, PapersStay
    <3>3. PICK q \in rows : x.of \subseteq q.of /\ (x.arxiv # None => q.arxiv = x.arxiv)
      BY <2>3 DEF PapersStay
    <3>4. QED
      BY <3>2, <3>3
  <2>7. Cardinality(DOMAIN found) <= Cardinality(DOMAIN candidates)
    <3>1. IsFiniteSet(DOMAIN found) /\ IsFiniteSet(DOMAIN s.candidates)
      BY <2>2, <2>3, <2>4, SelectedFinite
    <3>2. /\ Cardinality(DOMAIN found) \in Nat /\ Cardinality(DOMAIN s.candidates) \in Nat
          /\ Cardinality(DOMAIN candidates) \in Nat
      BY <3>1, FS_CardinalityType
    <3>3. Cardinality(DOMAIN s.candidates) <= Cardinality(DOMAIN candidates)
      BY DEF TracedState
    <3>4. QED
      BY <2>3, <3>2, <3>3
  <2>8. QED
    BY <2>1, <2>3, <2>5, <2>6, <2>7 DEF TracedState
<1>3. QED
  BY <1>1, <1>2

\* The stored papers and candidates are such as a search leaves.
Stored(done) ==
    /\ Table(papers) /\ SoundCandidates(papers, candidates, done)
    /\ Traced(papers) /\ ProperCandidates(papers, candidates)

LEMMA PageIsTraced ==
    ASSUME NEW page, IsPage(page), \A r \in page : KnownPaper(r), NEW done, Stored(done),
           MaxSelected \in Nat, MaxDepth \in Nat
    PROVE  SoundState(StoredBy(page), done) /\ TracedState(StoredBy(page))
<1> DEFINE N == Cardinality(page)
<1>1. N \in Nat /\ \A r \in page : Named(r) /\ r.sid \in Nat
  BY FS_CardinalityType DEF IsPage, Named
<1>2. \A n \in 1 .. N : InOrder(page)[n] \in page
  BY <1>1, EachIsStored DEF IsPage
<1>3. PICK f : /\ f[0] = Current /\ StoredBy(page) = f[N]
               /\ \A n \in 1 .. N : f[n] = Store(f[n - 1], InOrder(page)[n])
  BY <1>1, StoredInSteps
<1>4. Table(papers) /\ SoundCandidates(papers, candidates, done)
  BY DEF Stored
<1>5. IsFiniteSet(DOMAIN candidates)
  BY <1>4, SelectedFinite DEF SoundCandidates
<1> DEFINE S == {n \in Nat : n <= N => SoundState(f[n], done) /\ TracedState(f[n])}
<1>6. 0 \in S
  <2>1. SelectedGoOn(papers, candidates, papers, candidates)
    BY DEF SelectedGoOn
  <2>2. SoundState(Current, done)
    BY <1>4, <2>1 DEF SoundState, Current
  <2>3. ComeFrom(papers, candidates, papers, candidates) /\ PapersStay(papers, papers)
    BY DEF ComeFrom, PapersStay
  <2>4. Cardinality(DOMAIN candidates) \in Nat
    BY <1>5, FS_CardinalityType
  <2>5. TracedState(Current)
    BY <2>3, <2>4 DEF TracedState, Current, Stored
  <2>6. QED
    BY <1>3, <2>2, <2>5
<1>7. ASSUME NEW n \in S PROVE n + 1 \in S
  <2>1. SUFFICES ASSUME n + 1 <= N PROVE SoundState(f[n + 1], done) /\ TracedState(f[n + 1])
    OBVIOUS
  <2>2. /\ n \in Nat /\ n + 1 \in 1 .. N /\ (n + 1) - 1 = n
        /\ SoundState(f[n], done) /\ TracedState(f[n])
    BY <1>1, <2>1
  <2>3. /\ Named(InOrder(page)[n + 1]) /\ KnownPaper(InOrder(page)[n + 1])
        /\ f[n + 1] = Store(f[n], InOrder(page)[n + 1])
    BY <1>1, <1>2, <1>3, <2>2
  <2>4. QED
    BY <1>5, <2>2, <2>3, StoreIsSound, StoreIsTraced
<1>8. S = Nat
  <2>1. S \in SUBSET Nat
    OBVIOUS
  <2> HIDE DEF S
  <2>2. QED
    BY <1>6, <1>7, <2>1, SetInduction
<1>9. QED
  <2>1. N \in S
    BY <1>1, <1>8
  <2>2. QED
    BY <1>1, <1>3, <2>1

----------------------------------------------------------------------------
(* Candidates and memory *)

\* Each candidate stands for a paper that the process has in memory.
Covered(rows, found, sids) ==
    \A id \in DOMAIN found : SidsOf(RowOf(rows, id)) \cap sids # {}

\* There are no more candidates than papers in memory.
LEMMA CoverCounts ==
    ASSUME OneIdentity, NEW rows, Table(rows), Traced(rows), NEW found, DOMAIN found \subseteq Ids(rows),
           NEW sids, IsFiniteSet(sids), Covered(rows, found, sids)
    PROVE  Cardinality(DOMAIN found) <= Cardinality(sids)
<1> DEFINE common(id) == SidsOf(RowOf(rows, id)) \cap sids
           f == [id \in DOMAIN found |-> CHOOSE s \in common(id) : TRUE]
<1>1. \A id \in DOMAIN found : common(id) # {}
  BY DEF Covered
<1>2. \A id \in DOMAIN found : f[id] \in common(id)
  BY <1>1
<1>3. \A id \in DOMAIN found : \E p \in rows : p.id = id /\ RowOf(rows, id) = p
  BY RowIsNamed DEF Ids
<1>4. f \in [DOMAIN found -> sids]
  BY <1>2
<1> HIDE DEF f
<1>5. ASSUME NEW a \in DOMAIN found, NEW b \in DOMAIN found, f[a] = f[b] PROVE a = b
  <2>1. PICK p \in rows : p.id = a /\ RowOf(rows, a) = p
    BY <1>3
  <2>2. PICK q \in rows : q.id = b /\ RowOf(rows, b) = q
    BY <1>3
  <2>3. f[a] \in SidsOf(p) \cap SidsOf(q)
    BY <1>2, <1>5, <2>1, <2>2
  <2>4. p = q
    BY <2>3 DEF Traced, Identified
  <2>5. QED
    BY <2>1, <2>2, <2>4
<1>6. f \in Injection(DOMAIN found, sids)
  BY <1>4, <1>5 DEF Injection, IsInjective
<1>7. QED
  BY <1>6, FS_Injection

LEMMA BoundIsNat == Bound \in Nat
<1>1. {MaxQueue, MaxCandidates} \in SUBSET Nat
  BY SearchAssumption
<1>2. QED
  BY <1>1, LeastExists DEF Bound

LEMMA MoreBoundsAreNat == MaxDepth \in Nat /\ MaxQueries \in Nat /\ MaxQueue \in Nat
  BY SearchAssumption

IsEntry(e) == e = [id |-> e.id, depth |-> e.depth]

\* What the process may have in memory.
IsMemory(memory) ==
    /\ DOMAIN memory \subseteq Nat /\ IsFiniteSet(DOMAIN memory)
    /\ Cardinality(DOMAIN memory) <= Bound
    /\ \A sid \in DOMAIN memory : IsEntry(memory[sid]) /\ memory[sid].depth \in 0 .. MaxDepth

\* There is room in memory for the page.
Fits(page) ==
    /\ IsPage(page) /\ \A r \in page : KnownPaper(r)
    /\ Cardinality(page) + Cardinality(DOMAIN proc.memory) <= Bound

LEMMA RememberedIsMemory ==
    ASSUME NEW page, Fits(page), IsMemory(proc.memory), NEW depth \in 0 .. MaxDepth,
           NEW memory, memory = Remembered(page, depth)
    PROVE  /\ IsMemory(memory)
           /\ DOMAIN memory = DOMAIN proc.memory \cup {r.sid : r \in Retained(page)}
<1> DEFINE kept == Retained(page)
           sids == {r.sid : r \in kept}
           old == DOMAIN proc.memory
<1>1. kept \in SUBSET page /\ IsFiniteSet(page)
  BY DEF Retained, Fits, IsPage
<1>2. DOMAIN memory = old \cup sids
  BY DEF Remembered
<1>3. sids \subseteq Nat
  BY <1>1 DEF Fits, IsPage, Named
<1>4. IsFiniteSet(kept) /\ Cardinality(kept) <= Cardinality(page)
      /\ Cardinality(kept) \in Nat /\ Cardinality(page) \in Nat
  BY <1>1, FS_Subset, FS_CardinalityType
<1>5. IsFiniteSet(sids) /\ Cardinality(sids) <= Cardinality(kept) /\ Cardinality(sids) \in Nat
  <2> DEFINE f == [r \in kept |-> r.sid]
  <2>1. f \in Surjection(kept, sids)
    BY DEF Surjection
  <2> HIDE DEF f, kept, sids
  <2>2. QED
    BY <1>4, <2>1, FS_Surjection, FS_CardinalityType
<1>6. ASSUME NEW sid \in old \cup sids
      PROVE  \/ /\ sid \in old
                /\ memory[sid] = [proc.memory[sid] EXCEPT !.depth =
                                    IF sid \in sids THEN Min({@, depth}) ELSE @]
             \/ \E id : memory[sid] = [id |-> id, depth |-> depth]
  BY DEF Remembered
<1> HIDE DEF kept, sids
<1>7. ASSUME NEW sid \in old \cup sids
      PROVE  IsEntry(memory[sid]) /\ memory[sid].depth \in 0 .. MaxDepth
  <2>1. CASE /\ sid \in old
             /\ memory[sid] = [proc.memory[sid] EXCEPT !.depth =
                                 IF sid \in sids THEN Min({@, depth}) ELSE @]
    <3> DEFINE before == proc.memory[sid].depth
               after == IF sid \in sids THEN Min({before, depth}) ELSE before
    <3>1. IsEntry(proc.memory[sid]) /\ before \in 0 .. MaxDepth
      BY <2>1 DEF IsMemory
    <3>2. after \in 0 .. MaxDepth
      <4>1. {before, depth} \in SUBSET Nat
        BY <3>1, MoreBoundsAreNat
      <4>2. Min({before, depth}) \in {before, depth}
        BY <4>1, LeastExists
      <4>3. QED
        BY <3>1, <4>2
    <3>3. memory[sid] = [proc.memory[sid] EXCEPT !.depth = after]
      BY <2>1
    <3> HIDE DEF after
    <3>4. memory[sid] = [id |-> proc.memory[sid].id, depth |-> after]
      BY <3>1, <3>3 DEF IsEntry
    <3>5. QED
      BY <3>2, <3>4 DEF IsEntry
  <2>2. CASE \E id : memory[sid] = [id |-> id, depth |-> depth]
    BY <2>2 DEF IsEntry
  <2>3. QED
    BY <1>6, <2>1, <2>2
<1>8. IsFiniteSet(old) /\ Cardinality(old) \in Nat /\ old \subseteq Nat
  BY FS_CardinalityType DEF IsMemory
<1> HIDE DEF old
<1>9. /\ IsFiniteSet(old \cup sids)
      /\ Cardinality(old \cup sids) <= Cardinality(old) + Cardinality(sids)
  <2>1. IsFiniteSet(old \cap sids)
    BY <1>8, FS_Intersection
  <2>2. Cardinality(old \cap sids) \in Nat
    BY <2>1, FS_CardinalityType
  <2>3. /\ IsFiniteSet(old \cup sids)
        /\ Cardinality(old \cup sids) = Cardinality(old) + Cardinality(sids) - Cardinality(old \cap sids)
    BY <1>5, <1>8, FS_Union
  <2>4. QED
    BY <1>5, <1>8, <2>2, <2>3
<1>10. Cardinality(old \cup sids) <= Bound
  <2>1. Cardinality(page) + Cardinality(old) <= Bound
    BY DEF Fits, old
  <2>2. Cardinality(old \cup sids) \in Nat
    BY <1>9, FS_CardinalityType
  <2>3. QED
    BY <1>4, <1>5, <1>8, <1>9, <2>1, <2>2, BoundIsNat
<1>11. QED
  BY <1>2, <1>3, <1>7, <1>8, <1>9, <1>10 DEF IsMemory, sids, kept, old

\* A page that fits is not refused for its depth, nor for the number of candidates
\* where papers are identified, and one that is accepted leaves papers and candidates
\* within the limits of the session.
LEMMA OutcomeFits ==
    ASSUME NEW page, Fits(page), IsMemory(proc.memory), NEW depth \in 0 .. MaxDepth,
           NEW step, NEW done, Stored(done),
           Covered(papers, candidates, DOMAIN proc.memory),
           NEW outcome, outcome = Outcome(page, depth, step)
    PROVE  /\ outcome.refusal # "overrun" /\ IsMemory(outcome.memory)
           /\ outcome.refusal = "crowded" => ~ OneIdentity
           /\ outcome.refusal = None =>
                 /\ Traced(outcome.papers)
                 /\ ProperCandidates(outcome.papers, outcome.candidates)
                 /\ Cardinality(DOMAIN outcome.candidates) <= Bound
                 /\ Covered(outcome.papers, outcome.candidates, DOMAIN outcome.memory)
                 /\ PapersStay(papers, outcome.papers)
<1> DEFINE state == StoredBy(page)
           memory == Remembered(page, depth)
           kept == Retained(page)
           named == {memory[r.sid].id : r \in kept}
           Naming(id) == {r \in kept : memory[r.sid].id = id}
           Before(id) == IF id \in DOMAIN state.candidates
                         THEN state.candidates[id].by ELSE {}
           all == DOMAIN state.candidates \cup named
<1>1. MaxSelected \in Nat /\ MaxDepth \in Nat
  BY SearchAssumption
<1>2. SoundState(state, done) /\ TracedState(state)
  BY <1>1, PageIsTraced DEF Fits
<1>3. IsMemory(memory) /\ DOMAIN memory = DOMAIN proc.memory \cup {r.sid : r \in kept}
  BY RememberedIsMemory
<1>4. /\ outcome.papers = state.papers /\ outcome.memory = memory
      /\ outcome.candidates = [id \in all |->
            IF id \notin named THEN state.candidates[id]
            ELSE [depth |-> Min({memory[r.sid].depth : r \in Naming(id)}),
                  by |-> {step} \cup Before(id),
                  decision |-> "PENDING", target |-> FALSE]]
  BY DEF Outcome
<1>5. /\ outcome.refusal = "overrun" => depth > MaxDepth
      /\ outcome.refusal = "crowded" => Cardinality(all) > Bound
      /\ outcome.refusal = None =>
            /\ ~(Cardinality(all) > Bound)
            /\ \A r \in kept : \E p \in state.papers : p.id = memory[r.sid].id /\ p.sid = r.sid
  <2>1. outcome.refusal =
           IF kept # {} /\ depth > MaxDepth THEN "overrun"
           ELSE IF \E r \in page : ~ InScope(r) THEN "outside"
           ELSE IF state.ambiguous THEN "failing"
           ELSE IF Cardinality(all) > Bound THEN "crowded"
           ELSE IF \E r \in kept : ~ \E p \in state.papers :
                       p.id = memory[r.sid].id /\ p.sid = r.sid THEN "aliased"
           ELSE None
    BY DEF Outcome
  <2> HIDE DEF state, memory, kept, all
  <2>2. None \notin PageRefusals
    BY NoneIsNoOutcome DEF Refusals, PageRefusals
  <2>3. QED
    BY <2>1, <2>2 DEF PageRefusals
<1>6. kept \in SUBSET page /\ IsFiniteSet(page)
  BY DEF Retained, Fits, IsPage
<1>7. /\ DOMAIN state.candidates \subseteq Ids(state.papers) /\ Table(state.papers)
      /\ Traced(state.papers) /\ ProperCandidates(state.papers, state.candidates)
      /\ ComeFrom(papers, candidates, state.papers, state.candidates)
      /\ PapersStay(papers, state.papers)
      /\ Cardinality(DOMAIN state.candidates) <= Cardinality(DOMAIN candidates)
  BY <1>2 DEF SoundState, SoundCandidates, TracedState
<1> HIDE DEF state, memory, kept
<1>8. (OneIdentity => Cardinality(all) <= Bound) /\ Cardinality(all) \in Nat
  <2>1. IsFiniteSet(kept) /\ Cardinality(kept) <= Cardinality(page)
        /\ Cardinality(kept) \in Nat /\ Cardinality(page) \in Nat
    BY <1>6, FS_Subset, FS_CardinalityType
  <2>2. IsFiniteSet(named) /\ Cardinality(named) <= Cardinality(kept) /\ Cardinality(named) \in Nat
    <3> DEFINE f == [r \in kept |-> memory[r.sid].id]
    <3>1. f \in Surjection(kept, named)
      BY DEF Surjection
    <3> HIDE DEF f, named
    <3>2. QED
      BY <2>1, <3>1, FS_Surjection, FS_CardinalityType
  <2> HIDE DEF named
  <2>3. /\ IsFiniteSet(DOMAIN proc.memory) /\ Cardinality(DOMAIN proc.memory) \in Nat
        /\ DOMAIN candidates \subseteq Ids(papers) /\ Table(papers) /\ Traced(papers)
    BY FS_CardinalityType DEF IsMemory, Stored, SoundCandidates
  <2>4. OneIdentity => Cardinality(DOMAIN candidates) <= Cardinality(DOMAIN proc.memory)
    BY <2>3, CoverCounts
  <2>5. IsFiniteSet(DOMAIN state.candidates) /\ IsFiniteSet(DOMAIN candidates)
    BY <1>7, <2>3, SelectedFinite
  <2> DEFINE S == DOMAIN state.candidates
  <2>6. Cardinality(S) \in Nat /\ Cardinality(DOMAIN candidates) \in Nat
    BY <2>5, FS_CardinalityType
  <2>7. Cardinality(S) <= Cardinality(DOMAIN candidates) /\ IsFiniteSet(S)
    BY <1>7, <2>5
  <2>8. Cardinality(page) + Cardinality(DOMAIN proc.memory) <= Bound
    BY DEF Fits
  <2> HIDE DEF S
  <2>9. IsFiniteSet(S \cap named) /\ Cardinality(S \cap named) \in Nat
    BY <2>2, FS_Intersection, FS_CardinalityType
  <2>10. /\ IsFiniteSet(S \cup named)
         /\ Cardinality(S \cup named) = Cardinality(S) + Cardinality(named) - Cardinality(S \cap named)
    BY <2>2, <2>7, FS_Union
  <2>11. OneIdentity => Cardinality(S \cup named) <= Bound
    BY <2>1, <2>2, <2>3, <2>4, <2>6, <2>7, <2>8, <2>9, <2>10, BoundIsNat
  <2>12. Cardinality(S \cup named) \in Nat
    BY <2>10, FS_CardinalityType
  <2>13. QED
    BY <2>11, <2>12 DEF S
<1>9. /\ outcome.refusal # "overrun" /\ (outcome.refusal = "crowded" => ~ OneIdentity)
      /\ outcome.refusal = None => Cardinality(all) <= Bound
  <2>1. (OneIdentity => ~(Cardinality(all) > Bound)) /\ ~(depth > MaxDepth)
    BY <1>1, <1>8, BoundIsNat
  <2>2. QED
    BY <1>5, <1>8, <2>1, BoundIsNat
<1>10. ASSUME outcome.refusal = None, NEW r \in kept
       PROVE  /\ r.sid \in DOMAIN memory
              /\ RowOf(state.papers, memory[r.sid].id) \in state.papers
              /\ RowOf(state.papers, memory[r.sid].id).sid = r.sid
  <2>1. PICK p \in state.papers : p.id = memory[r.sid].id /\ p.sid = r.sid
    BY <1>5, <1>10
  <2>2. RowOf(state.papers, memory[r.sid].id) = p
    BY <1>7, <2>1, RowIsNamed
  <2>3. QED
    BY <1>3, <2>1, <2>2
<1>11. ASSUME NEW id \in named
       PROVE  Min({memory[r.sid].depth : r \in Naming(id)}) \in 0 .. MaxDepth
  <2> DEFINE D == {memory[r.sid].depth : r \in Naming(id)}
  <2>1. D # {} /\ D \subseteq {memory[r.sid].depth : r \in kept}
    BY <1>11
  <2>2. \A r \in kept : memory[r.sid].depth \in 0 .. MaxDepth
    BY <1>3 DEF IsMemory
  <2>3. D \in SUBSET (0 .. MaxDepth)
    BY <2>1, <2>2
  <2> HIDE DEF D
  <2>4. D \in SUBSET Nat
    BY <1>1, <2>3
  <2>5. Min(D) \in D
    BY <2>1, <2>4, LeastExists
  <2>6. QED
    BY <2>3, <2>5 DEF D
<1>12. ProperCandidates(outcome.papers, outcome.candidates)
  <2>1. DOMAIN outcome.candidates = all
    BY <1>4
  <2>2. ASSUME NEW id \in all
        PROVE  /\ outcome.candidates[id].depth \in 0 .. MaxDepth /\ outcome.candidates[id].by # {}
               /\ outcome.candidates[id].target \in BOOLEAN
               /\ outcome.candidates[id].target => RowOf(state.papers, id).arxiv # None
    <3>1. CASE id \in named
      <4> DEFINE least == Min({memory[r.sid].depth : r \in Naming(id)})
      <4>1. outcome.candidates[id] = [depth |-> least, by |-> {step} \cup Before(id),
                                      decision |-> "PENDING", target |-> FALSE]
        BY <1>4, <3>1
      <4>2. least \in 0 .. MaxDepth
        BY <1>11, <3>1
      <4> HIDE DEF least
      <4>3. QED
        BY <4>1, <4>2
    <3>2. CASE id \notin named
      <4>1. id \in DOMAIN state.candidates /\ outcome.candidates[id] = state.candidates[id]
        BY <1>4, <3>2
      <4>2. QED
        BY <1>7, <4>1 DEF ProperCandidates
    <3>3. QED
      BY <3>1, <3>2
  <2>3. QED
    BY <1>4, <2>1, <2>2 DEF ProperCandidates
<1>13. ASSUME outcome.refusal = None
       PROVE  Covered(outcome.papers, outcome.candidates, DOMAIN outcome.memory)
  <2>1. SUFFICES ASSUME NEW id \in all
                 PROVE  SidsOf(RowOf(state.papers, id)) \cap DOMAIN memory # {}
    BY <1>4 DEF Covered
  <2>2. CASE id \in named
    <3>1. PICK r \in kept : memory[r.sid].id = id
      BY <2>2
    <3>2. /\ r.sid \in DOMAIN memory /\ RowOf(state.papers, id) \in state.papers
          /\ RowOf(state.papers, id).sid = r.sid
      BY <1>10, <1>13, <3>1
    <3>3. r.sid \in SidsOf(RowOf(state.papers, id))
      BY <1>7, <3>2 DEF Traced
    <3>4. QED
      BY <3>2, <3>3
  <2>3. CASE id \in DOMAIN state.candidates
    <3>1. PICK own \in DOMAIN candidates :
             SidsOf(RowOf(papers, own)) \subseteq SidsOf(RowOf(state.papers, id))
      BY <1>7, <2>3 DEF ComeFrom
    <3>2. SidsOf(RowOf(papers, own)) \cap DOMAIN proc.memory # {}
      BY DEF Covered
    <3>3. DOMAIN proc.memory \subseteq DOMAIN memory
      BY <1>3
    <3>4. QED
      BY <3>1, <3>2, <3>3
  <2>4. QED
    BY <2>1, <2>2, <2>3
<1>14. DOMAIN outcome.candidates = all
  BY <1>4
<1> HIDE DEF all
<1>15. QED
  BY <1>3, <1>4, <1>7, <1>9, <1>12, <1>13, <1>14

----------------------------------------------------------------------------
(* The limits of a search *)

Relations == {"GET_REFERENCES", "GET_CITATIONS"}

Roots == Nat \X (0 .. MaxDepth)

Expansions == Relations \X Nat \X (0 .. MaxDepth)

RecordIds == {r.sid : r \in Records}

IsBundle(c) == c = [target |-> c.target, cites |-> c.cites, real |-> c.real]
               /\ c.cites \in BOOLEAN /\ c.real \in BOOLEAN

\* The process within its limits: its loop counts what the repository counts, and is
\* refused where something else is wrong only.
Loop(p) ==
    /\ p.at # "overrun" /\ (p.at = "crowded" => ~ OneIdentity)
    /\ p.at = "overtargeted" => ~ LimitsAgree
    /\ p.step \in 0 .. MaxSteps
    /\ p.stop \in {"done", "limit", "timeout"}
    /\ p.plan.queries \in 0 .. MaxQueries /\ p.plan.tools \in Seq(Relations)
    /\ p.sources \subseteq RecordIds
    /\ p.queue \in Seq(Roots) /\ p.todo \in Seq(Expansions)
    /\ IsMemory(p.memory)
    /\ p.at \in {"local", "storing"} => DOMAIN p.memory = {}
    /\ p.at = "storing" => Cardinality(p.seen) <= Bound /\ \A r \in p.seen : KnownPaper(r)
    /\ p.at = "drafted" => IsBundle(p.draft)

\* The process has counted its queries, and has room for the source.
CallsInv ==
    /\ DOMAIN actions \subseteq 1 .. MaxSteps
    /\ \A s \in DOMAIN actions : IsAction(actions[s])
    /\ Queries <= MaxQueries
    /\ proc.at \in Crawling => proc.asked = Queries
    /\ proc.at = "calling" /\ actions[proc.step].tool = "GET_PAPER" => Room >= 1

StoredInv ==
    /\ Traced(papers) /\ ProperCandidates(papers, candidates)
    /\ Cardinality(DOMAIN candidates) <= Bound
    /\ comparisons \subseteq Comparisons

CoverInv == proc.at \in Crawling => Covered(papers, candidates, DOMAIN proc.memory)

RowInv ==
    /\ session \in Sessions \cup {None}
    /\ proc.at \in Crawling => session \in Sessions

LimitsInv == Loop(proc) /\ CallsInv /\ StoredInv /\ CoverInv /\ RowInv

LEMMA EmptyMemory == IsMemory(<<>>) /\ DOMAIN <<>> = {}
<1>1. DOMAIN <<>> = {}
  OBVIOUS
<1>2. IsFiniteSet({}) /\ Cardinality({}) = 0
  BY FS_EmptySet
<1>3. QED
  BY <1>1, <1>2, BoundIsNat DEF IsMemory

\* A process that moves on, ends or stops keeps to the limits.
LEMMA MovesInLimits ==
    ASSUME IsProc(proc), Loop(proc), NEW at, Moves(at),
           at \notin {"overrun", "crowded", "overtargeted", "local", "storing", "drafted"}
    PROVE  /\ Loop(proc') /\ proc'.at = at
           /\ proc'.asked = proc.asked /\ proc'.memory = proc.memory
<1>1. proc' = [proc EXCEPT !.at = at]
  BY DEF Moves
<1>2. /\ proc'.at = at /\ proc'.step = proc.step /\ proc'.stop = proc.stop
      /\ proc'.plan = proc.plan /\ proc'.sources = proc.sources /\ proc'.queue = proc.queue
      /\ proc'.todo = proc.todo /\ proc'.memory = proc.memory /\ proc'.asked = proc.asked
  BY <1>1 DEF IsProc
<1>3. QED
  BY <1>2 DEF Loop

\* A process that has done nothing yet.
IsFresh(p) ==
    /\ p.step = 0 /\ p.stop = "done" /\ p.plan = NoPlan /\ p.sources = {}
    /\ p.queue = <<>> /\ p.todo = <<>> /\ p.memory = <<>> /\ p.asked = 0

LEMMA FreshIsInLimits ==
    ASSUME NEW p, IsFresh(p), p.at \notin {"overrun", "storing", "drafted"},
           p.at = "crowded" => ~ OneIdentity, p.at = "overtargeted" => ~ LimitsAgree
    PROVE  Loop(p)
<1>1. NoPlan.queries = 0 /\ NoPlan.tools = <<>>
  BY DEF NoPlan
<1>2. <<>> \in Seq(Relations) /\ <<>> \in Seq(Roots) /\ <<>> \in Seq(Expansions)
  BY EmptySeq
<1>3. 0 \in 0 .. MaxSteps /\ 0 \in 0 .. MaxQueries
  BY BoundsAreNat, MoreBoundsAreNat
<1>4. p.sources \subseteq RecordIds
  BY DEF IsFresh
<1>5. IsMemory(p.memory) /\ DOMAIN p.memory = {}
  BY EmptyMemory DEF IsFresh
<1>6. p.queue \in Seq(Roots) /\ p.todo \in Seq(Expansions) /\ p.plan.tools \in Seq(Relations)
  BY <1>1, <1>2 DEF IsFresh
<1>7. p.step \in 0 .. MaxSteps /\ p.plan.queries \in 0 .. MaxQueries /\ p.stop = "done"
  BY <1>1, <1>3 DEF IsFresh
<1>8. QED
  BY <1>4, <1>5, <1>6, <1>7 DEF Loop

LEMMA EndsInLimits ==
    ASSUME NEW why, Ends(why), why \notin {"overrun", "storing", "drafted"},
           why = "crowded" => ~ OneIdentity, why = "overtargeted" => ~ LimitsAgree
    PROVE  Loop(proc') /\ proc'.at = why
<1>1. IsFresh(proc') /\ proc'.at = why
  BY DEF Ends, Out, IsFresh
<1>2. QED
  BY <1>1, FreshIsInLimits

LEMMA StopsInLimits ==
    ASSUME IsProc(proc), Loop(proc), NEW stop \in {"limit", "timeout"}, NEW at, Stops(stop, at),
           at \notin {"overrun", "crowded", "overtargeted", "local", "storing", "drafted"}
    PROVE  /\ Loop(proc') /\ proc'.at = at
           /\ proc'.asked = proc.asked /\ proc'.memory = proc.memory
<1>1. proc' = [proc EXCEPT !.stop = stop, !.at = at, !.todo = <<>>]
  BY DEF Stops
<1>2. /\ proc'.at = at /\ proc'.step = proc.step /\ proc'.stop = stop
      /\ proc'.plan = proc.plan /\ proc'.sources = proc.sources /\ proc'.queue = proc.queue
      /\ proc'.todo = <<>> /\ proc'.memory = proc.memory /\ proc'.asked = proc.asked
  BY <1>1 DEF IsProc
<1>3. <<>> \in Seq(Expansions)
  BY EmptySeq
<1>4. QED
  BY <1>2, <1>3 DEF Loop

\* Steps of the process alone.
LEMMA AloneInLimits ==
    ASSUME LimitsInv, UNCHANGED <<papers, candidates, actions, comparisons, session>>,
           Loop(proc'), proc'.at # "calling",
           proc'.at \in Crawling => /\ proc.at \in Crawling
                                    /\ proc'.asked = proc.asked /\ proc'.memory = proc.memory
    PROVE  LimitsInv'
<1>1. CallsInv'
  <2>1. Queries' = Queries
    BY DEF Queries
  <2>2. QED
    BY <2>1 DEF LimitsInv, CallsInv
<1>2. StoredInv'
  <2>1. Comparisons' = Comparisons
    BY DEF Comparisons
  <2>2. QED
    BY <2>1 DEF LimitsInv, StoredInv
<1>3. CoverInv'
  BY DEF LimitsInv, CoverInv
<1>4. QED
  BY <1>1, <1>2, <1>3 DEF LimitsInv, RowInv

\* What the provider knows, it knows.
LEMMA RecordIsKnown ==
    ASSUME NEW r \in Records
    PROVE  KnownPaper(r)
  BY SearchAssumption DEF KnownPaper, Names, Foreign, ArxivOf, DoiOf, Nameless

LEMMA InitIsInLimits == Init => LimitsInv
<1> SUFFICES ASSUME Init PROVE LimitsInv
  OBVIOUS
<1>1. IsFresh(proc) /\ proc.at = "out"
  BY DEF Init, Out, IsFresh
<1>2. Loop(proc) /\ proc.at = "out"
  BY <1>1, FreshIsInLimits
<1>3. DOMAIN actions = {} /\ DOMAIN candidates = {}
  BY DEF Init
<1>4. CallsInv
  <2>1. {s \in DOMAIN actions : actions[s].tool = "SEARCH_PAPERS"} = {}
    BY <1>3
  <2>2. Queries = 0
    BY <2>1, FS_EmptySet DEF Queries
  <2>3. QED
    BY <1>2, <1>3, <2>2, MoreBoundsAreNat DEF CallsInv, Crawling
<1>5. Traced(papers)
  <2>1. papers = {NewPaper(r) : r \in Corpus} /\ Corpus \subseteq Records
    BY RecordsAreNamed DEF Init
  <2>2. ASSUME NEW r \in Corpus
        PROVE  /\ NewPaper(r).id \in {NewPaper(r).sid, NewPaper(r).arxiv}
               /\ SidsOf(NewPaper(r)) = {r.sid} /\ NewPaper(r).sid = r.sid
               /\ Foreign(NewPaper(r).arxiv)
               /\ OneIdentity => Names(r.sid, NewPaper(r).arxiv, NewPaper(r).doi)
    <3>1. /\ NewPaper(r).id = Identity(r) /\ NewPaper(r).sid = r.sid /\ NewPaper(r).of = {r}
          /\ NewPaper(r).arxiv = r.arxiv /\ NewPaper(r).doi = r.doi
      BY DEF NewPaper
    <3>2. KnownPaper(r)
      BY <2>1, RecordIsKnown
    <3>3. QED
      BY <3>1, <3>2 DEF SidsOf, Identity, KnownPaper
  <2>3. \A r, q \in Corpus : NewPaper(r) # NewPaper(q) => r.sid # q.sid
    <3>1. \A r, q \in Corpus : r # q => NewPaper(r).sid # NewPaper(q).sid
      BY CorpusAssumption DEF Apart
    <3>2. \A r \in Corpus : NewPaper(r).sid = r.sid
      BY DEF NewPaper
    <3>3. QED
      BY <3>1, <3>2
  <2>4. OneIdentity => Identified(papers)
    BY <2>1, <2>2, <2>3 DEF Identified
  <2>5. QED
    BY <2>1, <2>2, <2>4 DEF Traced
<1>6. ProperCandidates(papers, candidates)
  BY <1>3 DEF ProperCandidates
<1>7. Cardinality(DOMAIN candidates) <= Bound
  <2>1. Cardinality(DOMAIN candidates) = 0
    BY <1>3, FS_EmptySet
  <2>2. QED
    BY <2>1, BoundIsNat
<1>8. QED
  BY <1>2, <1>4, <1>5, <1>6, <1>7 DEF LimitsInv, StoredInv, CoverInv, RowInv, Crawling, Init

----------------------------------------------------------------------------
(* What the limits leave room for *)

\* The first records of an answer are no more than asked for.
LEMMA FirstOfAnswer ==
    ASSUME NEW reply, IsPage(reply), NEW limit \in Nat, NEW part,
           part = {r \in reply : Cardinality({q \in reply : q.sid < r.sid}) < limit}
    PROVE  IsFiniteSet(part) /\ Cardinality(part) \in Nat /\ Cardinality(part) <= limit
<1> DEFINE Less(r) == {q \in reply : q.sid < r.sid}
           rank == [r \in part |-> Cardinality(Less(r))]
<1>1. IsFiniteSet(reply) /\ \A r \in reply : r.sid \in Nat
  BY DEF IsPage, Named
<1>2. part \in SUBSET reply /\ IsFiniteSet(part)
  BY <1>1, FS_Subset
<1>3. \A r \in reply : IsFiniteSet(Less(r)) /\ Cardinality(Less(r)) \in Nat
  <2>1. \A r \in reply : Less(r) \in SUBSET reply
    OBVIOUS
  <2>2. QED
    BY <1>1, <2>1, FS_Subset, FS_CardinalityType
<1>4. ASSUME NEW r \in reply, NEW q \in reply, r.sid < q.sid
      PROVE  Cardinality(Less(r)) < Cardinality(Less(q))
  <2>1. Less(r) \in SUBSET Less(q) /\ r \in Less(q) /\ r \notin Less(r)
    BY <1>1, <1>4
  <2> HIDE DEF Less
  <2>2. QED
    BY <1>3, <2>1, FS_Subset
<1>5. \A r \in part : Cardinality(Less(r)) \in 0 .. limit - 1
  <2>1. part = {r \in reply : Cardinality(Less(r)) < limit}
    OBVIOUS
  <2> HIDE DEF Less
  <2>2. QED
    BY <1>3, <2>1
<1> HIDE DEF Less
<1>6. rank \in Injection(part, 0 .. limit - 1)
  <2>1. rank \in [part -> 0 .. limit - 1]
    BY <1>5
  <2>2. ASSUME NEW r \in part, NEW q \in part, rank[r] = rank[q] PROVE r = q
    <3>1. ~(r.sid < q.sid) /\ ~(q.sid < r.sid)
      BY <1>2, <1>3, <1>4, <2>2
    <3>2. r.sid = q.sid
      BY <1>1, <1>2, <3>1
    <3>3. QED
      BY <1>2, <3>2 DEF IsPage
  <2> HIDE DEF rank
  <2>3. QED
    BY <2>1, <2>2 DEF Injection, IsInjective
<1> HIDE DEF rank
<1>7. IsFiniteSet(0 .. limit - 1) /\ Cardinality(0 .. limit - 1) = limit
  BY FS_Interval
<1>8. Cardinality(part) <= limit
  BY <1>6, <1>7, FS_Injection
<1>9. QED
  BY <1>2, <1>8, FS_CardinalityType

LEMMA FunctionIsSeq ==
    ASSUME NEW S, NEW n \in Nat, NEW f \in [1 .. n -> S]
    PROVE  f \in Seq(S) /\ Len(f) = n /\ DOMAIN f = 1 .. n
<1>1. f \in Seq(S)
  BY SeqDef
<1>2. QED
  BY <1>1, LenProperties

\* Identifiers in order are those that there are.
LEMMA SortedIsSeq ==
    ASSUME NEW sids, IsFiniteSet(sids), sids \subseteq Nat
    PROVE  /\ Sorted(sids) \in Seq(sids) /\ DOMAIN Sorted(sids) = 1 .. Cardinality(sids)
           /\ Cardinality(sids) \in Nat
<1> DEFINE records == {[sid |-> s] : s \in sids}
           f == [s \in sids |-> [sid |-> s]]
           g == [r \in records |-> r.sid]
<1>1. f \in Surjection(sids, records)
  BY DEF Surjection
<1>2. g \in Surjection(records, sids)
  <2>1. g \in [records -> sids]
    OBVIOUS
  <2>2. ASSUME NEW s \in sids PROVE \E r \in records : g[r] = s
    <3>1. [sid |-> s] \in records /\ g[[sid |-> s]] = s
      OBVIOUS
    <3>2. QED
      BY <3>1
  <2>3. QED
    BY <2>1, <2>2 DEF Surjection
<1>3. (\A r \in records : r.sid \in sids) /\ (\A r, q \in records : r.sid = q.sid => r = q)
  OBVIOUS
<1>4. Sorted(sids) = [n \in 1 .. Cardinality(sids) |-> InOrder(records)[n].sid]
  BY DEF Sorted
<1> HIDE DEF records, f, g
<1>5. IsFiniteSet(records) /\ Cardinality(records) <= Cardinality(sids)
  BY <1>1, FS_Surjection
<1>6. Cardinality(sids) <= Cardinality(records)
  BY <1>2, <1>5, FS_Surjection
<1>7. Cardinality(sids) \in Nat /\ Cardinality(records) \in Nat
  BY <1>5, FS_CardinalityType
<1>8. Cardinality(records) = Cardinality(sids)
  BY <1>5, <1>6, <1>7
<1>9. \A n \in 1 .. Cardinality(sids) : InOrder(records)[n] \in records
  <2>1. \A r \in records : r.sid \in Nat
    BY <1>3
  <2>2. \A n \in 1 .. Cardinality(records) : InOrder(records)[n] \in records
    BY <1>3, <1>5, <2>1, EachIsStored
  <2>3. QED
    BY <1>8, <2>2
<1>10. Sorted(sids) \in [1 .. Cardinality(sids) -> sids]
  BY <1>3, <1>4, <1>9
<1>11. QED
  BY <1>7, <1>10, FunctionIsSeq

LEMMA RecordIdsAreNat == RecordIds \subseteq Nat /\ IsFiniteSet(RecordIds)
<1> DEFINE f == [r \in Records |-> r.sid]
<1>1. IsFiniteSet(Records) /\ \A r \in Records : r.sid \in Nat
  BY SearchAssumption
<1>2. f \in Surjection(Records, RecordIds)
  BY DEF Surjection, RecordIds
<1> HIDE DEF f
<1>3. IsFiniteSet(RecordIds)
  BY <1>1, <1>2, FS_Surjection
<1>4. QED
  BY <1>1, <1>3 DEF RecordIds

\* Papers that stay keep the comparisons what they are.
LEMMA ComparisonsStay ==
    ASSUME PapersStay(papers, papers')
    PROVE  Comparisons \subseteq Comparisons'
<1>1. ASSUME NEW p \in papers, p.arxiv # None
      PROVE  p.arxiv \in {q.arxiv : q \in papers'} \ {None}
  BY <1>1 DEF PapersStay
<1>2. {p.arxiv : p \in papers} \ {None} \subseteq {q.arxiv : q \in papers'} \ {None}
  BY <1>1
<1> DEFINE old == {p.arxiv : p \in papers} \ {None}
           new == {q.arxiv : q \in papers'} \ {None}
<1>3. /\ Comparisons = [target : old, cites : BOOLEAN, real : BOOLEAN]
      /\ Comparisons' = [target : new, cites : BOOLEAN, real : BOOLEAN]
  BY DEF Comparisons
<1> HIDE DEF old, new
<1>4. old \subseteq new
  BY <1>2 DEF old, new
<1>5. QED
  BY <1>3, <1>4

----------------------------------------------------------------------------
(* Steps within the limits *)

\* A call that the loop has counted is not refused.
LEMMA CallInLimits ==
    ASSUME SearchInv, LimitsInv, UNCHANGED <<papers, candidates, session, comparisons>>,
           proc.at \in Crawling, NEW tool \in Tools, NEW target, NEW depth \in 0 .. MaxDepth,
           (tool = "GET_RECOMMENDATIONS") <=> (target = None),
           proc.step < MaxSteps, tool = "SEARCH_PAPERS" => proc.asked < MaxQueries,
           tool = "GET_PAPER" => Room >= 1, Call(tool, target, depth)
    PROVE  LimitsInv'
<1> DEFINE n == proc.step + 1
           a == [tool |-> tool, target |-> target, depth |-> depth, status |-> "RUNNING"]
           asking == {s \in DOMAIN actions : actions[s].tool = "SEARCH_PAPERS"}
<1>1. /\ IsProc(proc) /\ proc.step \in Nat /\ DOMAIN actions \subseteq 1 .. proc.step
      /\ Loop(proc) /\ CallsInv /\ StoredInv /\ Covered(papers, candidates, DOMAIN proc.memory)
      /\ proc.asked = Queries /\ Queries <= MaxQueries
  BY DEF SearchInv, ProcInv, ActionsInv, LimitsInv, CallsInv, CoverInv
<1>2. IsFiniteSet(asking) /\ Queries = Cardinality(asking) /\ Queries \in Nat
  <2>1. asking \in SUBSET (1 .. proc.step)
    BY <1>1
  <2> HIDE DEF asking
  <2>2. IsFiniteSet(1 .. proc.step)
    BY <1>1, FS_Interval
  <2>3. IsFiniteSet(asking) /\ Cardinality(asking) \in Nat
    BY <2>1, <2>2, FS_Subset, FS_CardinalityType
  <2>4. QED
    BY <2>3 DEF Queries, asking
<1>3. ~Exceeds(tool, depth)
  BY <1>1, <1>2, BoundsAreNat, MoreBoundsAreNat DEF Exceeds
<1>4. /\ actions' = [s \in DOMAIN actions \cup {n} |-> IF s \in DOMAIN actions THEN actions[s] ELSE a]
      /\ proc' = [proc EXCEPT !.at = "calling", !.step = @ + 1,
                      !.asked = IF tool = "SEARCH_PAPERS" THEN @ + 1 ELSE @,
                      !.todo = IF @ = <<>> THEN @ ELSE Tail(@),
                      !.expanded = IF proc.todo = <<>> THEN @ ELSE @ \cup {<<tool, target>>}]
  BY <1>3 DEF Call
<1>5. n \notin DOMAIN actions /\ n \in 1 .. MaxSteps
  BY <1>1, BoundsAreNat
<1>6. /\ a.tool = tool /\ a.target = target /\ a.depth = depth /\ a.status = "RUNNING"
      /\ IsAction(a)
  BY DEF IsAction
<1> HIDE DEF a, n
<1>7. /\ DOMAIN actions' = DOMAIN actions \cup {n} /\ actions'[n] = a
      /\ \A s \in DOMAIN actions : actions'[s] = actions[s]
  BY <1>4, <1>5
<1>8. /\ proc'.at = "calling" /\ proc'.step = n /\ proc'.stop = proc.stop
      /\ proc'.plan = proc.plan /\ proc'.sources = proc.sources /\ proc'.queue = proc.queue
      /\ proc'.todo = (IF proc.todo = <<>> THEN proc.todo ELSE Tail(proc.todo))
      /\ proc'.memory = proc.memory
      /\ proc'.asked = IF tool = "SEARCH_PAPERS" THEN proc.asked + 1 ELSE proc.asked
  BY <1>1, <1>4 DEF IsProc, n
<1>9. Loop(proc')
  <2>1. proc'.todo \in Seq(Expansions)
    BY <1>1, <1>8, HeadTailProperties DEF Loop
  <2>2. n \in 0 .. MaxSteps
    BY <1>5
  <2>3. QED
    BY <1>1, <1>8, <2>1, <2>2 DEF Loop
<1>10. Queries' = (IF tool = "SEARCH_PAPERS" THEN Queries + 1 ELSE Queries)
  <2>1. Queries' = Cardinality({s \in DOMAIN actions' : actions'[s].tool = "SEARCH_PAPERS"})
    BY DEF Queries
  <2>2. {s \in DOMAIN actions' : actions'[s].tool = "SEARCH_PAPERS"}
           = IF tool = "SEARCH_PAPERS" THEN asking \cup {n} ELSE asking
    BY <1>5, <1>6, <1>7
  <2>3. n \notin asking
    BY <1>5
  <2> HIDE DEF asking
  <2>4. Cardinality(asking \cup {n}) = Cardinality(asking) + 1
    BY <1>2, <2>3, FS_AddElement
  <2>5. QED
    BY <1>2, <2>1, <2>2, <2>4
<1>11. CallsInv'
  <2>1. DOMAIN actions' \subseteq 1 .. MaxSteps
    BY <1>1, <1>5, <1>7 DEF CallsInv
  <2>2. \A s \in DOMAIN actions' : IsAction(actions'[s])
    BY <1>1, <1>6, <1>7 DEF CallsInv
  <2>3. Queries' <= MaxQueries /\ proc'.asked = Queries'
    BY <1>1, <1>2, <1>8, <1>10, MoreBoundsAreNat
  <2>4. actions'[proc'.step].tool = "GET_PAPER" => Room' >= 1
    BY <1>6, <1>7, <1>8 DEF Room
  <2>5. QED
    BY <2>1, <2>2, <2>3, <2>4 DEF CallsInv
<1>12. StoredInv'
  BY <1>1 DEF StoredInv, Comparisons
<1>13. CoverInv'
  BY <1>1, <1>8 DEF CoverInv
<1>14. QED
  BY <1>9, <1>11, <1>12, <1>13 DEF LimitsInv, RowInv

LEMMA OpenInLimits == ASSUME SearchInv, LimitsInv, Open PROVE LimitsInv'
<1>1. IsProc(proc) /\ Loop(proc) /\ UNCHANGED <<papers, comparisons>>
  BY DEF SearchInv, ProcInv, LimitsInv, Open
<1>2. CASE session # None /\ session.status = "COMPLETE"
  <2>1. Moves("reading") /\ UNCHANGED <<session, actions, candidates>>
    BY <1>2 DEF Open
  <2>2. Loop(proc') /\ proc'.at = "reading"
    BY <1>1, <2>1, MovesInLimits
  <2>3. QED
    BY <1>1, <2>1, <2>2, AloneInLimits DEF Crawling
<1>3. CASE ~(session # None /\ session.status = "COMPLETE")
  <2>1. /\ session' = [status |-> "RUNNING", stop |-> None, plan |-> None]
        /\ actions' = <<>> /\ candidates' = <<>>
        /\ proc' = [Out EXCEPT !.at = "local"]
    BY <1>3 DEF Open
  <2>2. IsFresh(proc') /\ proc'.at = "local"
    BY <2>1 DEF Out, IsFresh
  <2>3. Loop(proc')
    BY <2>2, FreshIsInLimits
  <2>4. session' \in Sessions
    BY <2>1, NoneIsNoOutcome DEF Sessions
  <2>5. DOMAIN actions' = {} /\ DOMAIN candidates' = {}
    BY <2>1
  <2>6. Queries' = 0
    <3>1. {s \in DOMAIN actions' : actions'[s].tool = "SEARCH_PAPERS"} = {}
      BY <2>5
    <3>2. QED
      BY <3>1, FS_EmptySet DEF Queries
  <2>7. CallsInv'
    BY <2>2, <2>5, <2>6, MoreBoundsAreNat DEF CallsInv, IsFresh
  <2>8. Cardinality(DOMAIN candidates') <= Bound
    BY <2>5, FS_EmptySet, BoundIsNat
  <2>9. StoredInv'
    BY <1>1, <2>5, <2>8 DEF LimitsInv, StoredInv, ProperCandidates, Comparisons
  <2>10. CoverInv'
    BY <2>5 DEF CoverInv, Covered
  <2>11. QED
    BY <2>3, <2>4, <2>7, <2>9, <2>10 DEF LimitsInv, RowInv
<1>4. QED
  BY <1>2, <1>3

LEMMA SearchCorpusInLimits == ASSUME SearchInv, LimitsInv, SearchCorpus PROVE LimitsInv'
<1>1. PICK best \in SUBSET Local :
         /\ Cardinality(best) <= Bound
         /\ proc' = [proc EXCEPT !.at = "storing", !.seen = {Stub(p) : p \in best}]
  BY DEF SearchCorpus
<1>2. proc.at = "local" /\ UNCHANGED <<papers, candidates, session, actions, comparisons>>
  BY DEF SearchCorpus, work
<1> DEFINE seen == {Stub(p) : p \in best}
           f == [p \in best |-> Stub(p)]
<1>3. IsProc(proc) /\ Loop(proc) /\ Table(papers) /\ Traced(papers)
  BY DEF SearchInv, ProcInv, CandidatesInv, LimitsInv, StoredInv
<1>4. best \in SUBSET papers
  BY <1>1 DEF Local
<1>5. f \in Surjection(best, seen)
  BY DEF Surjection
<1>6. ASSUME NEW p \in best PROVE KnownPaper(Stub(p))
  <2>1. (OneIdentity => Names(p.sid, p.arxiv, p.doi)) /\ Foreign(p.arxiv)
    BY <1>3, <1>4 DEF Traced, Identified
  <2>2. Stub(p).sid = p.sid /\ Stub(p).arxiv = p.arxiv /\ Stub(p).doi = p.doi
    BY DEF Stub
  <2>3. QED
    BY <2>1, <2>2 DEF KnownPaper
<1>7. \A r \in seen : KnownPaper(r)
  BY <1>6
<1>8. proc' = [proc EXCEPT !.at = "storing", !.seen = seen]
  BY <1>1
<1> HIDE DEF seen, f
<1>9. IsFiniteSet(best) /\ Cardinality(best) \in Nat
  BY <1>3, <1>4, FS_Subset, FS_CardinalityType DEF Table
<1>10. Cardinality(seen) <= Bound
  <2>1. IsFiniteSet(seen) /\ Cardinality(seen) <= Cardinality(best)
    BY <1>5, <1>9, FS_Surjection
  <2>2. Cardinality(seen) \in Nat
    BY <2>1, FS_CardinalityType
  <2>3. QED
    BY <1>1, <1>9, <2>1, <2>2, BoundIsNat
<1>11. /\ proc'.at = "storing" /\ proc'.step = proc.step /\ proc'.stop = proc.stop
       /\ proc'.plan = proc.plan /\ proc'.sources = proc.sources /\ proc'.queue = proc.queue
       /\ proc'.todo = proc.todo /\ proc'.memory = proc.memory /\ proc'.asked = proc.asked
       /\ proc'.seen = seen
  BY <1>3, <1>8 DEF IsProc
<1>12. Loop(proc')
  BY <1>2, <1>3, <1>7, <1>10, <1>11 DEF Loop
<1>13. QED
  BY <1>2, <1>11, <1>12, AloneInLimits DEF Crawling

\* A page that is refused changes nothing but the process.
LEMMA RefusedInLimits ==
    ASSUME SearchInv, LimitsInv, UNCHANGED <<session, actions, comparisons>>,
           proc.at \in Crawling, NEW outcome, outcome.refusal \in PageRefusals \cup {None},
           outcome.refusal # "overrun", outcome.refusal = "crowded" => ~ OneIdentity,
           Refuse(outcome)
    PROVE  LimitsInv'
<1>1. UNCHANGED <<papers, candidates, session, actions, comparisons>>
  BY DEF Refuse
<1>2. IsProc(proc) /\ Loop(proc)
  BY DEF SearchInv, ProcInv, LimitsInv
<1>3. CASE outcome.refusal = "failing"
  <2>1. Moves("failing")
    BY <1>3 DEF Refuse
  <2>2. /\ Loop(proc') /\ proc'.at = "failing"
        /\ proc'.asked = proc.asked /\ proc'.memory = proc.memory
    BY <1>2, <2>1, MovesInLimits
  <2>3. QED
    BY <1>1, <2>2, AloneInLimits
<1>4. CASE outcome.refusal # "failing"
  <2>1. Ends(outcome.refusal) /\ outcome.refusal \in {"outside", "crowded", "aliased"}
    BY <1>4 DEF Refuse, PageRefusals
  <2>2. Loop(proc') /\ proc'.at = outcome.refusal
    BY <2>1, EndsInLimits
  <2>3. QED
    BY <1>1, <2>1, <2>2, AloneInLimits DEF Crawling
<1>5. QED
  BY <1>3, <1>4

LEMMA OutcomeRefusals ==
    ASSUME NEW page, NEW depth, NEW step
    PROVE  Outcome(page, depth, step).refusal \in PageRefusals \cup {None}
  BY DEF Outcome, PageRefusals

\* What is stored by a process that keeps to its limits.
LEMMA StoredInLimits ==
    ASSUME LimitsInv, UNCHANGED comparisons, PapersStay(papers, papers'),
           Traced(papers'), ProperCandidates(papers', candidates'),
           Cardinality(DOMAIN candidates') <= Bound
    PROVE  StoredInv'
<1>1. comparisons \subseteq Comparisons /\ comparisons' = comparisons
  BY DEF LimitsInv, StoredInv
<1>2. Comparisons \subseteq Comparisons'
  BY ComparisonsStay
<1>3. QED
  BY <1>1, <1>2 DEF StoredInv

LEMMA StoreLocalInLimits == ASSUME SearchInv, LimitsInv, StoreLocal PROVE LimitsInv'
<1>1. PICK outcome : /\ outcome = Outcome(proc.seen, 0, 0)
                     /\ \/ /\ Accept(outcome)
                           /\ proc' = [proc EXCEPT !.at = "source", !.seen = {}, !.memory = outcome.memory]
                        \/ Refuse(outcome)
  BY DEF StoreLocal
<1>2. proc.at = "storing" /\ UNCHANGED <<session, actions, comparisons>>
  BY DEF StoreLocal, work
<1>3. /\ IsProc(proc) /\ Loop(proc) /\ IsPage(proc.seen) /\ Stored(Done)
      /\ Covered(papers, candidates, DOMAIN proc.memory) /\ CallsInv
  BY <1>2 DEF SearchInv, ProcInv, CandidatesInv, LimitsInv, StoredInv, CoverInv, Crawling, Stored
<1>4. Fits(proc.seen) /\ IsMemory(proc.memory)
  <2>1. /\ DOMAIN proc.memory = {} /\ Cardinality(proc.seen) <= Bound
        /\ \A r \in proc.seen : KnownPaper(r)
    BY <1>2, <1>3 DEF Loop
  <2>2. Cardinality(DOMAIN proc.memory) = 0 /\ Cardinality(proc.seen) \in Nat
    BY <1>3, <2>1, FS_EmptySet, FS_CardinalityType DEF IsPage
  <2>3. Cardinality(proc.seen) + Cardinality(DOMAIN proc.memory) <= Bound
    BY <2>1, <2>2, BoundIsNat
  <2>4. QED
    BY <1>3, <2>1, <2>3 DEF Fits, Loop
<1>5. /\ outcome.refusal # "overrun" /\ IsMemory(outcome.memory)
      /\ outcome.refusal = "crowded" => ~ OneIdentity
      /\ outcome.refusal = None =>
            /\ Traced(outcome.papers)
            /\ ProperCandidates(outcome.papers, outcome.candidates)
            /\ Cardinality(DOMAIN outcome.candidates) <= Bound
            /\ Covered(outcome.papers, outcome.candidates, DOMAIN outcome.memory)
            /\ PapersStay(papers, outcome.papers)
  BY <1>1, <1>3, <1>4, MoreBoundsAreNat, OutcomeFits
<1>6. CASE Refuse(outcome)
  BY <1>1, <1>2, <1>5, <1>6, OutcomeRefusals, RefusedInLimits DEF Crawling
<1>7. CASE /\ Accept(outcome)
           /\ proc' = [proc EXCEPT !.at = "source", !.seen = {}, !.memory = outcome.memory]
  <2>1. /\ outcome.refusal = None
        /\ papers' = outcome.papers /\ candidates' = outcome.candidates
    BY <1>7 DEF Accept
  <2>2. /\ proc'.at = "source" /\ proc'.step = proc.step /\ proc'.stop = proc.stop
        /\ proc'.plan = proc.plan /\ proc'.sources = proc.sources /\ proc'.queue = proc.queue
        /\ proc'.todo = proc.todo /\ proc'.memory = outcome.memory /\ proc'.asked = proc.asked
    BY <1>3, <1>7 DEF IsProc
  <2>3. Loop(proc')
    BY <1>3, <1>5, <2>2 DEF Loop
  <2>4. StoredInv'
    BY <1>2, <1>5, <2>1, StoredInLimits
  <2>5. CoverInv'
    BY <1>5, <2>1, <2>2 DEF CoverInv
  <2>6. CallsInv'
    BY <1>2, <1>3, <2>2 DEF CallsInv, Queries, Crawling
  <2>7. QED
    BY <1>2, <2>3, <2>4, <2>5, <2>6 DEF LimitsInv, RowInv, Crawling
<1>8. QED
  BY <1>1, <1>6, <1>7

LEMMA AskSourceInLimits == ASSUME SearchInv, LimitsInv, AskSource PROVE LimitsInv'
<1>1. /\ proc.at = "source" /\ UNCHANGED <<papers, candidates, session, comparisons>>
      /\ IsProc(proc) /\ Loop(proc)
  BY DEF AskSource, SearchInv, ProcInv, LimitsInv
<1>2. CASE Room < 1 \/ proc.step >= MaxSteps
  <2>1. Stops("limit", "selecting") /\ UNCHANGED actions
    BY <1>2 DEF AskSource
  <2>2. QED
    BY <1>1, <2>1, StopsInLimits, AloneInLimits DEF Crawling
<1>3. CASE ~(Room < 1 \/ proc.step >= MaxSteps)
  <2>1. Call("GET_PAPER", Source, 0) /\ Source # None
    BY <1>3, SearchAssumption, NoneIsNoNumber DEF AskSource
  <2>2. Room \in Int /\ proc.step \in Nat
    <3>1. Cardinality(DOMAIN proc.memory) \in Nat
      BY <1>1, FS_CardinalityType DEF Loop, IsMemory
    <3>2. QED
      BY <1>1, <3>1, BoundIsNat DEF Room, Loop
  <2>3. Room >= 1 /\ proc.step < MaxSteps
    BY <1>3, <2>2, BoundsAreNat
  <2>4. 0 \in 0 .. MaxDepth /\ "GET_PAPER" \in Tools
    BY MoreBoundsAreNat DEF Tools
  <2>5. QED
    BY <1>1, <2>1, <2>3, <2>4, CallInLimits DEF Crawling
<1>4. QED
  BY <1>2, <1>3

LEMMA PlanInLimits == ASSUME SearchInv, LimitsInv, Plan PROVE LimitsInv'
<1>1. /\ proc.at = "planning" /\ UNCHANGED <<papers, candidates, actions, comparisons>>
      /\ IsProc(proc) /\ Loop(proc) /\ CallsInv /\ StoredInv /\ CoverInv
  BY DEF Plan, SearchInv, ProcInv, LimitsInv
<1>2. \/ Stops("limit", "selecting") /\ UNCHANGED session
      \/ \E plan \in Plans : /\ session' = [session EXCEPT !.plan = plan]
                             /\ proc' = [proc EXCEPT !.at = "querying", !.plan = plan]
  BY DEF Plan
<1>3. CASE Stops("limit", "selecting") /\ UNCHANGED session
  BY <1>1, <1>3, StopsInLimits, AloneInLimits DEF Crawling
<1>4. ASSUME NEW plan \in Plans, session' = [session EXCEPT !.plan = plan],
             proc' = [proc EXCEPT !.at = "querying", !.plan = plan]
      PROVE  LimitsInv'
  <2>1. IsRow(session) /\ session.status = "RUNNING" /\ session \in Sessions
    BY <1>1 DEF SearchInv, SessionInv, LimitsInv, RowInv, Crawling
  <2>2. session' = [status |-> session.status, stop |-> session.stop, plan |-> plan]
    BY <1>4, <2>1 DEF IsRow
  <2>3. session' \in Sessions
    BY <2>1, <2>2 DEF Sessions
  <2>4. plan.queries \in 0 .. MaxQueries /\ plan.tools \in Seq(Relations)
    <3>1. plan.queries \in 1 .. MaxQueries /\ plan.tools \in ExpansionTools
      BY SearchAssumption
    <3>2. ExpansionTools \subseteq Seq(Relations)
      BY DEF ExpansionTools, Relations
    <3>3. QED
      BY <3>1, <3>2, MoreBoundsAreNat
  <2>5. /\ proc'.at = "querying" /\ proc'.step = proc.step /\ proc'.stop = proc.stop
        /\ proc'.plan = plan /\ proc'.sources = proc.sources /\ proc'.queue = proc.queue
        /\ proc'.todo = proc.todo /\ proc'.memory = proc.memory /\ proc'.asked = proc.asked
    BY <1>1, <1>4 DEF IsProc
  <2>6. Loop(proc')
    BY <1>1, <2>4, <2>5 DEF Loop
  <2>7. CallsInv' /\ CoverInv'
    BY <1>1, <2>5 DEF CallsInv, Queries, CoverInv, Crawling
  <2>8. StoredInv'
    BY <1>1 DEF StoredInv, Comparisons
  <2>9. QED
    BY <2>3, <2>6, <2>7, <2>8 DEF LimitsInv, RowInv
<1>5. QED
  BY <1>2, <1>3, <1>4

LEMMA QueriesIsNat ==
    ASSUME SearchInv, proc.at \in Crawling
    PROVE  Queries \in Nat
<1> DEFINE asking == {s \in DOMAIN actions : actions[s].tool = "SEARCH_PAPERS"}
<1>1. proc.step \in Nat /\ asking \in SUBSET (1 .. proc.step)
  BY DEF SearchInv, ProcInv, ActionsInv
<1> HIDE DEF asking
<1>2. IsFiniteSet(1 .. proc.step)
  BY <1>1, FS_Interval
<1>3. Cardinality(asking) \in Nat
  BY <1>1, <1>2, FS_Subset, FS_CardinalityType
<1>4. QED
  BY <1>3 DEF Queries, asking

LEMMA QueryInLimits == ASSUME SearchInv, LimitsInv, Query PROVE LimitsInv'
<1>1. /\ proc.at = "querying" /\ UNCHANGED <<papers, candidates, session, comparisons>>
      /\ IsProc(proc) /\ Loop(proc) /\ proc.asked = Queries /\ Queries \in Nat
  BY QueriesIsNat DEF Query, SearchInv, ProcInv, LimitsInv, CallsInv, Crawling
<1>2. \/ Asks /\ Call("SEARCH_PAPERS", proc.asked + 1, 0)
      \/ Stops("limit", "selecting") /\ UNCHANGED actions
      \/ Moves("recommending") /\ UNCHANGED actions
  BY DEF Query
<1>3. CASE Asks /\ Call("SEARCH_PAPERS", proc.asked + 1, 0)
  <2>1. proc.asked + 1 # None
    BY <1>1, NoneIsNoNumber
  <2>2. proc.asked < MaxQueries /\ proc.step < MaxSteps
    BY <1>1, <1>3, MoreBoundsAreNat DEF Asks, Loop
  <2>3. 0 \in 0 .. MaxDepth /\ "SEARCH_PAPERS" \in Tools
    BY MoreBoundsAreNat DEF Tools
  <2>4. QED
    BY <1>1, <1>3, <2>1, <2>2, <2>3, CallInLimits DEF Crawling
<1>4. CASE Stops("limit", "selecting") /\ UNCHANGED actions
  BY <1>1, <1>4, StopsInLimits, AloneInLimits DEF Crawling
<1>5. CASE Moves("recommending") /\ UNCHANGED actions
  BY <1>1, <1>5, MovesInLimits, AloneInLimits DEF Crawling
<1>6. QED
  BY <1>2, <1>3, <1>4, <1>5

LEMMA RecommendInLimits == ASSUME SearchInv, LimitsInv, Recommend PROVE LimitsInv'
<1>1. /\ proc.at = "recommending" /\ UNCHANGED <<papers, candidates, session, comparisons>>
      /\ IsProc(proc) /\ Loop(proc)
  BY DEF Recommend, SearchInv, ProcInv, LimitsInv
<1>2. \/ proc.step < MaxSteps /\ Call("GET_RECOMMENDATIONS", None, 0)
      \/ Moves("queueing") /\ UNCHANGED actions
  BY DEF Recommend
<1>3. CASE proc.step < MaxSteps /\ Call("GET_RECOMMENDATIONS", None, 0)
  <2>1. 0 \in 0 .. MaxDepth /\ "GET_RECOMMENDATIONS" \in Tools
    BY MoreBoundsAreNat DEF Tools
  <2>2. QED
    BY <1>1, <1>3, <2>1, CallInLimits DEF Crawling
<1>4. CASE Moves("queueing") /\ UNCHANGED actions
  BY <1>1, <1>4, MovesInLimits, AloneInLimits DEF Crawling
<1>5. QED
  BY <1>2, <1>3, <1>4

LEMMA EnqueueInLimits == ASSUME SearchInv, LimitsInv, Enqueue PROVE LimitsInv'
<1> DEFINE known == Sorted(proc.sources)
           rest == Sorted(DOMAIN proc.memory \ proc.sources)
           first == [i \in DOMAIN known |-> <<known[i], 0>>]
           second == [i \in DOMAIN rest |-> <<rest[i], proc.memory[rest[i]].depth>>]
           roots == first \o second
           most == Min({MaxQueue, Len(roots)})
<1>1. /\ proc.at = "queueing" /\ UNCHANGED <<papers, candidates, session, actions, comparisons>>
      /\ IsProc(proc) /\ Loop(proc) /\ IsMemory(proc.memory)
  BY DEF Enqueue, SearchInv, ProcInv, LimitsInv, Loop, work
<1>2. proc' = [proc EXCEPT !.at = "expanding", !.queue = SubSeq(roots, 1, most)]
  BY DEF Enqueue
<1>3. first \in Seq(Roots)
  <2>1. proc.sources \subseteq Nat /\ IsFiniteSet(proc.sources)
    <3>1. proc.sources \in SUBSET RecordIds
      BY <1>1 DEF Loop
    <3>2. QED
      BY <3>1, RecordIdsAreNat, FS_Subset
  <2>2. /\ known \in Seq(proc.sources) /\ DOMAIN known = 1 .. Cardinality(proc.sources)
        /\ Cardinality(proc.sources) \in Nat
    BY <2>1, SortedIsSeq
  <2> HIDE DEF known
  <2>3. \A i \in DOMAIN known : known[i] \in Nat
    BY <2>1, <2>2
  <2>4. first \in [1 .. Cardinality(proc.sources) -> Roots]
    BY <2>2, <2>3, MoreBoundsAreNat DEF Roots
  <2> HIDE DEF first
  <2>5. QED
    BY <2>2, <2>4, FunctionIsSeq
<1>4. second \in Seq(Roots)
  <2> DEFINE own == DOMAIN proc.memory \ proc.sources
  <2>1. own \subseteq Nat /\ IsFiniteSet(own) /\ own \subseteq DOMAIN proc.memory
    <3>1. own \in SUBSET DOMAIN proc.memory
      OBVIOUS
    <3>2. QED
      BY <1>1, <3>1, FS_Subset DEF IsMemory
  <2> HIDE DEF own
  <2>2. rest \in Seq(own) /\ DOMAIN rest = 1 .. Cardinality(own) /\ Cardinality(own) \in Nat
    BY <2>1, SortedIsSeq DEF own
  <2> HIDE DEF rest
  <2>3. \A i \in DOMAIN rest : rest[i] \in Nat /\ proc.memory[rest[i]].depth \in 0 .. MaxDepth
    <3>1. \A i \in DOMAIN rest : rest[i] \in own
      BY <2>2, LenProperties, ElementOfSeq
    <3>2. \A sid \in DOMAIN proc.memory : proc.memory[sid].depth \in 0 .. MaxDepth
      BY <1>1 DEF IsMemory
    <3>3. QED
      BY <2>1, <3>1, <3>2
  <2>4. second \in [1 .. Cardinality(own) -> Roots]
    BY <2>2, <2>3 DEF Roots
  <2> HIDE DEF second
  <2>5. QED
    BY <2>2, <2>4, FunctionIsSeq
<1> HIDE DEF first, second
<1>5. roots \in Seq(Roots)
  BY <1>3, <1>4, ConcatProperties
<1> HIDE DEF roots
<1>6. Len(roots) \in Nat /\ most \in Nat /\ most <= Len(roots)
  <2>1. Len(roots) \in Nat
    BY <1>5, LenProperties
  <2>2. {MaxQueue, Len(roots)} \in SUBSET Nat
    BY <2>1, MoreBoundsAreNat
  <2>3. most \in {MaxQueue, Len(roots)} /\ \A m \in {MaxQueue, Len(roots)} : most <= m
    BY <2>2, LeastExists
  <2>4. QED
    BY <2>1, <2>3, MoreBoundsAreNat
<1> HIDE DEF most
<1>7. SubSeq(roots, 1, most) \in Seq(Roots)
  <2>1. \A i \in 1 .. most : roots[i] \in Roots
    BY <1>5, <1>6, ElementOfSeq
  <2>2. QED
    BY <1>6, <2>1, SubSeqProperties
<1>8. /\ proc'.at = "expanding" /\ proc'.step = proc.step /\ proc'.stop = proc.stop
      /\ proc'.plan = proc.plan /\ proc'.sources = proc.sources
      /\ proc'.queue = SubSeq(roots, 1, most)
      /\ proc'.todo = proc.todo /\ proc'.memory = proc.memory /\ proc'.asked = proc.asked
  BY <1>1, <1>2 DEF IsProc
<1>9. Loop(proc')
  BY <1>1, <1>7, <1>8 DEF Loop
<1>10. QED
  BY <1>1, <1>8, <1>9, AloneInLimits DEF Crawling

LEMMA PopInLimits == ASSUME SearchInv, LimitsInv, Pop PROVE LimitsInv'
<1> DEFINE root == Head(proc.queue)
           tools == IF Expands(root[2]) THEN proc.plan.tools ELSE <<>>
           todo == [i \in DOMAIN tools |-> <<tools[i], root[1], root[2] + 1>>]
<1>1. /\ proc.at = "expanding" /\ UNCHANGED <<papers, candidates, session, actions, comparisons>>
      /\ IsProc(proc) /\ Loop(proc)
  BY DEF Pop, SearchInv, ProcInv, LimitsInv, work
<1>2. \/ Moves("selecting")
      \/ Stops("limit", "selecting")
      \/ proc.queue # <<>> /\ proc' = [proc EXCEPT !.queue = Tail(@), !.todo = todo]
  BY DEF Pop
<1>3. CASE Moves("selecting")
  BY <1>1, <1>3, MovesInLimits, AloneInLimits DEF Crawling
<1>4. CASE Stops("limit", "selecting")
  BY <1>1, <1>4, StopsInLimits, AloneInLimits DEF Crawling
<1>5. CASE proc.queue # <<>> /\ proc' = [proc EXCEPT !.queue = Tail(@), !.todo = todo]
  <2>1. root \in Roots /\ Tail(proc.queue) \in Seq(Roots)
    BY <1>1, <1>5, HeadTailProperties DEF Loop
  <2>2. root[1] \in Nat /\ root[2] \in 0 .. MaxDepth
    BY <2>1 DEF Roots
  <2> HIDE DEF root
  <2>3. todo \in Seq(Expansions)
    <3>1. CASE Expands(root[2])
      <4> DEFINE plan == proc.plan.tools
      <4>1. /\ plan \in Seq(Relations) /\ Len(plan) \in Nat /\ DOMAIN plan = 1 .. Len(plan)
            /\ \A i \in 1 .. Len(plan) : plan[i] \in Relations
        BY <1>1, LenProperties, ElementOfSeq DEF Loop
      <4>2. root[2] + 1 \in 0 .. MaxDepth
        BY <2>2, <3>1, MoreBoundsAreNat DEF Expands
      <4>3. tools = plan
        BY <3>1
      <4> HIDE DEF tools, plan
      <4>4. todo \in [1 .. Len(plan) -> Expansions]
        BY <2>2, <4>1, <4>2, <4>3 DEF Expansions
      <4> HIDE DEF todo
      <4>5. QED
        BY <4>1, <4>4, FunctionIsSeq
    <3>2. CASE ~Expands(root[2])
      <4>1. tools = <<>> /\ DOMAIN tools = 1 .. 0
        BY <3>2
      <4> HIDE DEF tools
      <4>2. todo \in [1 .. 0 -> Expansions]
        BY <4>1
      <4> HIDE DEF todo
      <4>3. QED
        BY <4>2, FunctionIsSeq
    <3>3. QED
      BY <3>1, <3>2
  <2> HIDE DEF todo
  <2>4. /\ proc'.at = proc.at /\ proc'.step = proc.step /\ proc'.stop = proc.stop
        /\ proc'.plan = proc.plan /\ proc'.sources = proc.sources
        /\ proc'.queue = Tail(proc.queue) /\ proc'.todo = todo
        /\ proc'.memory = proc.memory /\ proc'.asked = proc.asked
    BY <1>1, <1>5 DEF IsProc
  <2>5. Loop(proc')
    BY <1>1, <2>1, <2>3, <2>4 DEF Loop
  <2>6. QED
    BY <1>1, <2>4, <2>5, AloneInLimits DEF Crawling
<1>6. QED
  BY <1>2, <1>3, <1>4, <1>5

LEMMA ExpandInLimits == ASSUME SearchInv, LimitsInv, Expand PROVE LimitsInv'
<1> DEFINE next == Head(proc.todo)
<1>1. /\ proc.at = "expanding" /\ UNCHANGED <<papers, candidates, session, comparisons>>
      /\ IsProc(proc) /\ Loop(proc) /\ proc.todo # <<>>
  BY DEF Expand, SearchInv, ProcInv, LimitsInv
<1>2. \/ proc' = [proc EXCEPT !.todo = <<>>] /\ UNCHANGED actions
      \/ proc' = [proc EXCEPT !.todo = Tail(@)] /\ UNCHANGED actions
      \/ /\ ~(proc.step >= MaxSteps)
         /\ \E pairs : proc' = [proc EXCEPT !.todo = Tail(@), !.step = @ + 1, !.expanded = pairs]
         /\ UNCHANGED actions
      \/ ~(proc.step >= MaxSteps) /\ Call(next[1], next[2], next[3])
  BY DEF Expand
<1>3. next \in Expansions /\ Tail(proc.todo) \in Seq(Expansions) /\ <<>> \in Seq(Expansions)
  BY <1>1, HeadTailProperties, EmptySeq DEF Loop
<1> HIDE DEF next
<1>4. ASSUME NEW todo \in Seq(Expansions), NEW step \in 0 .. MaxSteps, UNCHANGED actions,
             proc'.at = proc.at, proc'.step = step, proc'.stop = proc.stop,
             proc'.plan = proc.plan, proc'.sources = proc.sources, proc'.queue = proc.queue,
             proc'.todo = todo, proc'.memory = proc.memory, proc'.asked = proc.asked
      PROVE  LimitsInv'
  <2>1. Loop(proc')
    BY <1>1, <1>4 DEF Loop
  <2>2. QED
    BY <1>1, <1>4, <2>1, AloneInLimits DEF Crawling
<1>5. CASE proc' = [proc EXCEPT !.todo = <<>>] /\ UNCHANGED actions
  <2>1. /\ proc'.at = proc.at /\ proc'.step = proc.step /\ proc'.stop = proc.stop
        /\ proc'.plan = proc.plan /\ proc'.sources = proc.sources /\ proc'.queue = proc.queue
        /\ proc'.todo = <<>> /\ proc'.memory = proc.memory /\ proc'.asked = proc.asked
    BY <1>1, <1>5 DEF IsProc
  <2>2. QED
    BY <1>1, <1>3, <1>4, <1>5, <2>1 DEF Loop
<1>6. CASE proc' = [proc EXCEPT !.todo = Tail(@)] /\ UNCHANGED actions
  <2>1. /\ proc'.at = proc.at /\ proc'.step = proc.step /\ proc'.stop = proc.stop
        /\ proc'.plan = proc.plan /\ proc'.sources = proc.sources /\ proc'.queue = proc.queue
        /\ proc'.todo = Tail(proc.todo) /\ proc'.memory = proc.memory /\ proc'.asked = proc.asked
    BY <1>1, <1>6 DEF IsProc
  <2>2. QED
    BY <1>1, <1>3, <1>4, <1>6, <2>1 DEF Loop
<1>7. ASSUME ~(proc.step >= MaxSteps), UNCHANGED actions, NEW pairs,
             proc' = [proc EXCEPT !.todo = Tail(@), !.step = @ + 1, !.expanded = pairs]
      PROVE  LimitsInv'
  <2>1. /\ proc'.at = proc.at /\ proc'.step = proc.step + 1 /\ proc'.stop = proc.stop
        /\ proc'.plan = proc.plan /\ proc'.sources = proc.sources /\ proc'.queue = proc.queue
        /\ proc'.todo = Tail(proc.todo) /\ proc'.memory = proc.memory /\ proc'.asked = proc.asked
    BY <1>1, <1>7 DEF IsProc
  <2>2. proc.step + 1 \in 0 .. MaxSteps
    BY <1>1, <1>7, BoundsAreNat DEF Loop
  <2>3. QED
    BY <1>3, <1>4, <1>7, <2>1, <2>2
<1>8. CASE ~(proc.step >= MaxSteps) /\ Call(next[1], next[2], next[3])
  <2>1. next[1] \in Relations /\ next[2] \in Nat /\ next[3] \in 0 .. MaxDepth
    BY <1>3 DEF Expansions
  <2>2. next[1] \in Tools \ {"SEARCH_PAPERS", "GET_RECOMMENDATIONS", "GET_PAPER"}
    BY <2>1 DEF Relations, Tools
  <2>3. next[2] # None
    BY <2>1, NoneIsNoNumber
  <2>4. proc.step < MaxSteps
    BY <1>1, <1>8, BoundsAreNat DEF Loop
  <2>5. QED
    BY <1>1, <1>8, <2>1, <2>2, <2>3, <2>4, CallInLimits DEF Crawling
<1>9. QED
  BY <1>2, <1>5, <1>6, <1>7, <1>8

\* A call that ends is the call that it was.
LEMMA CallStays ==
    ASSUME SearchInv, LimitsInv, proc.at = "calling", NEW status \in {"COMPLETED", "FAILED"},
           actions' = [actions EXCEPT ![proc.step].status = status]
    PROVE  /\ DOMAIN actions' \subseteq 1 .. MaxSteps /\ Queries' = Queries
           /\ \A s \in DOMAIN actions' : IsAction(actions'[s])
<1>1. /\ actions = [s \in DOMAIN actions |-> actions[s]]
      /\ \A s \in DOMAIN actions : IsCall(actions[s]) /\ IsAction(actions[s])
      /\ proc.step \in DOMAIN actions /\ DOMAIN actions \subseteq 1 .. MaxSteps
  BY DEF SearchInv, ActionsInv, LimitsInv, CallsInv
<1>2. PICK last : last = [actions[proc.step] EXCEPT !.status = status]
  OBVIOUS
<1>3. /\ last.status = status /\ last.tool = actions[proc.step].tool
      /\ last.target = actions[proc.step].target /\ last.depth = actions[proc.step].depth
  BY <1>1, <1>2 DEF IsCall
<1>4. IsAction(last)
  BY <1>1, <1>3 DEF IsAction
<1>5. actions' = [actions EXCEPT ![proc.step] = last]
  BY <1>2
<1>6. /\ DOMAIN actions' = DOMAIN actions
      /\ \A s \in DOMAIN actions \ {proc.step} : actions'[s] = actions[s]
      /\ actions'[proc.step] = last
  BY <1>1, <1>5
<1>7. \A s \in DOMAIN actions : actions'[s].tool = actions[s].tool /\ IsAction(actions'[s])
  BY <1>1, <1>3, <1>4, <1>6
<1>8. Queries' = Queries
  <2>1. {s \in DOMAIN actions' : actions'[s].tool = "SEARCH_PAPERS"}
           = {s \in DOMAIN actions : actions[s].tool = "SEARCH_PAPERS"}
    BY <1>6, <1>7
  <2>2. QED
    BY <2>1 DEF Queries
<1>9. QED
  BY <1>1, <1>6, <1>7, <1>8

LEMMA AnsweredInLimits == ASSUME SearchInv, LimitsInv, Answered PROVE LimitsInv'
<1> DEFINE call == actions[proc.step]
<1>1. proc.at = "calling" /\ UNCHANGED <<session, comparisons>>
  BY DEF Answered
<1>2. PICK reply \in Answers(call) :
        \/ Answer(call, reply, Outcome(Page(call.tool, reply), call.depth, proc.step))
        \/ RefuseAnswer(Outcome(Page(call.tool, reply), call.depth, proc.step))
  BY DEF Answered
<1>3. /\ IsProc(proc) /\ Loop(proc) /\ CallsInv /\ IsMemory(proc.memory) /\ Stored(Done)
      /\ Covered(papers, candidates, DOMAIN proc.memory) /\ proc.asked = Queries
      /\ IsAction(call) /\ (call.tool = "GET_PAPER" => Room >= 1)
  <2>1. /\ IsProc(proc) /\ Loop(proc) /\ CallsInv /\ Stored(Done) /\ CoverInv
        /\ proc.step \in DOMAIN actions
    BY <1>1 DEF SearchInv, ProcInv, ActionsInv, CandidatesInv, LimitsInv, StoredInv, Stored
  <2>2. QED
    BY <1>1, <2>1 DEF CoverInv, CallsInv, Crawling, Loop
<1> DEFINE page == Page(call.tool, reply)
           cut == Cut(call.tool, reply)
           limit == IF call.tool = "GET_PAPER" THEN 1 ELSE Room
           outcome == Outcome(page, call.depth, proc.step)
<1>4. reply \in SUBSET Records /\ IsPage(reply)
  <2>1. reply \in SUBSET Records /\ \A r, q \in reply : r.sid = q.sid => r = q
    BY DEF Answers
  <2>2. QED
    BY <2>1, RecordsAreNamed, FS_Subset DEF IsPage
<1>5. Cardinality(DOMAIN proc.memory) \in Nat /\ Room \in Nat /\ limit \in Nat /\ limit <= Room
  <2>1. Cardinality(DOMAIN proc.memory) \in Nat
    BY <1>3, FS_CardinalityType DEF IsMemory
  <2>2. Room \in Nat
    BY <1>3, <2>1, BoundIsNat DEF Room, IsMemory
  <2>3. QED
    BY <1>3, <2>1, <2>2
<1>6. cut \in SUBSET reply /\ IsFiniteSet(cut) /\ Cardinality(cut) \in Nat /\ Cardinality(cut) <= limit
  <2>1. cut = {r \in reply : Cardinality({q \in reply : q.sid < r.sid}) < limit}
    BY DEF Cut
  <2> HIDE DEF cut, limit
  <2>2. QED
    BY <1>4, <1>5, <2>1, FirstOfAnswer
<1>7. page \in SUBSET cut
  BY DEF Page
<1> HIDE DEF cut, page, limit, call
<1>8. Fits(page)
  <2>1. page \in SUBSET reply
    BY <1>6, <1>7
  <2>2. IsPage(page)
    BY <1>4, <2>1, SubpageIsPage
  <2>3. \A r \in page : KnownPaper(r)
    BY <1>4, <2>1, RecordIsKnown
  <2>4. Cardinality(page) <= Cardinality(cut) /\ Cardinality(page) \in Nat
    BY <1>6, <1>7, FS_Subset, FS_CardinalityType
  <2>5. Cardinality(page) + Cardinality(DOMAIN proc.memory) <= Bound
    BY <1>5, <1>6, <2>4, BoundIsNat DEF Room
  <2>6. QED
    BY <2>2, <2>3, <2>5 DEF Fits
<1>9. /\ outcome.refusal # "overrun" /\ IsMemory(outcome.memory)
      /\ outcome.refusal = "crowded" => ~ OneIdentity
      /\ outcome.refusal = None =>
            /\ Traced(outcome.papers)
            /\ ProperCandidates(outcome.papers, outcome.candidates)
            /\ Cardinality(DOMAIN outcome.candidates) <= Bound
            /\ Covered(outcome.papers, outcome.candidates, DOMAIN outcome.memory)
            /\ PapersStay(papers, outcome.papers)
  <2>1. call.depth \in 0 .. MaxDepth
    BY <1>3 DEF IsAction
  <2>2. QED
    BY <1>3, <1>8, <2>1, OutcomeFits
<1>10. outcome.refusal \in PageRefusals \cup {None}
  BY OutcomeRefusals
<1>11. \/ Answer(call, reply, outcome)
       \/ RefuseAnswer(outcome)
  BY <1>2 DEF call, page
<1> HIDE DEF outcome
<1>12. CASE RefuseAnswer(outcome)
  BY <1>1, <1>9, <1>10, <1>12, RefusedInLimits DEF RefuseAnswer, Crawling
<1>13. CASE Answer(call, reply, outcome)
  <2>1. /\ outcome.refusal = None
        /\ papers' = outcome.papers /\ candidates' = outcome.candidates
        /\ actions' = [actions EXCEPT ![proc.step].status = "COMPLETED"]
    BY <1>13 DEF Answer, Accept
  <2>2. proc' = [proc EXCEPT !.at = Then(call.tool), !.memory = outcome.memory,
                    !.sources = @ \cup SourceIds(call.tool, reply),
                    !.queue = @ \o Enqueued(call, outcome.memory)]
    BY <1>13 DEF Answer
  <2>3. Then(call.tool) \in {"planning", "querying", "queueing", "expanding"}
    BY DEF Then
  <2>4. /\ proc'.at = Then(call.tool) /\ proc'.step = proc.step /\ proc'.stop = proc.stop
        /\ proc'.plan = proc.plan /\ proc'.sources = proc.sources \cup SourceIds(call.tool, reply)
        /\ proc'.queue = proc.queue \o Enqueued(call, outcome.memory)
        /\ proc'.todo = proc.todo /\ proc'.memory = outcome.memory /\ proc'.asked = proc.asked
    BY <1>3, <2>2 DEF IsProc
  <2>5. SourceIds(call.tool, reply) \subseteq RecordIds
    BY <1>4, <1>6 DEF SourceIds, RecordIds, cut
  <2>6. Enqueued(call, outcome.memory) \in Seq(Roots)
    <3> DEFINE own == DOMAIN outcome.memory \ DOMAIN proc.memory
               new == Sorted(own)
               added == [i \in DOMAIN new |-> <<new[i], call.depth>>]
    <3>1. Enqueued(call, outcome.memory) = <<>> \/ Enqueued(call, outcome.memory) = added
      BY DEF Enqueued
    <3>2. own \subseteq Nat /\ IsFiniteSet(own)
      <4>1. own \in SUBSET DOMAIN outcome.memory
        OBVIOUS
      <4>2. QED
        BY <1>9, <4>1, FS_Subset DEF IsMemory
    <3> HIDE DEF own
    <3>3. new \in Seq(own) /\ DOMAIN new = 1 .. Cardinality(own) /\ Cardinality(own) \in Nat
      BY <3>2, SortedIsSeq
    <3> HIDE DEF new
    <3>4. \A i \in DOMAIN new : new[i] \in Nat
      BY <3>2, <3>3, LenProperties, ElementOfSeq
    <3>5. call.depth \in 0 .. MaxDepth
      BY <1>3 DEF IsAction
    <3>6. added \in [1 .. Cardinality(own) -> Roots]
      BY <3>3, <3>4, <3>5 DEF Roots
    <3> HIDE DEF added
    <3>7. added \in Seq(Roots)
      BY <3>3, <3>6, FunctionIsSeq
    <3>8. <<>> \in Seq(Roots)
      BY EmptySeq
    <3>9. QED
      BY <3>1, <3>7, <3>8
  <2>7. proc'.queue \in Seq(Roots)
    BY <1>3, <2>4, <2>6, ConcatProperties DEF Loop
  <2>8. Loop(proc')
    BY <1>3, <1>9, <2>3, <2>4, <2>5, <2>7 DEF Loop
  <2>9. /\ DOMAIN actions' \subseteq 1 .. MaxSteps /\ Queries' = Queries
        /\ \A s \in DOMAIN actions' : IsAction(actions'[s])
    BY <1>1, <2>1, CallStays
  <2>10. CallsInv'
    BY <1>3, <2>3, <2>4, <2>9 DEF CallsInv
  <2>11. StoredInv'
    BY <1>1, <1>9, <2>1, StoredInLimits
  <2>12. CoverInv'
    BY <1>9, <2>1, <2>4 DEF CoverInv
  <2>13. RowInv'
    BY <1>1 DEF LimitsInv, RowInv, Crawling
  <2>14. QED
    BY <2>8, <2>10, <2>11, <2>12, <2>13 DEF LimitsInv
<1>14. QED
  BY <1>11, <1>12, <1>13

LEMMA CallFailsInLimits == ASSUME SearchInv, LimitsInv, CallFails PROVE LimitsInv'
<1>1. /\ proc.at = "calling" /\ UNCHANGED <<papers, candidates, session, comparisons>>
      /\ actions' = [actions EXCEPT ![proc.step].status = "FAILED"]
      /\ \/ proc' = [proc EXCEPT !.at = "failing"]
         \/ proc' = [proc EXCEPT !.at = "finishing", !.stop = "timeout"]
      /\ IsProc(proc) /\ Loop(proc) /\ CallsInv /\ StoredInv /\ CoverInv
  BY DEF CallFails, Moves, SearchInv, ProcInv, LimitsInv
<1>2. /\ proc'.at \in {"failing", "finishing"} /\ proc'.step = proc.step
      /\ proc'.stop \in {proc.stop, "timeout"}
      /\ proc'.plan = proc.plan /\ proc'.sources = proc.sources /\ proc'.queue = proc.queue
      /\ proc'.todo = proc.todo /\ proc'.memory = proc.memory /\ proc'.asked = proc.asked
  BY <1>1 DEF IsProc
<1>3. Loop(proc')
  BY <1>1, <1>2 DEF Loop
<1>4. /\ DOMAIN actions' \subseteq 1 .. MaxSteps /\ Queries' = Queries
      /\ \A s \in DOMAIN actions' : IsAction(actions'[s])
  BY <1>1, CallStays
<1>5. CallsInv'
  BY <1>1, <1>2, <1>4 DEF CallsInv, Crawling
<1>6. StoredInv'
  BY <1>1 DEF StoredInv, Comparisons
<1>7. CoverInv'
  BY <1>1, <1>2 DEF CoverInv, Crawling
<1>8. RowInv'
  BY <1>1 DEF LimitsInv, RowInv, Crawling
<1>9. QED
  BY <1>3, <1>5, <1>6, <1>7, <1>8 DEF LimitsInv

LEMMA InterruptedInLimits == ASSUME SearchInv, LimitsInv, Deadline \/ ModelFails PROVE LimitsInv'
<1>1. /\ proc.at \in Crawling
      /\ UNCHANGED <<papers, candidates, actions, comparisons, session>>
      /\ IsProc(proc) /\ Loop(proc)
      /\ Stops("timeout", "finishing") \/ Moves("failing")
  BY DEF Deadline, ModelFails, Crawling, work, SearchInv, ProcInv, LimitsInv
<1>2. CASE Stops("timeout", "finishing")
  BY <1>1, <1>2, StopsInLimits, AloneInLimits
<1>3. CASE Moves("failing")
  BY <1>1, <1>3, MovesInLimits, AloneInLimits
<1>4. QED
  BY <1>1, <1>2, <1>3

\* Only decisions or targets of the candidates change.
LEMMA FieldsInLimits ==
    ASSUME SearchInv, LimitsInv, UNCHANGED <<papers, session, actions, comparisons>>,
           DOMAIN candidates' = DOMAIN candidates,
           \A id \in DOMAIN candidates :
              /\ candidates'[id].depth = candidates[id].depth
              /\ candidates'[id].by = candidates[id].by
              /\ candidates'[id].target \in BOOLEAN
              /\ candidates'[id].target => RowOf(papers, id).arxiv # None,
           NEW at, Moves(at),
           at \notin {"overrun", "crowded", "overtargeted", "local", "storing", "drafted",
                      "calling"},
           at \in Crawling => proc.at \in Crawling
    PROVE  LimitsInv'
<1>1. IsProc(proc) /\ Loop(proc) /\ CallsInv /\ StoredInv /\ CoverInv /\ RowInv
  BY DEF SearchInv, ProcInv, LimitsInv
<1>2. /\ Loop(proc') /\ proc'.at = at
      /\ proc'.asked = proc.asked /\ proc'.memory = proc.memory
  BY <1>1, MovesInLimits
<1>3. CallsInv'
  BY <1>1, <1>2 DEF CallsInv, Queries
<1>4. StoredInv'
  BY <1>1 DEF StoredInv, ProperCandidates, Comparisons
<1>5. CoverInv'
  BY <1>1, <1>2 DEF CoverInv, Covered
<1>6. RowInv'
  BY <1>1, <1>2 DEF RowInv
<1>7. QED
  BY <1>2, <1>3, <1>4, <1>5, <1>6 DEF LimitsInv

LEMMA SelectInLimits == ASSUME SearchInv, LimitsInv, Select PROVE LimitsInv'
<1> DEFINE known == UNION {Candidate(sid) : sid \in DOMAIN proc.memory}
           D(chosen, rejected, id) == CASE id \in chosen -> "SELECTED"
                                        [] id \in rejected -> "REJECTED"
                                        [] OTHER -> "PENDING"
<1>1. proc.at = "selecting" /\ UNCHANGED <<papers, session, actions, comparisons>>
  BY DEF Select, work
<1>2. CASE Ends("aliased") /\ UNCHANGED candidates
  <2>1. Loop(proc') /\ proc'.at = "aliased"
    BY <1>2, EndsInLimits
  <2>2. QED
    BY <1>1, <1>2, <2>1, AloneInLimits DEF Crawling
<1>3. ASSUME NEW chosen \in SUBSET known, NEW rejected \in SUBSET (known \ chosen),
             Cardinality(chosen) <= MaxSelected, Moves("finishing"),
             candidates' = [id \in DOMAIN candidates |->
                              [candidates[id] EXCEPT !.decision = D(chosen, rejected, id)]]
      PROVE  LimitsInv'
  <2> HIDE DEF D
  <2>1. \A id \in DOMAIN candidates : IsFound(candidates[id])
    BY DEF SearchInv, CandidatesInv, SoundCandidates
  <2>2. /\ DOMAIN candidates' = DOMAIN candidates
        /\ \A id \in DOMAIN candidates :
              candidates'[id] = [candidates[id] EXCEPT !.decision = D(chosen, rejected, id)]
    BY <1>3
  <2>3. \A id \in DOMAIN candidates :
           /\ candidates'[id].depth = candidates[id].depth
           /\ candidates'[id].by = candidates[id].by
           /\ candidates'[id].target = candidates[id].target
    BY <2>1, <2>2 DEF IsFound
  <2>4. \A id \in DOMAIN candidates :
           /\ candidates[id].target \in BOOLEAN
           /\ candidates[id].target => RowOf(papers, id).arxiv # None
    BY DEF LimitsInv, StoredInv, ProperCandidates
  <2>5. QED
    BY <1>1, <1>3, <2>2, <2>3, <2>4, FieldsInLimits DEF Crawling
<1>4. QED
  BY <1>2, <1>3 DEF Select

LEMMA AssignInLimits == ASSUME SearchInv, LimitsInv, Assign PROVE LimitsInv'
<1>1. proc.at = "assigning" /\ UNCHANGED <<papers, session, actions, comparisons>>
  BY DEF Assign, work
<1>2. IsProc(proc) /\ Loop(proc)
  BY DEF SearchInv, ProcInv, LimitsInv
<1>3. \/ Moves("out") /\ UNCHANGED candidates
      \/ Ends("aliased") /\ UNCHANGED candidates
      \/ \E targets \in SUBSET WithArxiv :
            /\ Cardinality(targets) <= MaxTargets
            /\ \/ /\ Cardinality(targets) > MaxSelected
                  /\ Ends("overtargeted") /\ UNCHANGED candidates
               \/ /\ candidates' = [id \in DOMAIN candidates |->
                        [candidates[id] EXCEPT !.target = id \in targets]]
                  /\ Moves("planned")
  BY DEF Assign
<1>4. CASE Moves("out") /\ UNCHANGED candidates
  BY <1>1, <1>2, <1>4, MovesInLimits, AloneInLimits DEF Crawling
<1>5. CASE Ends("aliased") /\ UNCHANGED candidates
  <2>1. Loop(proc') /\ proc'.at = "aliased"
    BY <1>5, EndsInLimits
  <2>2. QED
    BY <1>1, <1>5, <2>1, AloneInLimits DEF Crawling
<1>6. ASSUME NEW targets \in SUBSET WithArxiv, Cardinality(targets) <= MaxTargets,
             Cardinality(targets) > MaxSelected, Ends("overtargeted"), UNCHANGED candidates
      PROVE  LimitsInv'
  <2>1. IsFiniteSet(DOMAIN candidates) /\ targets \in SUBSET DOMAIN candidates
    BY SelectedFinite DEF SearchInv, CandidatesInv, SoundCandidates, WithArxiv
  <2>2. Cardinality(targets) \in Nat
    BY <2>1, FS_Subset, FS_CardinalityType
  <2>3. MaxTargets \in Nat /\ MaxSelected \in Nat
    BY SearchAssumption
  <2>4. ~ LimitsAgree
    BY <1>6, <2>2, <2>3 DEF LimitsAgree
  <2>5. Loop(proc') /\ proc'.at = "overtargeted"
    BY <1>6, <2>4, EndsInLimits
  <2>6. QED
    BY <1>1, <1>6, <2>5, AloneInLimits DEF Crawling
<1>7. ASSUME NEW targets \in SUBSET WithArxiv, Moves("planned"),
             candidates' = [id \in DOMAIN candidates |->
                [candidates[id] EXCEPT !.target = id \in targets]]
      PROVE  LimitsInv'
  <2>1. \A id \in DOMAIN candidates : IsFound(candidates[id])
    BY DEF SearchInv, CandidatesInv, SoundCandidates
  <2>2. /\ DOMAIN candidates' = DOMAIN candidates
        /\ \A id \in DOMAIN candidates :
              candidates'[id] = [candidates[id] EXCEPT !.target = id \in targets]
    BY <1>7
  <2>3. \A id \in DOMAIN candidates :
           /\ candidates'[id].depth = candidates[id].depth
           /\ candidates'[id].by = candidates[id].by
           /\ candidates'[id].target = (id \in targets)
    BY <2>1, <2>2 DEF IsFound
  <2>4. \A id \in targets : RowOf(papers, id).arxiv # None
    BY DEF WithArxiv
  <2>5. \A id \in DOMAIN candidates :
           /\ candidates'[id].target \in BOOLEAN
           /\ candidates'[id].target => RowOf(papers, id).arxiv # None
    <3>1. TAKE id \in DOMAIN candidates
    <3>2. candidates'[id].target = (id \in targets)
      BY <2>3
    <3>3. CASE id \in targets
      <4>1. candidates'[id].target = TRUE
        BY <3>2, <3>3, Zenon
      <4>2. QED
        BY <2>4, <3>3, <4>1
    <3>4. CASE id \notin targets
      <4>1. (id \in targets) = FALSE
        BY <3>4
      <4>2. candidates'[id].target = FALSE
        BY <3>2, <4>1, Zenon
      <4>3. QED
        BY <4>2
    <3>5. QED
      BY <3>3, <3>4
  <2>6. QED
    BY <1>1, <1>7, <2>2, <2>3, <2>5, FieldsInLimits DEF Crawling
<1>8. QED
  BY <1>3, <1>4, <1>5, <1>6, <1>7

LEMMA FinishesInLimits ==
    ASSUME SearchInv, LimitsInv, Complete \/ Fail
    PROVE  LimitsInv'
<1>1. /\ proc.at \in Crawling /\ UNCHANGED <<papers, candidates, actions, comparisons>>
      /\ IsProc(proc) /\ Loop(proc) /\ CallsInv /\ StoredInv
      /\ session \in Sessions /\ IsRow(session)
  BY DEF Complete, Fail, Crawling, SearchInv, ProcInv, SessionInv, LimitsInv, RowInv
<1>2. \/ Finishes("COMPLETE", proc.stop, "reading")
      \/ Finishes("FAILED", "failed", "out")
  BY DEF Complete, Fail
<1>3. \/ /\ session' = [session EXCEPT !.status = "COMPLETE", !.stop = proc.stop]
         /\ Moves("reading")
      \/ /\ session' = [session EXCEPT !.status = "FAILED", !.stop = "failed"]
         /\ Moves("out")
      \/ Ends("running") /\ UNCHANGED session
  BY <1>2 DEF Finishes
<1>4. CASE Ends("running") /\ UNCHANGED session
  <2>1. Loop(proc') /\ proc'.at = "running"
    BY <1>4, EndsInLimits
  <2>2. QED
    BY <1>1, <1>4, <2>1, AloneInLimits DEF Crawling
<1>5. ASSUME session' \in Sessions, NEW at \in {"reading", "out"}, Moves(at)
      PROVE  LimitsInv'
  <2>1. Loop(proc') /\ proc'.at = at
    BY <1>1, <1>5, MovesInLimits
  <2>2. CallsInv' /\ StoredInv' /\ CoverInv' /\ RowInv'
    BY <1>1, <1>5, <2>1 DEF CallsInv, Queries, StoredInv, Comparisons, CoverInv, RowInv, Crawling
  <2>3. QED
    BY <2>1, <2>2 DEF LimitsInv
<1>6. CASE /\ session' = [session EXCEPT !.status = "COMPLETE", !.stop = proc.stop]
           /\ Moves("reading")
  <2>1. session' = [status |-> "COMPLETE", stop |-> proc.stop, plan |-> session.plan]
    BY <1>1, <1>6 DEF IsRow
  <2>2. proc.stop \in {"done", "limit", "timeout"} /\ proc.stop # None
    BY <1>1, NoneIsNoOutcome DEF Loop
  <2>3. session' \in Sessions
    BY <1>1, <2>1, <2>2 DEF Sessions
  <2>4. QED
    BY <1>5, <1>6, <2>3
<1>7. CASE /\ session' = [session EXCEPT !.status = "FAILED", !.stop = "failed"]
           /\ Moves("out")
  <2>1. session' = [status |-> "FAILED", stop |-> "failed", plan |-> session.plan]
    BY <1>1, <1>7 DEF IsRow
  <2>2. "failed" # None
    BY NoneIsNoOutcome
  <2>3. session' \in Sessions
    BY <1>1, <2>1, <2>2 DEF Sessions
  <2>4. QED
    BY <1>5, <1>7, <2>3
<1>8. QED
  BY <1>3, <1>4, <1>6, <1>7

LEMMA AfterTheSearchInLimits ==
    ASSUME SearchInv, LimitsInv, AfterTheSearch \/ Crash
    PROVE  LimitsInv'
<1>1. /\ UNCHANGED <<papers, candidates, session, actions>> /\ IsProc(proc) /\ Loop(proc)
  BY DEF AfterTheSearch, Read, ReadTargets, Materialize, Draft, Compare, Leave, Crash, work,
         SearchInv, ProcInv, LimitsInv
<1>2. ASSUME Loop(proc'), proc'.at \notin Crawling, UNCHANGED comparisons PROVE LimitsInv'
  BY <1>1, <1>2, AloneInLimits DEF Crawling
\* Steps that keep what the limits speak of.
<1>3. ASSUME UNCHANGED comparisons,
             proc'.at \notin Crawling \cup {"overrun", "crowded", "overtargeted", "drafted"},
             proc'.step = proc.step, proc'.stop = proc.stop, proc'.plan = proc.plan,
             proc'.sources = proc.sources, proc'.queue = proc.queue, proc'.todo = proc.todo,
             proc'.memory = proc.memory
      PROVE  LimitsInv'
  <2>1. Loop(proc')
    BY <1>1, <1>3 DEF Loop, Crawling
  <2>2. QED
    BY <1>2, <1>3, <2>1
<1>4. CASE Read
  <2>1. UNCHANGED comparisons /\ IsFresh(proc') /\ proc'.at = "assigning"
    BY <1>4 DEF Read, work, Out, IsFresh
  <2>2. QED
    BY <1>2, <2>1, FreshIsInLimits DEF Crawling
<1>5. CASE ReadTargets
  <2>1. /\ UNCHANGED comparisons
        /\ \/ proc' = [proc EXCEPT !.at = "materializing", !.seen = TargetPairs]
           \/ proc' = [proc EXCEPT !.at = "comparing", !.seen = TargetPairs]
    <3>1. PICK next \in {<<"planned", "materializing">>, <<"materialized", "comparing">>} :
             proc' = [proc EXCEPT !.at = next[2], !.seen = TargetPairs]
      BY <1>5 DEF ReadTargets
    <3>2. next[2] = "materializing" \/ next[2] = "comparing"
      OBVIOUS
    <3>3. QED
      BY <1>5, <3>1, <3>2 DEF ReadTargets, work
  <2>2. /\ proc'.at \in {"materializing", "comparing"} /\ proc'.step = proc.step
        /\ proc'.stop = proc.stop /\ proc'.plan = proc.plan /\ proc'.sources = proc.sources
        /\ proc'.queue = proc.queue /\ proc'.todo = proc.todo /\ proc'.memory = proc.memory
    BY <1>1, <2>1 DEF IsProc
  <2>3. QED
    BY <1>3, <2>1, <2>2 DEF Crawling
<1>6. CASE Materialize \/ Leave \/ Crash
  <2>1. /\ UNCHANGED comparisons
        /\ Moves("materialized") \/ Moves("out") \/ Ends("aliased") \/ Ends("out")
    BY <1>6 DEF Materialize, Leave, Crash, work
  <2>2. CASE Moves("materialized") \/ Moves("out")
    <3>1. Loop(proc') /\ proc'.at \in {"materialized", "out"}
      BY <1>1, <2>2, MovesInLimits
    <3>2. QED
      BY <1>2, <2>1, <3>1 DEF Crawling
  <2>3. CASE Ends("aliased") \/ Ends("out")
    <3>1. Loop(proc') /\ proc'.at \in {"aliased", "out"}
      BY <2>3, EndsInLimits
    <3>2. QED
      BY <1>2, <2>1, <3>1 DEF Crawling
  <2>4. QED
    BY <2>1, <2>2, <2>3
<1>7. CASE Draft
  <2>1. /\ proc.at = "comparing" /\ UNCHANGED comparisons
        /\ \/ \E seen : proc' = [proc EXCEPT !.seen = seen]
           \/ \E seen, id, arxiv : proc' = [[proc EXCEPT !.seen = seen]
                                      EXCEPT !.at = "drafted", !.draft = Bundle(id, arxiv)]
    BY <1>7 DEF Draft, Dropped, work
  <2>2. ASSUME NEW seen, proc' = [proc EXCEPT !.seen = seen]
        PROVE  LimitsInv'
    <3>1. /\ proc'.at = "comparing" /\ proc'.step = proc.step
          /\ proc'.stop = proc.stop /\ proc'.plan = proc.plan /\ proc'.sources = proc.sources
          /\ proc'.queue = proc.queue /\ proc'.todo = proc.todo /\ proc'.memory = proc.memory
      BY <1>1, <2>1, <2>2 DEF IsProc
    <3>2. QED
      BY <1>3, <2>1, <3>1 DEF Crawling
  <2>3. ASSUME NEW seen, NEW id, NEW arxiv,
               proc' = [[proc EXCEPT !.seen = seen]
                          EXCEPT !.at = "drafted", !.draft = Bundle(id, arxiv)]
        PROVE  LimitsInv'
    <3>1. /\ proc'.at = "drafted" /\ proc'.step = proc.step
          /\ proc'.stop = proc.stop /\ proc'.plan = proc.plan /\ proc'.sources = proc.sources
          /\ proc'.queue = proc.queue /\ proc'.todo = proc.todo /\ proc'.memory = proc.memory
          /\ proc'.draft = Bundle(id, arxiv)
      BY <1>1, <2>3 DEF IsProc
    <3>2. IsBundle(Bundle(id, arxiv))
      BY DEF Bundle, IsBundle, Referenced
    <3>3. Loop(proc')
      BY <1>1, <3>1, <3>2 DEF Loop
    <3>4. QED
      BY <1>2, <2>1, <3>1, <3>3 DEF Crawling
  <2>4. QED
    BY <2>1, <2>2, <2>3
<1>8. CASE Compare
  <2>1. proc.at = "drafted"
    BY <1>8 DEF Compare
  <2>2. \/ /\ TargetsOf(proc.draft.target) # {}
           /\ comparisons' = comparisons \cup {proc.draft}
           /\ proc' = [proc EXCEPT !.at = "comparing", !.draft = None]
        \/ Ends("aliased") /\ UNCHANGED comparisons
    BY <1>8 DEF Compare
  <2>3. CASE Ends("aliased") /\ UNCHANGED comparisons
    <3>1. Loop(proc') /\ proc'.at = "aliased"
      BY <2>3, EndsInLimits
    <3>2. QED
      BY <1>2, <2>3, <3>1 DEF Crawling
  <2>4. CASE /\ TargetsOf(proc.draft.target) # {}
             /\ comparisons' = comparisons \cup {proc.draft}
             /\ proc' = [proc EXCEPT !.at = "comparing", !.draft = None]
    <3>1. /\ proc'.at = "comparing" /\ proc'.step = proc.step
          /\ proc'.stop = proc.stop /\ proc'.plan = proc.plan /\ proc'.sources = proc.sources
          /\ proc'.queue = proc.queue /\ proc'.todo = proc.todo /\ proc'.memory = proc.memory
      BY <1>1, <2>4 DEF IsProc
    <3>2. Loop(proc')
      BY <1>1, <3>1 DEF Loop
    <3>3. PICK id \in DOMAIN candidates :
             candidates[id].target /\ RowOf(papers, id).arxiv = proc.draft.target
      BY <2>4 DEF TargetsOf
    <3>4. RowOf(papers, id) \in papers /\ RowOf(papers, id).arxiv # None
      <4>1. \E p \in papers : p.id = id
        BY DEF SearchInv, CandidatesInv, SoundCandidates, Ids
      <4>2. RowOf(papers, id) \in papers
        BY <4>1 DEF RowOf
      <4>3. QED
        BY <3>3, <4>2 DEF LimitsInv, StoredInv, ProperCandidates
    <3>5. proc.draft \in Comparisons
      <4>1. IsBundle(proc.draft)
        BY <1>1, <2>1 DEF Loop
      <4>2. proc.draft.target \in {p.arxiv : p \in papers} \ {None}
        BY <3>3, <3>4
      <4>3. QED
        BY <4>1, <4>2 DEF IsBundle, Comparisons
    <3>6. StoredInv'
      BY <1>1, <2>4, <3>5 DEF LimitsInv, StoredInv, Comparisons
    <3>7. CallsInv' /\ CoverInv' /\ RowInv'
      BY <1>1, <3>1 DEF LimitsInv, CallsInv, Queries, CoverInv, RowInv, Crawling
    <3>8. QED
      BY <3>2, <3>6, <3>7 DEF LimitsInv
  <2>5. QED
    BY <2>2, <2>3, <2>4
<1>9. QED
  BY <1>4, <1>5, <1>6, <1>7, <1>8 DEF AfterTheSearch

\* A record that others store changes neither the session nor what the process holds.
LEMMA StoreElsewhereInLimits ==
    ASSUME SearchInv, LimitsInv, NEW r \in Elsewhere, StoreElsewhere(r)
    PROVE  LimitsInv'
<1> DEFINE state == StoredBy({r})
<1>1. /\ papers' = state.papers /\ candidates' = state.candidates
      /\ UNCHANGED <<session, actions, comparisons, proc>>
  BY DEF StoreElsewhere, work
<1>2. /\ Stored(Done) /\ IsPage({r}) /\ \A q \in {r} : KnownPaper(q)
  BY SingletonIsPage, RecordsAreNamed, RecordIsKnown
  DEF SearchInv, CandidatesInv, LimitsInv, StoredInv, Stored
<1>3. SoundState(state, Done) /\ TracedState(state)
  BY <1>2, BoundsAreNat, MoreBoundsAreNat, PageIsTraced
<1> HIDE DEF state
<1>4. /\ Traced(papers') /\ ProperCandidates(papers', candidates') /\ PapersStay(papers, papers')
      /\ ComeFrom(papers, candidates, papers', candidates')
      /\ Cardinality(DOMAIN candidates') <= Cardinality(DOMAIN candidates)
      /\ Table(papers') /\ DOMAIN candidates' \subseteq Ids(papers')
  BY <1>1, <1>3 DEF TracedState, SoundState, SoundCandidates
<1>5. Cardinality(DOMAIN candidates') <= Bound
  <2>1. Table(papers) /\ DOMAIN candidates \subseteq Ids(papers)
    BY <1>2 DEF Stored, SoundCandidates
  <2>2. IsFiniteSet(DOMAIN candidates) /\ IsFiniteSet(DOMAIN candidates')
    BY <1>4, <2>1, SelectedFinite
  <2>3. Cardinality(DOMAIN candidates) \in Nat /\ Cardinality(DOMAIN candidates') \in Nat
    BY <2>2, FS_CardinalityType
  <2>4. Cardinality(DOMAIN candidates) <= Bound
    BY DEF LimitsInv, StoredInv
  <2>5. QED
    BY <1>4, <2>3, <2>4, BoundIsNat
<1>6. StoredInv'
  BY <1>1, <1>4, <1>5, StoredInLimits
<1>7. CoverInv'
  <2>1. SUFFICES ASSUME proc.at \in Crawling, NEW id \in DOMAIN candidates'
                 PROVE  SidsOf(RowOf(papers', id)) \cap DOMAIN proc.memory # {}
    BY <1>1 DEF CoverInv, Covered
  <2>2. PICK own \in DOMAIN candidates :
           SidsOf(RowOf(papers, own)) \subseteq SidsOf(RowOf(papers', id))
    BY <1>4 DEF ComeFrom
  <2>3. SidsOf(RowOf(papers, own)) \cap DOMAIN proc.memory # {}
    BY <2>1 DEF LimitsInv, CoverInv, Covered
  <2>4. QED
    BY <2>2, <2>3
<1>8. Loop(proc') /\ CallsInv' /\ RowInv'
  BY <1>1 DEF LimitsInv, CallsInv, Queries, Room, RowInv
<1>9. QED
  BY <1>6, <1>7, <1>8 DEF LimitsInv

LEMMA NextKeepsLimits == ASSUME SearchInv, LimitsInv, [Next]_vars PROVE LimitsInv'
<1>1. CASE UNCHANGED vars
  <2>1. UNCHANGED <<papers, session, actions, candidates, comparisons, proc>>
    BY <1>1 DEF vars
  <2>2. QED
    BY <2>1 DEF LimitsInv, CallsInv, Queries, Room, StoredInv, Comparisons, CoverInv, RowInv
<1>2. CASE Work
  <2>1. \/ Open \/ SearchCorpus \/ StoreLocal \/ AskSource \/ Plan \/ Query \/ Recommend
        \/ Enqueue \/ Pop \/ Expand \/ Answered \/ Select \/ Complete \/ Fail
        \/ Assign \/ AfterTheSearch
    BY <1>2 DEF Work, AfterTheSearch
  <2>2. QED
    BY <2>1, OpenInLimits, SearchCorpusInLimits, StoreLocalInLimits, AskSourceInLimits,
       PlanInLimits, QueryInLimits, RecommendInLimits, EnqueueInLimits, PopInLimits,
       ExpandInLimits, AnsweredInLimits, SelectInLimits, FinishesInLimits, AssignInLimits,
       AfterTheSearchInLimits
<1>3. CASE CallFails \/ Deadline \/ ModelFails \/ Crash
  BY <1>3, CallFailsInLimits, InterruptedInLimits, AfterTheSearchInLimits
<1>4. ASSUME NEW r \in Elsewhere, StoreElsewhere(r) PROVE LimitsInv'
  BY <1>4, StoreElsewhereInLimits
<1>5. QED
  BY <1>1, <1>2, <1>3, <1>4 DEF Next

\* The invariant behind the limits.  Each stored candidate stands for a paper that the
\* process has in memory, whatever is answered, merged or re-keyed meanwhile; where
\* the provider's records of a paper have something in common, each paper of memory
\* is one candidate at most, and the loop never sends more than there is room for.
THEOREM LimitsAreKept == Spec => [](SearchInv /\ LimitsInv)
<1>1. Init => SearchInv /\ LimitsInv
  BY InitIsSound, InitIsInLimits
<1>2. SearchInv /\ LimitsInv /\ [Next]_vars => (SearchInv /\ LimitsInv)'
  BY NextKeepsInv, NextKeepsLimits
<1>3. QED
  BY <1>1, <1>2, PTL DEF Spec

\* The state has its types: candidates are stored papers and no two of them are one,
\* found in steps that there are.  For any records, answers and options: steps,
\* queries, depths and stored candidates stay in the limits of the session; the loop
\* is never refused for a step, a query or a depth (start_search_action), for its
\* candidates (_persist_candidates) only if the records of a paper of the provider
\* have neither an arXiv id nor a DOI in common, and for its targets
\* (update_search_comparison_targets) only if more are asked for than may be selected.
THEOREM TypeCorrect == Spec => []TypeOK
<1>1. ASSUME SearchInv, LimitsInv PROVE TypeOK
  <2>1. /\ Table(papers) /\ SoundCandidates(papers, candidates, Done)
        /\ Loop(proc) /\ CallsInv /\ StoredInv /\ session \in Sessions \cup {None}
    BY <1>1 DEF SearchInv, CandidatesInv, LimitsInv, RowInv
  <2>2. \A p, q \in papers : p # q => p.id # q.id /\ p.sid # q.sid
    BY <2>1 DEF Table, Apart
  <2>3. DOMAIN candidates \subseteq Ids(papers)
    BY <2>1 DEF SoundCandidates
  <2>4. ASSUME NEW id \in DOMAIN candidates
        PROVE  candidates[id] \in Candidates /\ candidates[id].by \subseteq {0} \cup DOMAIN actions
    <3>1. /\ IsFound(candidates[id]) /\ candidates[id].by \subseteq {0} \cup Done
          /\ candidates[id].decision \in {"PENDING", "REJECTED", "SELECTED"}
      BY <2>1 DEF SoundCandidates
    <3>2. /\ candidates[id].depth \in 0 .. MaxDepth /\ candidates[id].by # {}
          /\ candidates[id].target \in BOOLEAN
      BY <2>1 DEF StoredInv, ProperCandidates
    <3>3. candidates[id].by \subseteq {0} \cup DOMAIN actions
      BY <3>1 DEF Done
    <3>4. DOMAIN actions \subseteq 1 .. MaxSteps
      BY <2>1 DEF CallsInv
    <3>5. candidates[id].by \in Discoveries \ {{}}
      BY <3>2, <3>3, <3>4, BoundsAreNat DEF Discoveries
    <3>6. QED
      BY <3>1, <3>2, <3>3, <3>5 DEF IsFound, Candidates
  <2>5. comparisons \subseteq Comparisons /\ proc.step \in 0 .. MaxSteps
    BY <2>1 DEF StoredInv, Loop
  <2>6. LoopStaysInLimits
    <3>1. ASSUME NEW s \in DOMAIN actions PROVE s <= MaxSteps /\ actions[s].depth <= MaxDepth
      <4>1. s \in 1 .. MaxSteps /\ actions[s].depth \in 0 .. MaxDepth
        BY <2>1 DEF CallsInv, IsAction
      <4>2. QED
        BY <4>1, BoundsAreNat, MoreBoundsAreNat
    <3>2. QED
      BY <2>1, <3>1 DEF LoopStaysInLimits, Loop, CallsInv, StoredInv
  <2>7. \A s \in DOMAIN actions : IsAction(actions[s])
    BY <2>1 DEF CallsInv
  <2>8. QED
    BY <2>1, <2>2, <2>3, <2>4, <2>5, <2>6, <2>7 DEF TypeOK
<1>2. QED
  BY <1>1, LimitsAreKept, PTL

----------------------------------------------------------------------------
(* What is cited *)

\* Where the selection is still to come.
Searching == Crawling \ {"finishing", "failing"}

\* The identifiers that may be expanded: the source's, and those in memory.
Sought(p) == SourceRecords \cup DOMAIN p.memory

\* References were asked of the source or of one of these.
AskedOf(sids) ==
    \A s \in DOMAIN actions :
        actions[s].tool = "GET_REFERENCES" => actions[s].target \in SourceRecords \cup sids

\* Until the selection, what is expanded is the source or in memory.
AskedInv ==
    proc.at \in Searching =>
        /\ proc.sources \subseteq SourceRecords
        /\ proc.queue \in Seq(Sought(proc) \X (0 .. MaxDepth))
        /\ proc.todo \in Seq(Relations \X Sought(proc) \X (0 .. MaxDepth))
        /\ AskedOf(DOMAIN proc.memory)

Finished == session # None /\ session.status = "COMPLETE"

Honest(c) == c.cites => c.real

\* A search that was not cut short has selected, and so found the papers it asked for
\* among the candidates; what it cites was asked of the source.
CitesInv ==
    /\ stores \in Nat
    /\ proc.at \notin Crawling \cup Resting => Finished
    /\ comparisons # {} => Finished
    /\ stores = 0 /\ proc.at = "finishing" /\ proc.stop # "timeout" => AskedOf(Sids)
    /\ stores = 0 /\ Finished /\ session.stop # "timeout" =>
          /\ AskedOf(Sids)
          /\ proc.at = "drafted" => Honest(proc.draft)
          /\ \A c \in comparisons : Honest(c)

CitedInv == AskedInv /\ CitesInv

LEMMA InitIsCited == Init => CitedInv
<1> SUFFICES ASSUME Init PROVE CitedInv
  OBVIOUS
<1>1. proc.at = "out" /\ stores = 0 /\ session = None /\ comparisons = {}
  BY DEF Init, Out
<1>2. QED
  BY <1>1 DEF CitedInv, AskedInv, CitesInv, Finished, Searching, Crawling, Resting

\* A search in progress has nothing compared.
LEMMA NothingComparedYet ==
    ASSUME SearchInv, CitedInv, proc.at \in Crawling
    PROVE  comparisons = {} /\ ~Finished
  BY DEF SearchInv, SessionInv, CitedInv, CitesInv, Finished

LEMMA SearchGoesOn ==
    ASSUME SearchInv, CitedInv, proc.at \in Crawling, UNCHANGED <<session, comparisons, stores>>,
           proc'.at \in Crawling \cup Resting, AskedInv',
           stores = 0 /\ proc'.at = "finishing" /\ proc'.stop # "timeout" => AskedOf(Sids)'
    PROVE  CitedInv'
<1>1. comparisons = {} /\ ~Finished /\ stores \in Nat
  BY NothingComparedYet DEF CitedInv, CitesInv
<1>2. comparisons' = {} /\ ~Finished' /\ stores' = stores
  BY <1>1 DEF Finished
<1>3. CitesInv'
  BY <1>1, <1>2 DEF CitesInv
<1>4. QED
  BY <1>3 DEF CitedInv

\* What is yet to be expanded is what it was, or nothing.
LEMMA AskedStays ==
    ASSUME AskedInv, UNCHANGED actions,
           proc'.at \in Searching =>
              /\ proc.at \in Searching
              /\ proc'.sources = proc.sources /\ proc'.queue = proc.queue
              /\ proc'.todo \in {proc.todo, <<>>} /\ proc'.memory = proc.memory
    PROVE  AskedInv'
<1> SUFFICES ASSUME proc'.at \in Searching
             PROVE  /\ proc'.sources \subseteq SourceRecords
                    /\ proc'.queue \in Seq(Sought(proc') \X (0 .. MaxDepth))
                    /\ proc'.todo \in Seq(Relations \X Sought(proc') \X (0 .. MaxDepth))
                    /\ AskedOf(DOMAIN proc.memory)'
  BY DEF AskedInv
<1>1. /\ proc'.sources = proc.sources /\ proc'.queue = proc.queue
      /\ proc'.todo \in {proc.todo, <<>>} /\ proc'.memory = proc.memory
      /\ proc.sources \subseteq SourceRecords
      /\ proc.queue \in Seq(Sought(proc) \X (0 .. MaxDepth))
      /\ proc.todo \in Seq(Relations \X Sought(proc) \X (0 .. MaxDepth))
      /\ AskedOf(DOMAIN proc.memory)
  BY DEF AskedInv
<1>2. Sought(proc') = Sought(proc)
  BY <1>1 DEF Sought
<1>3. <<>> \in Seq(Relations \X Sought(proc) \X (0 .. MaxDepth))
  BY EmptySeq
<1>4. AskedOf(DOMAIN proc.memory)'
  BY <1>1 DEF AskedOf
<1>5. QED
  BY <1>1, <1>2, <1>3, <1>4

\* A step of the process alone, on with the search.
LEMMA AloneIsCited ==
    ASSUME SearchInv, CitedInv, proc.at \in Searching,
           UNCHANGED <<session, actions, comparisons, stores>>,
           proc'.at \in Crawling \cup Resting, proc'.at = "finishing" => proc'.stop = "timeout",
           proc'.at \in Searching =>
              /\ proc'.sources = proc.sources /\ proc'.queue = proc.queue
              /\ proc'.todo \in {proc.todo, <<>>} /\ proc'.memory = proc.memory
    PROVE  CitedInv'
<1>1. AskedInv'
  BY AskedStays DEF CitedInv
<1>2. proc.at \in Crawling
  BY DEF Searching
<1>3. QED
  BY <1>1, <1>2, SearchGoesOn

LEMMA MovesKeeps ==
    ASSUME IsProc(proc), NEW at, Moves(at)
    PROVE  /\ proc'.at = at /\ proc'.stop = proc.stop
           /\ proc'.sources = proc.sources /\ proc'.queue = proc.queue
           /\ proc'.todo = proc.todo /\ proc'.memory = proc.memory
  BY DEF Moves, IsProc

LEMMA StopsKeeps ==
    ASSUME IsProc(proc), NEW stop, NEW at, Stops(stop, at)
    PROVE  /\ proc'.at = at /\ proc'.stop = stop
           /\ proc'.sources = proc.sources /\ proc'.queue = proc.queue
           /\ proc'.todo = <<>> /\ proc'.memory = proc.memory
  BY DEF Stops, IsProc

LEMMA MovesIsCited ==
    ASSUME SearchInv, CitedInv, proc.at \in Searching,
           UNCHANGED <<session, actions, comparisons, stores>>,
           NEW at \in Crawling \ {"finishing"}, Moves(at)
    PROVE  CitedInv'
<1>1. IsProc(proc)
  BY DEF SearchInv, ProcInv
<1>2. QED
  BY <1>1, MovesKeeps, AloneIsCited

LEMMA StopsIsCited ==
    ASSUME SearchInv, CitedInv, proc.at \in Searching,
           UNCHANGED <<session, actions, comparisons, stores>>,
           NEW stop, NEW at \in Crawling, at = "finishing" => stop = "timeout", Stops(stop, at)
    PROVE  CitedInv'
<1>1. IsProc(proc)
  BY DEF SearchInv, ProcInv
<1>2. QED
  BY <1>1, StopsKeeps, AloneIsCited

LEMMA EndsIsCited ==
    ASSUME SearchInv, CitedInv, proc.at \in Crawling,
           UNCHANGED <<session, comparisons, stores>>, NEW why \in Resting, Ends(why)
    PROVE  CitedInv'
<1>1. proc'.at = why
  BY EndsProc
<1>2. why \notin Crawling
  BY DEF Resting, Refusals, Crawling
<1>3. AskedInv'
  BY <1>1, <1>2 DEF AskedInv, Searching
<1>4. QED
  BY <1>1, <1>2, <1>3, SearchGoesOn DEF Crawling

\* A reference that is asked for is one that may be expanded.
LEMMA CallIsCited ==
    ASSUME SearchInv, CitedInv, proc.at \in Searching,
           UNCHANGED <<session, comparisons, stores>>,
           NEW tool, NEW target, NEW depth, Call(tool, target, depth),
           tool = "GET_REFERENCES" => target \in Sought(proc)
    PROVE  CitedInv'
<1> DEFINE n == proc.step + 1
           a == [tool |-> tool, target |-> target, depth |-> depth, status |-> "RUNNING"]
<1>1. /\ IsProc(proc) /\ proc.at \in Crawling
      /\ proc.sources \subseteq SourceRecords
      /\ proc.queue \in Seq(Sought(proc) \X (0 .. MaxDepth))
      /\ proc.todo \in Seq(Relations \X Sought(proc) \X (0 .. MaxDepth))
      /\ AskedOf(DOMAIN proc.memory)
  BY DEF SearchInv, ProcInv, CitedInv, AskedInv, Searching
<1>2. CASE Exceeds(tool, depth)
  <2>1. Ends("overrun") /\ UNCHANGED actions
    BY <1>2 DEF Call
  <2>2. QED
    BY <1>1, <2>1, EndsIsCited DEF Resting, Refusals
<1>3. CASE ~Exceeds(tool, depth)
  <2>1. /\ actions' = [s \in DOMAIN actions \cup {n} |-> IF s \in DOMAIN actions THEN actions[s] ELSE a]
        /\ proc' = [proc EXCEPT !.at = "calling", !.step = @ + 1,
                        !.asked = IF tool = "SEARCH_PAPERS" THEN @ + 1 ELSE @,
                        !.todo = IF @ = <<>> THEN @ ELSE Tail(@),
                        !.expanded = IF proc.todo = <<>> THEN @ ELSE @ \cup {<<tool, target>>}]
    BY <1>3 DEF Call
  <2>2. a.tool = tool /\ a.target = target
    OBVIOUS
  <2> HIDE DEF n, a
  <2>3. /\ proc'.at = "calling" /\ proc'.sources = proc.sources /\ proc'.queue = proc.queue
        /\ proc'.todo = (IF proc.todo = <<>> THEN proc.todo ELSE Tail(proc.todo))
        /\ proc'.memory = proc.memory
    BY <1>1, <2>1 DEF IsProc
  <2>4. Sought(proc') = Sought(proc)
    BY <2>3 DEF Sought
  <2>5. proc'.todo \in Seq(Relations \X Sought(proc) \X (0 .. MaxDepth))
    BY <1>1, <2>3, HeadTailProperties
  <2>6. /\ DOMAIN actions' = DOMAIN actions \cup {n}
        /\ \A s \in DOMAIN actions : actions'[s] = actions[s]
        /\ n \notin DOMAIN actions => actions'[n] = a
    BY <2>1
  <2>7. AskedOf(DOMAIN proc.memory)'
    <3>1. SUFFICES ASSUME NEW s \in DOMAIN actions', actions'[s].tool = "GET_REFERENCES"
                   PROVE  actions'[s].target \in SourceRecords \cup DOMAIN proc.memory
      BY <2>3 DEF AskedOf
    <3>2. CASE s \in DOMAIN actions
      BY <1>1, <2>6, <3>1, <3>2 DEF AskedOf
    <3>3. CASE s \notin DOMAIN actions
      BY <2>2, <2>6, <3>1, <3>3 DEF Sought
    <3>4. QED
      BY <3>2, <3>3
  <2>8. AskedInv'
    BY <1>1, <2>3, <2>4, <2>5, <2>7 DEF AskedInv
  <2>9. QED
    BY <1>1, <2>3, <2>8, SearchGoesOn DEF Crawling
<1>4. QED
  BY <1>2, <1>3

----------------------------------------------------------------------------
(* Steps and what they cite *)

LEMMA OpenIsCited == ASSUME SearchInv, CitedInv, Open PROVE CitedInv'
<1>1. IsProc(proc) /\ proc.at \in Resting /\ UNCHANGED <<papers, comparisons, stores>>
  BY DEF SearchInv, ProcInv, Open
<1>2. CASE Finished
  <2>1. Moves("reading") /\ UNCHANGED <<session, actions, candidates>>
    BY <1>2 DEF Open, Finished
  <2>2. proc'.at = "reading"
    BY <1>1, <2>1, MovesKeeps
  <2>3. AskedInv'
    BY <2>2 DEF AskedInv, Searching, Crawling
  <2>4. AskedOf(Sids)' <=> AskedOf(Sids)
    BY <1>1, <2>1 DEF AskedOf, Sids
  <2>5. CitesInv'
    BY <1>1, <1>2, <2>1, <2>2, <2>4 DEF CitedInv, CitesInv, Finished
  <2>6. QED
    BY <2>3, <2>5 DEF CitedInv
<1>3. CASE ~Finished
  <2>1. /\ session' = [status |-> "RUNNING", stop |-> None, plan |-> None]
        /\ actions' = <<>> /\ proc' = [Out EXCEPT !.at = "local"]
    BY <1>3 DEF Open, Finished
  <2>2. IsFresh(proc') /\ proc'.at = "local"
    BY <2>1 DEF Out, IsFresh
  <2>3. ~Finished' /\ comparisons' = {}
    BY <1>1, <1>3, <2>1 DEF Finished, CitedInv, CitesInv
  <2>4. DOMAIN actions' = {}
    BY <2>1
  <2>5. AskedInv'
    BY <2>2, <2>4, EmptySeq DEF AskedInv, AskedOf, IsFresh
  <2>6. CitesInv'
    BY <1>1, <2>2, <2>3 DEF CitedInv, CitesInv, Crawling
  <2>7. QED
    BY <2>5, <2>6 DEF CitedInv
<1>4. QED
  BY <1>2, <1>3

LEMMA SearchCorpusIsCited == ASSUME SearchInv, CitedInv, SearchCorpus PROVE CitedInv'
<1>1. PICK best \in SUBSET Local :
         proc' = [proc EXCEPT !.at = "storing", !.seen = {Stub(p) : p \in best}]
  BY DEF SearchCorpus
<1>2. /\ proc.at = "local" /\ UNCHANGED <<session, actions, comparisons, stores>> /\ IsProc(proc)
  BY DEF SearchCorpus, work, SearchInv, ProcInv
<1>3. /\ proc'.at = "storing" /\ proc'.sources = proc.sources /\ proc'.queue = proc.queue
      /\ proc'.todo = proc.todo /\ proc'.memory = proc.memory
  BY <1>1, <1>2 DEF IsProc
<1>4. QED
  BY <1>2, <1>3, AloneIsCited DEF Searching, Crawling

\* A refused page leaves what was asked as it was.
LEMMA RefusedIsCited ==
    ASSUME SearchInv, CitedInv, proc.at \in Searching,
           UNCHANGED <<session, actions, comparisons, stores>>, NEW outcome,
           outcome.refusal \in PageRefusals \cup {None}, Refuse(outcome)
    PROVE  CitedInv'
<1>1. CASE outcome.refusal = "failing"
  <2>1. Moves("failing")
    BY <1>1 DEF Refuse
  <2>2. QED
    BY <2>1, MovesIsCited DEF Crawling
<1>2. CASE outcome.refusal # "failing"
  <2>1. Ends(outcome.refusal) /\ outcome.refusal \in Resting
    BY <1>2 DEF Refuse, Resting, Refusals, PageRefusals
  <2>2. QED
    BY <2>1, EndsIsCited DEF Searching
<1>3. QED
  BY <1>1, <1>2

\* More in memory is more that may be expanded.
LEMMA MoreIsSought ==
    ASSUME NEW memory, NEW more, DOMAIN memory \subseteq DOMAIN more, NEW S,
           S = SourceRecords \cup DOMAIN memory, NEW T, T = SourceRecords \cup DOMAIN more
    PROVE  /\ Seq(S \X (0 .. MaxDepth)) \subseteq Seq(T \X (0 .. MaxDepth))
           /\ Seq(Relations \X S \X (0 .. MaxDepth)) \subseteq Seq(Relations \X T \X (0 .. MaxDepth))
           /\ AskedOf(DOMAIN memory) => AskedOf(DOMAIN more)
<1>1. S \subseteq T
  OBVIOUS
<1>2. S \X (0 .. MaxDepth) \subseteq T \X (0 .. MaxDepth)
  BY <1>1
<1>3. Relations \X S \X (0 .. MaxDepth) \subseteq Relations \X T \X (0 .. MaxDepth)
  BY <1>1
<1>4. ASSUME NEW A, NEW B, A \subseteq B PROVE Seq(A) \subseteq Seq(B)
  BY <1>4, SeqDef
<1>5. AskedOf(DOMAIN memory) => AskedOf(DOMAIN more)
  BY DEF AskedOf
<1>6. QED
  BY <1>2, <1>3, <1>4, <1>5

LEMMA SoughtGrows ==
    ASSUME NEW p, NEW q, DOMAIN p.memory \subseteq DOMAIN q.memory,
           p.queue \in Seq(Sought(p) \X (0 .. MaxDepth)),
           p.todo \in Seq(Relations \X Sought(p) \X (0 .. MaxDepth)),
           AskedOf(DOMAIN p.memory)
    PROVE  /\ p.queue \in Seq(Sought(q) \X (0 .. MaxDepth))
           /\ p.todo \in Seq(Relations \X Sought(q) \X (0 .. MaxDepth))
           /\ AskedOf(DOMAIN q.memory)
<1> DEFINE old == p.memory
           new == q.memory
<1>1. Sought(p) = SourceRecords \cup DOMAIN old /\ Sought(q) = SourceRecords \cup DOMAIN new
  BY DEF Sought
<1>2. DOMAIN old \subseteq DOMAIN new
  OBVIOUS
<1>3. AskedOf(DOMAIN old)
  OBVIOUS
<1> HIDE DEF old, new
<1>4. /\ Seq(Sought(p) \X (0 .. MaxDepth)) \subseteq Seq(Sought(q) \X (0 .. MaxDepth))
      /\ Seq(Relations \X Sought(p) \X (0 .. MaxDepth))
            \subseteq Seq(Relations \X Sought(q) \X (0 .. MaxDepth))
      /\ AskedOf(DOMAIN old) => AskedOf(DOMAIN new)
  BY <1>1, <1>2, MoreIsSought
<1>5. QED
  BY <1>3, <1>4 DEF new

LEMMA MemoryGrows ==
    ASSUME NEW page, NEW depth, NEW step
    PROVE  DOMAIN proc.memory \subseteq DOMAIN Outcome(page, depth, step).memory
<1>1. Outcome(page, depth, step).memory = Remembered(page, depth)
  BY DEF Outcome
<1>2. QED
  BY <1>1 DEF Remembered

LEMMA StoreLocalIsCited == ASSUME SearchInv, CitedInv, StoreLocal PROVE CitedInv'
<1>1. PICK outcome : /\ outcome = Outcome(proc.seen, 0, 0)
                     /\ \/ proc' = [proc EXCEPT !.at = "source", !.seen = {},
                                                !.memory = outcome.memory]
                        \/ Refuse(outcome)
  BY DEF StoreLocal
<1>2. /\ proc.at = "storing" /\ UNCHANGED <<session, actions, comparisons, stores>> /\ IsProc(proc)
  BY DEF StoreLocal, work, SearchInv, ProcInv
<1>3. CASE Refuse(outcome)
  BY <1>1, <1>2, <1>3, OutcomeRefusals, RefusedIsCited DEF Searching, Crawling
<1>4. CASE proc' = [proc EXCEPT !.at = "source", !.seen = {}, !.memory = outcome.memory]
  <2>1. /\ proc'.at = "source" /\ proc'.sources = proc.sources /\ proc'.queue = proc.queue
        /\ proc'.todo = proc.todo /\ proc'.memory = outcome.memory
    BY <1>2, <1>4 DEF IsProc
  <2>2. DOMAIN proc.memory \subseteq DOMAIN outcome.memory
    BY <1>1, MemoryGrows
  <2>3. /\ proc.sources \subseteq SourceRecords
        /\ proc.queue \in Seq(Sought(proc) \X (0 .. MaxDepth))
        /\ proc.todo \in Seq(Relations \X Sought(proc) \X (0 .. MaxDepth))
        /\ AskedOf(DOMAIN proc.memory)
    BY <1>2 DEF CitedInv, AskedInv, Searching, Crawling
  <2>4. /\ proc.queue \in Seq(Sought(proc') \X (0 .. MaxDepth))
        /\ proc.todo \in Seq(Relations \X Sought(proc') \X (0 .. MaxDepth))
        /\ AskedOf(DOMAIN proc'.memory)
    BY <2>1, <2>2, <2>3, SoughtGrows
  <2>5. AskedOf(DOMAIN proc.memory)'
    BY <1>2, <2>4 DEF AskedOf
  <2>6. AskedInv'
    BY <2>1, <2>3, <2>4, <2>5 DEF AskedInv
  <2>7. QED
    BY <1>2, <2>1, <2>6, SearchGoesOn DEF Crawling
<1>5. QED
  BY <1>1, <1>3, <1>4

LEMMA AskSourceIsCited == ASSUME SearchInv, CitedInv, AskSource PROVE CitedInv'
<1>1. /\ proc.at \in Searching /\ UNCHANGED <<session, comparisons, stores>>
      /\ \/ Stops("limit", "selecting") /\ UNCHANGED actions
         \/ Call("GET_PAPER", Source, 0)
  BY DEF AskSource, Searching, Crawling
<1>2. CASE Stops("limit", "selecting") /\ UNCHANGED actions
  BY <1>1, <1>2, StopsIsCited DEF Crawling
<1>3. CASE Call("GET_PAPER", Source, 0)
  BY <1>1, <1>3, CallIsCited
<1>4. QED
  BY <1>1, <1>2, <1>3

LEMMA PlanIsCited == ASSUME SearchInv, CitedInv, Plan PROVE CitedInv'
<1>1. /\ proc.at = "planning" /\ UNCHANGED <<actions, comparisons, stores>>
      /\ IsProc(proc) /\ IsRow(session) /\ session.status = "RUNNING"
  BY DEF Plan, SearchInv, ProcInv, SessionInv, Crawling
<1>2. CASE Stops("limit", "selecting") /\ UNCHANGED session
  BY <1>1, <1>2, StopsIsCited DEF Searching, Crawling
<1>3. ASSUME NEW plan \in Plans, session' = [session EXCEPT !.plan = plan],
             proc' = [proc EXCEPT !.at = "querying", !.plan = plan]
      PROVE  CitedInv'
  <2>1. /\ proc'.at = "querying" /\ proc'.sources = proc.sources /\ proc'.queue = proc.queue
        /\ proc'.todo = proc.todo /\ proc'.memory = proc.memory
    BY <1>1, <1>3 DEF IsProc
  <2>2. session'.status = "RUNNING"
    BY <1>1, <1>3 DEF IsRow
  <2>3. AskedInv'
    BY <1>1, <2>1, AskedStays DEF CitedInv, Searching, Crawling
  <2>4. comparisons' = {} /\ ~Finished' /\ stores' \in Nat
    BY <1>1, <2>2, NothingComparedYet DEF CitedInv, CitesInv, Finished, Crawling
  <2>5. CitesInv'
    BY <2>1, <2>4 DEF CitesInv, Crawling
  <2>6. QED
    BY <2>3, <2>5 DEF CitedInv
<1>4. QED
  BY <1>2, <1>3 DEF Plan

LEMMA QueryIsCited == ASSUME SearchInv, CitedInv, Query PROVE CitedInv'
<1>1. /\ proc.at \in Searching /\ UNCHANGED <<session, comparisons, stores>>
      /\ \/ Call("SEARCH_PAPERS", proc.asked + 1, 0)
         \/ Stops("limit", "selecting") /\ UNCHANGED actions
         \/ Moves("recommending") /\ UNCHANGED actions
  BY DEF Query, Searching, Crawling
<1>2. CASE Call("SEARCH_PAPERS", proc.asked + 1, 0)
  BY <1>1, <1>2, CallIsCited
<1>3. CASE Stops("limit", "selecting") /\ UNCHANGED actions
  BY <1>1, <1>3, StopsIsCited DEF Crawling
<1>4. CASE Moves("recommending") /\ UNCHANGED actions
  BY <1>1, <1>4, MovesIsCited DEF Crawling
<1>5. QED
  BY <1>1, <1>2, <1>3, <1>4

LEMMA RecommendIsCited == ASSUME SearchInv, CitedInv, Recommend PROVE CitedInv'
<1>1. /\ proc.at \in Searching /\ UNCHANGED <<session, comparisons, stores>>
      /\ \/ Call("GET_RECOMMENDATIONS", None, 0)
         \/ Moves("queueing") /\ UNCHANGED actions
  BY DEF Recommend, Searching, Crawling
<1>2. CASE Call("GET_RECOMMENDATIONS", None, 0)
  BY <1>1, <1>2, CallIsCited
<1>3. CASE Moves("queueing") /\ UNCHANGED actions
  BY <1>1, <1>3, MovesIsCited DEF Crawling
<1>4. QED
  BY <1>1, <1>2, <1>3

\* The queue begins with the source and what is in memory.
LEMMA EnqueueIsCited == ASSUME SearchInv, LimitsInv, CitedInv, Enqueue PROVE CitedInv'
<1> DEFINE Wanted == Sought(proc) \X (0 .. MaxDepth)
           known == Sorted(proc.sources)
           rest == Sorted(DOMAIN proc.memory \ proc.sources)
           first == [i \in DOMAIN known |-> <<known[i], 0>>]
           second == [i \in DOMAIN rest |-> <<rest[i], proc.memory[rest[i]].depth>>]
           roots == first \o second
           most == Min({MaxQueue, Len(roots)})
<1>1. /\ proc.at = "queueing" /\ UNCHANGED <<session, actions, comparisons, stores>>
      /\ IsProc(proc) /\ Loop(proc) /\ IsMemory(proc.memory)
      /\ proc.sources \subseteq SourceRecords
      /\ proc.todo \in Seq(Relations \X Sought(proc) \X (0 .. MaxDepth))
      /\ AskedOf(DOMAIN proc.memory)
  BY DEF Enqueue, SearchInv, ProcInv, LimitsInv, Loop, work, CitedInv, AskedInv, Searching, Crawling
<1>2. proc' = [proc EXCEPT !.at = "expanding", !.queue = SubSeq(roots, 1, most)]
  BY DEF Enqueue
<1>3. first \in Seq(Wanted)
  <2>1. proc.sources \subseteq Nat /\ IsFiniteSet(proc.sources)
    <3>1. proc.sources \in SUBSET RecordIds
      BY <1>1 DEF Loop
    <3>2. QED
      BY <3>1, RecordIdsAreNat, FS_Subset
  <2>2. /\ known \in Seq(proc.sources) /\ DOMAIN known = 1 .. Cardinality(proc.sources)
        /\ Cardinality(proc.sources) \in Nat
    BY <2>1, SortedIsSeq
  <2> HIDE DEF known
  <2>3. \A i \in DOMAIN known : known[i] \in Sought(proc)
    BY <1>1, <2>2 DEF Sought
  <2>4. first \in [1 .. Cardinality(proc.sources) -> Wanted]
    BY <2>2, <2>3, MoreBoundsAreNat
  <2> HIDE DEF first, Wanted
  <2>5. QED
    BY <2>2, <2>4, FunctionIsSeq
<1>4. second \in Seq(Wanted)
  <2> DEFINE own == DOMAIN proc.memory \ proc.sources
  <2>1. own \subseteq Nat /\ IsFiniteSet(own) /\ own \subseteq DOMAIN proc.memory
    <3>1. own \in SUBSET DOMAIN proc.memory
      OBVIOUS
    <3>2. QED
      BY <1>1, <3>1, FS_Subset DEF IsMemory
  <2> HIDE DEF own
  <2>2. rest \in Seq(own) /\ DOMAIN rest = 1 .. Cardinality(own) /\ Cardinality(own) \in Nat
    BY <2>1, SortedIsSeq DEF own
  <2> HIDE DEF rest
  <2>3. \A i \in DOMAIN rest :
           rest[i] \in Sought(proc) /\ proc.memory[rest[i]].depth \in 0 .. MaxDepth
    BY <1>1, <2>1, <2>2 DEF IsMemory, Sought
  <2>4. second \in [1 .. Cardinality(own) -> Wanted]
    BY <2>2, <2>3
  <2> HIDE DEF second, Wanted
  <2>5. QED
    BY <2>2, <2>4, FunctionIsSeq
<1> HIDE DEF first, second, Wanted
<1>5. roots \in Seq(Wanted)
  BY <1>3, <1>4, ConcatProperties
<1> HIDE DEF roots
<1>6. Len(roots) \in Nat /\ most \in Nat /\ most <= Len(roots)
  <2>1. Len(roots) \in Nat
    BY <1>5, LenProperties
  <2>2. {MaxQueue, Len(roots)} \in SUBSET Nat
    BY <2>1, MoreBoundsAreNat
  <2>3. most \in {MaxQueue, Len(roots)} /\ \A m \in {MaxQueue, Len(roots)} : most <= m
    BY <2>2, LeastExists
  <2>4. QED
    BY <2>1, <2>3, MoreBoundsAreNat
<1> HIDE DEF most
<1>7. SubSeq(roots, 1, most) \in Seq(Wanted)
  <2>1. \A i \in 1 .. most : roots[i] \in Wanted
    BY <1>5, <1>6, ElementOfSeq
  <2>2. QED
    BY <1>6, <2>1, SubSeqProperties
<1>8. /\ proc'.at = "expanding" /\ proc'.sources = proc.sources
      /\ proc'.queue = SubSeq(roots, 1, most)
      /\ proc'.todo = proc.todo /\ proc'.memory = proc.memory
  BY <1>1, <1>2 DEF IsProc
<1>9. Sought(proc') = Sought(proc) /\ AskedOf(DOMAIN proc.memory)'
  BY <1>1, <1>8 DEF Sought, AskedOf
<1>10. AskedInv'
  BY <1>1, <1>7, <1>8, <1>9 DEF AskedInv, Wanted
<1>11. QED
  BY <1>1, <1>8, <1>10, SearchGoesOn DEF Crawling

LEMMA PopIsCited == ASSUME SearchInv, LimitsInv, CitedInv, Pop PROVE CitedInv'
<1> DEFINE Wanted == Sought(proc) \X (0 .. MaxDepth)
           Tasks == Relations \X Sought(proc) \X (0 .. MaxDepth)
           root == Head(proc.queue)
           tools == IF Expands(root[2]) THEN proc.plan.tools ELSE <<>>
           todo == [i \in DOMAIN tools |-> <<tools[i], root[1], root[2] + 1>>]
<1>1. /\ proc.at = "expanding" /\ UNCHANGED <<session, actions, comparisons, stores>>
      /\ IsProc(proc) /\ Loop(proc) /\ proc.sources \subseteq SourceRecords
      /\ proc.queue \in Seq(Wanted) /\ AskedOf(DOMAIN proc.memory)
  BY DEF Pop, SearchInv, ProcInv, LimitsInv, work, CitedInv, AskedInv, Searching, Crawling
<1>2. \/ Moves("selecting")
      \/ Stops("limit", "selecting")
      \/ proc.queue # <<>> /\ proc' = [proc EXCEPT !.queue = Tail(@), !.todo = todo]
  BY DEF Pop
<1>3. CASE Moves("selecting")
  BY <1>1, <1>3, MovesIsCited DEF Searching, Crawling
<1>4. CASE Stops("limit", "selecting")
  BY <1>1, <1>4, StopsIsCited DEF Searching, Crawling
<1>5. CASE proc.queue # <<>> /\ proc' = [proc EXCEPT !.queue = Tail(@), !.todo = todo]
  <2> HIDE DEF Wanted
  <2>1. root \in Wanted /\ Tail(proc.queue) \in Seq(Wanted)
    BY <1>1, <1>5, HeadTailProperties
  <2>2. root[1] \in Sought(proc) /\ root[2] \in 0 .. MaxDepth
    BY <2>1 DEF Wanted
  <2> HIDE DEF root
  <2>3. todo \in Seq(Tasks)
    <3>1. CASE Expands(root[2])
      <4> DEFINE plan == proc.plan.tools
      <4>1. /\ plan \in Seq(Relations) /\ Len(plan) \in Nat /\ DOMAIN plan = 1 .. Len(plan)
            /\ \A i \in 1 .. Len(plan) : plan[i] \in Relations
        BY <1>1, LenProperties, ElementOfSeq DEF Loop
      <4>2. root[2] + 1 \in 0 .. MaxDepth
        BY <2>2, <3>1, MoreBoundsAreNat DEF Expands
      <4>3. tools = plan
        BY <3>1
      <4> HIDE DEF tools, plan
      <4>4. todo \in [1 .. Len(plan) -> Tasks]
        BY <2>2, <4>1, <4>2, <4>3
      <4> HIDE DEF todo, Tasks
      <4>5. QED
        BY <4>1, <4>4, FunctionIsSeq
    <3>2. CASE ~Expands(root[2])
      <4>1. tools = <<>> /\ DOMAIN tools = 1 .. 0
        BY <3>2
      <4> HIDE DEF tools, Tasks
      <4>2. todo \in [1 .. 0 -> Tasks]
        BY <4>1
      <4> HIDE DEF todo
      <4>3. QED
        BY <4>2, FunctionIsSeq
    <3>3. QED
      BY <3>1, <3>2
  <2> HIDE DEF todo
  <2>4. /\ proc'.at = "expanding" /\ proc'.sources = proc.sources
        /\ proc'.queue = Tail(proc.queue) /\ proc'.todo = todo /\ proc'.memory = proc.memory
    BY <1>1, <1>5 DEF IsProc
  <2>5. Sought(proc') = Sought(proc) /\ AskedOf(DOMAIN proc.memory)'
    BY <1>1, <2>4 DEF Sought, AskedOf
  <2>6. AskedInv'
    BY <1>1, <2>1, <2>3, <2>4, <2>5 DEF AskedInv, Wanted
  <2>7. QED
    BY <1>1, <2>4, <2>6, SearchGoesOn DEF Crawling
<1>6. QED
  BY <1>2, <1>3, <1>4, <1>5

LEMMA ExpandIsCited == ASSUME SearchInv, CitedInv, Expand PROVE CitedInv'
<1> DEFINE Tasks == Relations \X Sought(proc) \X (0 .. MaxDepth)
           next == Head(proc.todo)
<1>1. /\ proc.at = "expanding" /\ UNCHANGED <<session, comparisons, stores>>
      /\ IsProc(proc) /\ proc.todo # <<>> /\ proc.sources \subseteq SourceRecords
      /\ proc.queue \in Seq(Sought(proc) \X (0 .. MaxDepth)) /\ proc.todo \in Seq(Tasks)
      /\ AskedOf(DOMAIN proc.memory)
  BY DEF Expand, SearchInv, ProcInv, CitedInv, AskedInv, Searching, Crawling
<1>2. \/ proc' = [proc EXCEPT !.todo = <<>>] /\ UNCHANGED actions
      \/ proc' = [proc EXCEPT !.todo = Tail(@)] /\ UNCHANGED actions
      \/ /\ \E pairs : proc' = [proc EXCEPT !.todo = Tail(@), !.step = @ + 1, !.expanded = pairs]
         /\ UNCHANGED actions
      \/ Call(next[1], next[2], next[3])
  BY DEF Expand
<1>3. next \in Tasks /\ Tail(proc.todo) \in Seq(Tasks) /\ <<>> \in Seq(Tasks)
  BY <1>1, HeadTailProperties, EmptySeq
<1> HIDE DEF next
<1>4. CASE Call(next[1], next[2], next[3])
  BY <1>1, <1>3, <1>4, CallIsCited DEF Searching, Crawling
<1>5. CASE /\ UNCHANGED actions
           /\ \/ proc' = [proc EXCEPT !.todo = <<>>]
              \/ proc' = [proc EXCEPT !.todo = Tail(@)]
              \/ \E pairs : proc' = [proc EXCEPT !.todo = Tail(@), !.step = @ + 1,
                                                 !.expanded = pairs]
  <2>1. /\ proc'.at = "expanding" /\ proc'.sources = proc.sources /\ proc'.queue = proc.queue
        /\ proc'.todo \in {<<>>, Tail(proc.todo)} /\ proc'.memory = proc.memory
    BY <1>1, <1>5 DEF IsProc
  <2>2. Sought(proc') = Sought(proc) /\ AskedOf(DOMAIN proc.memory)'
    BY <1>1, <1>5, <2>1 DEF Sought, AskedOf
  <2>3. AskedInv'
    BY <1>1, <1>3, <2>1, <2>2 DEF AskedInv
  <2>4. QED
    BY <1>1, <2>1, <2>3, SearchGoesOn DEF Crawling
<1>6. QED
  BY <1>2, <1>4, <1>5

\* The calls are what they were, but for their status.
LEMMA SameCalls ==
    ASSUME SearchInv, proc.at = "calling", NEW status, NEW sids,
           actions' = [actions EXCEPT ![proc.step].status = status], AskedOf(sids)
    PROVE  /\ DOMAIN actions' = DOMAIN actions
           /\ \A s \in DOMAIN actions : /\ actions'[s].tool = actions[s].tool
                                        /\ actions'[s].target = actions[s].target
<1>1. /\ \A s \in DOMAIN actions : IsCall(actions[s])
      /\ proc.step \in DOMAIN actions
  BY DEF SearchInv, ActionsInv
<1>2. /\ DOMAIN actions' = DOMAIN actions
      /\ \A s \in DOMAIN actions : actions'[s] = IF s = proc.step
            THEN [actions[s] EXCEPT !.status = status] ELSE actions[s]
  BY <1>1 DEF SearchInv, ActionsInv
<1>3. QED
  BY <1>1, <1>2 DEF IsCall

LEMMA AnsweredIsCited == ASSUME SearchInv, LimitsInv, CitedInv, Answered PROVE CitedInv'
<1> DEFINE call == actions[proc.step]
<1>1. proc.at = "calling" /\ UNCHANGED <<session, comparisons, stores>>
  BY DEF Answered
<1>2. PICK reply \in Answers(call) :
        \/ Answer(call, reply, Outcome(Page(call.tool, reply), call.depth, proc.step))
        \/ RefuseAnswer(Outcome(Page(call.tool, reply), call.depth, proc.step))
  BY DEF Answered
<1>3. /\ IsProc(proc) /\ Loop(proc) /\ IsAction(call) /\ proc.sources \subseteq SourceRecords
      /\ proc.queue \in Seq(Sought(proc) \X (0 .. MaxDepth))
      /\ proc.todo \in Seq(Relations \X Sought(proc) \X (0 .. MaxDepth))
      /\ AskedOf(DOMAIN proc.memory)
  BY <1>1 DEF SearchInv, ProcInv, ActionsInv, LimitsInv, CallsInv, CitedInv, AskedInv,
              Searching, Crawling
<1> DEFINE outcome == Outcome(Page(call.tool, reply), call.depth, proc.step)
<1>4. DOMAIN proc.memory \subseteq DOMAIN outcome.memory
  BY MemoryGrows
<1>5. outcome.refusal \in PageRefusals \cup {None}
  BY OutcomeRefusals
<1>6. SourceIds(call.tool, reply) \subseteq SourceRecords
  <2>1. reply \in SUBSET Records /\ (call.tool = "GET_PAPER" => \A r \in reply : r.arxiv = Source)
    BY DEF Answers, Resolved
  <2>2. QED
    BY <2>1 DEF SourceIds, SourceRecords, Cut
<1>7. IsMemory(proc'.memory)
  BY AnsweredInLimits DEF LimitsInv, Loop
<1>8. Answer(call, reply, outcome) \/ RefuseAnswer(outcome)
  BY <1>2
<1> HIDE DEF outcome, call
<1>9. CASE RefuseAnswer(outcome)
  BY <1>1, <1>5, <1>9, RefusedIsCited DEF RefuseAnswer, Searching, Crawling
<1>10. CASE Answer(call, reply, outcome)
  <2>1. actions' = [actions EXCEPT ![proc.step].status = "COMPLETED"]
    BY <1>10 DEF Answer
  <2>2. proc' = [proc EXCEPT !.at = Then(call.tool), !.memory = outcome.memory,
                    !.sources = @ \cup SourceIds(call.tool, reply),
                    !.queue = @ \o Enqueued(call, outcome.memory)]
    BY <1>10 DEF Answer
  <2>3. Then(call.tool) \in {"planning", "querying", "queueing", "expanding"}
    BY DEF Then
  <2>4. /\ proc'.at = Then(call.tool)
        /\ proc'.sources = proc.sources \cup SourceIds(call.tool, reply)
        /\ proc'.queue = proc.queue \o Enqueued(call, outcome.memory)
        /\ proc'.todo = proc.todo /\ proc'.memory = outcome.memory
    BY <1>3, <2>2 DEF IsProc
  <2>5. /\ proc.queue \in Seq(Sought(proc') \X (0 .. MaxDepth))
        /\ proc.todo \in Seq(Relations \X Sought(proc') \X (0 .. MaxDepth))
        /\ AskedOf(DOMAIN proc'.memory)
    BY <1>3, <1>4, <2>4, SoughtGrows
  <2> DEFINE Wanted == Sought(proc') \X (0 .. MaxDepth)
  <2>6. Enqueued(call, outcome.memory) \in Seq(Wanted)
    <3> DEFINE own == DOMAIN outcome.memory \ DOMAIN proc.memory
               new == Sorted(own)
               added == [i \in DOMAIN new |-> <<new[i], call.depth>>]
    <3>1. Enqueued(call, outcome.memory) = <<>> \/ Enqueued(call, outcome.memory) = added
      BY DEF Enqueued
    <3>2. own \subseteq Nat /\ IsFiniteSet(own) /\ own \subseteq Sought(proc')
      <4>1. own \in SUBSET DOMAIN outcome.memory
        OBVIOUS
      <4>2. QED
        BY <1>7, <2>4, <4>1, FS_Subset DEF IsMemory, Sought
    <3> HIDE DEF own
    <3>3. new \in Seq(own) /\ DOMAIN new = 1 .. Cardinality(own) /\ Cardinality(own) \in Nat
      BY <3>2, SortedIsSeq
    <3> HIDE DEF new
    <3>4. \A i \in DOMAIN new : new[i] \in Sought(proc')
      BY <3>2, <3>3, LenProperties, ElementOfSeq
    <3>5. call.depth \in 0 .. MaxDepth
      BY <1>3 DEF IsAction
    <3>6. added \in [1 .. Cardinality(own) -> Wanted]
      BY <3>3, <3>4, <3>5
    <3> HIDE DEF added, Wanted
    <3>7. added \in Seq(Wanted)
      BY <3>3, <3>6, FunctionIsSeq
    <3>8. <<>> \in Seq(Wanted)
      BY EmptySeq
    <3>9. QED
      BY <3>1, <3>7, <3>8
  <2> HIDE DEF Wanted
  <2>7. proc'.queue \in Seq(Wanted)
    BY <2>4, <2>5, <2>6, ConcatProperties DEF Wanted
  <2>8. proc'.sources \subseteq SourceRecords
    BY <1>3, <1>6, <2>4
  <2>9. AskedOf(DOMAIN proc.memory)'
    BY <1>1, <1>3, <2>1, <2>5, SameCalls DEF AskedOf
  <2>10. AskedInv'
    BY <2>4, <2>5, <2>7, <2>8, <2>9 DEF AskedInv, Wanted
  <2>11. QED
    BY <1>1, <2>3, <2>4, <2>10, SearchGoesOn DEF Crawling
<1>11. QED
  BY <1>8, <1>9, <1>10

LEMMA CallFailsIsCited == ASSUME SearchInv, CitedInv, CallFails PROVE CitedInv'
<1>1. /\ proc.at = "calling" /\ UNCHANGED <<session, comparisons, stores>> /\ IsProc(proc)
      /\ \/ proc' = [proc EXCEPT !.at = "failing"]
         \/ proc' = [proc EXCEPT !.at = "finishing", !.stop = "timeout"]
  BY DEF CallFails, Moves, SearchInv, ProcInv
<1>2. proc'.at = "failing" \/ (proc'.at = "finishing" /\ proc'.stop = "timeout")
  BY <1>1 DEF IsProc
<1>3. AskedInv'
  BY <1>2 DEF AskedInv, Searching
<1>4. QED
  BY <1>1, <1>2, <1>3, SearchGoesOn DEF Crawling

LEMMA InterruptedIsCited == ASSUME SearchInv, CitedInv, Deadline \/ ModelFails PROVE CitedInv'
<1>1. /\ proc.at \in Searching /\ UNCHANGED <<session, actions, comparisons, stores>>
      /\ Stops("timeout", "finishing") \/ Moves("failing")
  BY DEF Deadline, ModelFails, Searching, Crawling, work
<1>2. CASE Stops("timeout", "finishing")
  BY <1>1, <1>2, StopsIsCited DEF Crawling
<1>3. CASE Moves("failing")
  BY <1>1, <1>3, MovesIsCited DEF Crawling
<1>4. QED
  BY <1>1, <1>2, <1>3

\* A selection finds every paper in memory among the candidates.
LEMMA SelectIsCited == ASSUME SearchInv, CitedInv, Select PROVE CitedInv'
<1>1. /\ proc.at = "selecting" /\ UNCHANGED <<papers, session, actions, comparisons, stores>>
      /\ IsProc(proc) /\ AskedOf(DOMAIN proc.memory)
  BY DEF Select, work, SearchInv, ProcInv, CitedInv, AskedInv, Searching, Crawling
<1>2. CASE Ends("aliased")
  BY <1>1, <1>2, EndsIsCited DEF Crawling, Resting, Refusals
<1>3. CASE /\ \A sid \in DOMAIN proc.memory : Candidate(sid) # {}
           /\ DOMAIN candidates' = DOMAIN candidates /\ Moves("finishing")
  <2>1. proc'.at = "finishing"
    BY <1>1, <1>3, MovesKeeps
  <2>2. DOMAIN proc.memory \subseteq Sids
    BY <1>3 DEF Candidate, Sids
  <2>3. AskedOf(Sids)
    BY <1>1, <2>2 DEF AskedOf
  <2>4. Sids' = Sids
    BY <1>1, <1>3 DEF Sids
  <2>5. AskedOf(Sids)'
    BY <1>1, <2>3, <2>4 DEF AskedOf
  <2>6. AskedInv'
    BY <2>1 DEF AskedInv, Searching
  <2>7. QED
    BY <1>1, <2>1, <2>5, <2>6, SearchGoesOn DEF Crawling
<1>4. QED
  BY <1>2, <1>3 DEF Select

\* A session that ends COMPLETE and was not cut short has selected.
LEMMA FinishesIsCited == ASSUME SearchInv, LimitsInv, CitedInv, Complete \/ Fail PROVE CitedInv'
<1>1. /\ proc.at \in Crawling /\ UNCHANGED <<papers, candidates, actions, comparisons, stores>>
      /\ IsProc(proc) /\ Loop(proc) /\ IsRow(session) /\ session \in Sessions
  BY DEF Complete, Fail, Crawling, SearchInv, ProcInv, SessionInv, LimitsInv, RowInv
<1>2. comparisons' = {} /\ stores' \in Nat /\ stores' = stores
  BY <1>1, NothingComparedYet DEF CitedInv, CitesInv
<1>3. CASE Ends("running") /\ UNCHANGED session
  BY <1>1, <1>3, EndsIsCited DEF Resting, Refusals
<1>4. CASE /\ proc.at = "finishing" /\ Moves("reading")
           /\ session' = [session EXCEPT !.status = "COMPLETE", !.stop = proc.stop]
  <2>1. proc'.at = "reading"
    BY <1>1, <1>4, MovesKeeps
  <2>2. session' = [status |-> "COMPLETE", stop |-> proc.stop, plan |-> session.plan]
    BY <1>1, <1>4 DEF IsRow
  <2>3. Finished' /\ session'.stop = proc.stop
    <3>1. proc.stop \in {"done", "limit", "timeout"} /\ proc.stop # None
      BY <1>1, NoneIsNoOutcome DEF Loop
    <3>2. session' \in Sessions
      BY <1>1, <2>2, <3>1 DEF Sessions
    <3>3. QED
      BY <2>2, <3>2, NoneIsNoSession DEF Finished
  <2>4. AskedOf(Sids)' <=> AskedOf(Sids)
    BY <1>1 DEF AskedOf, Sids
  <2>5. AskedInv'
    BY <2>1 DEF AskedInv, Searching, Crawling
  <2>6. CitesInv'
    BY <1>2, <1>4, <2>1, <2>3, <2>4 DEF CitedInv, CitesInv
  <2>7. QED
    BY <2>5, <2>6 DEF CitedInv
<1>5. CASE /\ session' = [session EXCEPT !.status = "FAILED", !.stop = "failed"]
           /\ Moves("out")
  <2>1. proc'.at = "out"
    BY <1>1, <1>5, MovesKeeps
  <2>2. session'.status = "FAILED"
    BY <1>1, <1>5 DEF IsRow
  <2>3. AskedInv'
    BY <2>1 DEF AskedInv, Searching, Crawling
  <2>4. CitesInv'
    BY <1>2, <2>1, <2>2 DEF CitesInv, Finished, Crawling, Resting
  <2>5. QED
    BY <2>3, <2>4 DEF CitedInv
<1>6. QED
  BY <1>3, <1>4, <1>5 DEF Complete, Fail, Finishes

\* Nothing that is read of the session changes once it is finished.
LEMMA AfterwardsIsCited ==
    ASSUME CitedInv, UNCHANGED <<papers, session, actions, comparisons, stores>>,
           DOMAIN candidates' = DOMAIN candidates,
           proc'.at \notin Crawling, proc'.at \notin Resting => Finished,
           proc'.at = "drafted" =>
              (stores = 0 /\ Finished /\ session.stop # "timeout" => Honest(proc'.draft))
    PROVE  CitedInv'
<1>1. AskedInv'
  BY DEF AskedInv, Searching
<1>2. Sids' = Sids
  BY DEF Sids
<1>3. AskedOf(Sids)' <=> AskedOf(Sids)
  BY <1>2 DEF AskedOf
<1>4. Finished' <=> Finished
  BY DEF Finished
<1>5. proc'.at # "finishing"
  BY DEF Crawling
<1>6. CitesInv'
  BY <1>3, <1>4, <1>5 DEF CitedInv, CitesInv, Honest
<1>7. QED
  BY <1>1, <1>6 DEF CitedInv

LEMMA AssignIsCited == ASSUME SearchInv, CitedInv, Assign PROVE CitedInv'
<1>1. /\ proc.at = "assigning" /\ UNCHANGED <<papers, session, actions, comparisons, stores>>
      /\ IsProc(proc) /\ Finished
  BY DEF Assign, work, SearchInv, ProcInv, CitedInv, CitesInv, Crawling, Resting, Refusals
<1>2. /\ DOMAIN candidates' = DOMAIN candidates
      /\ Moves("out") \/ Ends("aliased") \/ Ends("overtargeted") \/ Moves("planned")
  BY DEF Assign
<1>3. proc'.at \in {"out", "aliased", "overtargeted", "planned"}
  BY <1>1, <1>2, MovesKeeps, EndsProc
<1>4. QED
  BY <1>1, <1>2, <1>3, AfterwardsIsCited DEF Crawling

\* A relation CITES is drafted for a reference that was asked of none of the
\* candidates: of the source, where nothing else was asked.
LEMMA BundleIsHonest ==
    ASSUME SearchInv, AskedOf(Sids), NEW id \in DOMAIN candidates, NEW arxiv
    PROVE  Honest(Bundle(id, arxiv))
<1>1. SUFFICES ASSUME Referenced(id) PROVE Bundle(id, arxiv).real
  BY DEF Honest, Bundle
<1>2. PICK s \in candidates[id].by \ {0} :
         actions[s].tool = "GET_REFERENCES" /\ actions[s].target \notin Sids
  BY <1>1 DEF Referenced
<1>3. s \in DOMAIN actions
  BY <1>2 DEF SearchInv, CandidatesInv, SoundCandidates, Done
<1>4. actions[s].target \in SourceRecords
  BY <1>2, <1>3 DEF AskedOf
<1>5. QED
  BY <1>2, <1>4 DEF Bundle

LEMMA AfterTheSearchIsCited ==
    ASSUME SearchInv, CitedInv, AfterTheSearch \/ Crash
    PROVE  CitedInv'
<1>1. UNCHANGED <<papers, candidates, session, actions>> /\ IsProc(proc)
  BY DEF AfterTheSearch, Read, ReadTargets, Materialize, Draft, Compare, Leave, Crash, work,
         SearchInv, ProcInv
<1>2. UNCHANGED stores
  BY DEF AfterTheSearch, Read, ReadTargets, Materialize, Draft, Compare, Leave, Crash
<1>3. AfterTheSearch => proc.at \notin Crawling \cup Resting
  <2>1. ReadTargets => proc.at \in {"planned", "materialized"}
    BY DEF ReadTargets
  <2>2. Read \/ Materialize \/ Draft \/ Compare \/ Leave =>
           proc.at \in {"reading", "materializing", "comparing", "drafted"}
    BY DEF Read, Materialize, Draft, Compare, Leave
  <2>3. QED
    BY <2>1, <2>2 DEF AfterTheSearch, Crawling, Resting, Refusals
<1>4. AfterTheSearch => Finished
  BY <1>3 DEF CitedInv, CitesInv
<1>5. ASSUME UNCHANGED comparisons, proc'.at \notin Crawling \cup {"drafted"},
             AfterTheSearch \/ proc'.at \in Resting
      PROVE  CitedInv'
  BY <1>1, <1>2, <1>4, <1>5, AfterwardsIsCited
<1>6. CASE Read
  <2>1. UNCHANGED comparisons /\ proc'.at = "assigning"
    BY <1>6 DEF Read, work, Out
  <2>2. QED
    BY <1>5, <1>6, <2>1 DEF Crawling, AfterTheSearch
<1>7. CASE ReadTargets
  <2>1. PICK next \in {<<"planned", "materializing">>, <<"materialized", "comparing">>} :
           proc' = [proc EXCEPT !.at = next[2], !.seen = TargetPairs]
    BY <1>7 DEF ReadTargets
  <2>2. UNCHANGED comparisons /\ next[2] \in {"materializing", "comparing"}
    BY <1>7 DEF ReadTargets, work
  <2>3. proc'.at \in {"materializing", "comparing"}
    BY <1>1, <2>1, <2>2 DEF IsProc
  <2>4. QED
    BY <1>5, <1>7, <2>2, <2>3 DEF Crawling, AfterTheSearch
<1>8. CASE Materialize \/ Leave
  <2>1. UNCHANGED comparisons /\ (Moves("materialized") \/ Moves("out") \/ Ends("aliased"))
    BY <1>8 DEF Materialize, Leave, work
  <2>2. proc'.at \in {"materialized", "out", "aliased"}
    BY <1>1, <2>1, MovesKeeps, EndsProc
  <2>3. QED
    BY <1>5, <1>8, <2>1, <2>2 DEF Crawling, AfterTheSearch
<1>9. CASE Crash
  <2>1. UNCHANGED comparisons /\ proc'.at = "out"
    BY <1>9, EndsProc DEF Crash, work
  <2>2. QED
    BY <1>5, <2>1 DEF Crawling, Resting
<1>10. CASE Draft
  <2>1. proc.at = "comparing" /\ UNCHANGED comparisons /\ AfterTheSearch
    BY <1>10 DEF Draft, work, AfterTheSearch
  <2>2. ASSUME NEW pair, proc' = Dropped(pair) PROVE CitedInv'
    <3>1. proc'.at = "comparing"
      BY <1>1, <2>1, <2>2 DEF Dropped, IsProc
    <3>2. QED
      BY <1>5, <2>1, <3>1 DEF Crawling
  <2>3. ASSUME NEW pair, NEW id \in DOMAIN candidates,
               proc' = [Dropped(pair) EXCEPT !.at = "drafted", !.draft = Bundle(id, pair[2])]
        PROVE  CitedInv'
    <3>1. proc'.at = "drafted" /\ proc'.draft = Bundle(id, pair[2])
      BY <1>1, <2>3 DEF Dropped, IsProc
    <3>2. stores = 0 /\ Finished /\ session.stop # "timeout" => Honest(proc'.draft)
      BY <2>3, <3>1, BundleIsHonest DEF CitedInv, CitesInv
    <3>3. QED
      BY <1>1, <1>2, <1>4, <2>1, <3>1, <3>2, AfterwardsIsCited DEF Crawling
  <2>4. QED
    BY <1>10, <2>2, <2>3 DEF Draft, TargetsOf
<1>11. CASE Compare
  <2>1. proc.at = "drafted" /\ AfterTheSearch
    BY <1>11 DEF Compare, AfterTheSearch
  <2>2. CASE Ends("aliased") /\ UNCHANGED comparisons
    <3>1. proc'.at = "aliased"
      BY <2>2, EndsProc
    <3>2. QED
      BY <1>5, <2>1, <2>2, <3>1 DEF Crawling
  <2>3. CASE /\ comparisons' = comparisons \cup {proc.draft}
             /\ proc' = [proc EXCEPT !.at = "comparing", !.draft = None]
    <3>1. proc'.at = "comparing"
      BY <1>1, <2>3 DEF IsProc
    <3>2. AskedInv'
      BY <3>1 DEF AskedInv, Searching, Crawling
    <3>3. (AskedOf(Sids)' <=> AskedOf(Sids)) /\ (Finished' <=> Finished)
      BY <1>1 DEF AskedOf, Sids, Finished
    <3>4. stores = 0 /\ Finished /\ session.stop # "timeout" =>
             AskedOf(Sids) /\ \A c \in comparisons' : Honest(c)
      BY <2>1, <2>3 DEF CitedInv, CitesInv
    <3>5. CitesInv'
      BY <1>1, <1>2, <1>4, <2>1, <3>1, <3>3, <3>4 DEF CitedInv, CitesInv, Honest
    <3>6. QED
      BY <3>2, <3>5 DEF CitedInv
  <2>4. QED
    BY <1>11, <2>2, <2>3 DEF Compare
<1>12. QED
  BY <1>6, <1>7, <1>8, <1>9, <1>10, <1>11 DEF AfterTheSearch

\* A record that others store leaves what was asked as it was.
LEMMA StoreElsewhereIsCited ==
    ASSUME SearchInv, CitedInv, NEW r \in Elsewhere, StoreElsewhere(r)
    PROVE  CitedInv'
<1>1. /\ UNCHANGED <<session, actions, comparisons, proc>> /\ stores' = stores + 1
      /\ stores \in Nat
  BY DEF StoreElsewhere, work, CitedInv, CitesInv
<1>2. stores' \in Nat /\ stores' # 0
  BY <1>1
<1>3. AskedInv'
  BY <1>1 DEF CitedInv, AskedInv, AskedOf, Sought
<1>4. CitesInv'
  BY <1>1, <1>2 DEF CitedInv, CitesInv, Finished
<1>5. QED
  BY <1>3, <1>4 DEF CitedInv

LEMMA NextKeepsCites ==
    ASSUME SearchInv, LimitsInv, CitedInv, [Next]_vars
    PROVE  CitedInv'
<1>1. CASE UNCHANGED vars
  <2>1. UNCHANGED <<papers, session, actions, candidates, comparisons, proc, stores>>
    BY <1>1 DEF vars
  <2>2. (Finished' <=> Finished) /\ (AskedOf(Sids)' <=> AskedOf(Sids))
    BY <2>1 DEF Finished, AskedOf, Sids
  <2>3. AskedInv'
    BY <2>1 DEF CitedInv, AskedInv, AskedOf, Sought
  <2>4. CitesInv'
    BY <2>1, <2>2 DEF CitedInv, CitesInv, Honest
  <2>5. QED
    BY <2>3, <2>4 DEF CitedInv
<1>2. CASE Work
  <2>1. \/ Open \/ SearchCorpus \/ StoreLocal \/ AskSource \/ Plan \/ Query \/ Recommend
        \/ Enqueue \/ Pop \/ Expand \/ Answered \/ Select \/ Complete \/ Fail
        \/ Assign \/ AfterTheSearch
    BY <1>2 DEF Work, AfterTheSearch
  <2>2. QED
    BY <2>1, OpenIsCited, SearchCorpusIsCited, StoreLocalIsCited, AskSourceIsCited,
       PlanIsCited, QueryIsCited, RecommendIsCited, EnqueueIsCited, PopIsCited,
       ExpandIsCited, AnsweredIsCited, SelectIsCited, FinishesIsCited, AssignIsCited,
       AfterTheSearchIsCited
<1>3. CASE CallFails \/ Deadline \/ ModelFails \/ Crash
  BY <1>3, CallFailsIsCited, InterruptedIsCited, AfterTheSearchIsCited
<1>4. ASSUME NEW r \in Elsewhere, StoreElsewhere(r) PROVE CitedInv'
  BY <1>4, StoreElsewhereIsCited
<1>5. QED
  BY <1>1, <1>2, <1>3, <1>4 DEF Next

\* The relation CITES of a session that was not cut short, while nobody gave its
\* candidates other identifiers, is one that the provider lists for the source.
THEOREM OnlySourcesCite == Spec => []CitationsAreTheSources
<1>1. Init => SearchInv /\ LimitsInv /\ CitedInv
  BY InitIsSound, InitIsInLimits, InitIsCited
<1>2. SearchInv /\ LimitsInv /\ CitedInv /\ [Next]_vars => (SearchInv /\ LimitsInv /\ CitedInv)'
  BY NextKeepsInv, NextKeepsLimits, NextKeepsCites
<1>3. CitedInv => CitationsAreTheSources
  BY DEF CitedInv, CitesInv, Finished, Honest, CitationsAreTheSources
<1>4. QED
  BY <1>1, <1>2, <1>3, PTL DEF Spec
============================================================================
