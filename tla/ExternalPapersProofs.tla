------------------------ MODULE ExternalPapersProofs ------------------------
(***************************************************************************)
(* What an upsert does to stored papers, for any rows and any record: keys *)
(* and identifiers stay unique, nothing that a row stood for is lost, and  *)
(* what depends on a row follows it.                                       *)
(***************************************************************************)
EXTENDS ExternalPapers, FiniteSetTheorems, FunctionTheorems, NaturalsInduction,
        WellFoundedInduction, TLAPS

Identifiers == Nat \cup {None}

\* The identifiers of a record, or of a row.
Named(r) == r.sid \in Nat /\ r.arxiv \in Identifiers /\ r.doi \in Identifiers

\* The rows of a table with the unique indexes.
Table(rows) ==
    /\ IsFiniteSet(rows)
    /\ \A p \in rows : Named(p) /\ p.id \in Nat
    /\ \A p, q \in rows : p # q => Apart(p, q)

----------------------------------------------------------------------------
(* Natural numbers and finite sets *)

\* Induction, with a set in the place of a predicate.
LEMMA SetInduction ==
    ASSUME NEW S \in SUBSET Nat, 0 \in S, \A n \in S : n + 1 \in S
    PROVE  S = Nat
<1>1. SUFFICES ASSUME Nat \ S # {} PROVE FALSE
  OBVIOUS
<1>2. PICK x \in Nat \ S : \A y \in Nat \ S : <<y, x>> \notin OpToRel(<, Nat)
  <2> DEFINE D == Nat \ S
  <2>1. D \subseteq Nat /\ D # {}
    BY <1>1
  <2> HIDE DEF D
  <2>2. \E x \in D : \A y \in D : <<y, x>> \notin OpToRel(<, Nat)
    BY <2>1, NatLessThanWellFounded, WFMin
  <2>3. QED
    BY <2>2 DEF D
<1>3. \A y \in Nat \ S : ~(y < x)
  BY <1>2 DEF OpToRel
<1>4. x # 0 /\ x - 1 \in Nat
  OBVIOUS
<1>5. x - 1 \in S
  BY <1>3, <1>4
<1>6. (x - 1) + 1 = x
  OBVIOUS
<1>7. QED
  BY <1>5, <1>6

\* A nonempty set of natural numbers has a least one.
LEMMA LeastExists ==
    ASSUME NEW S \in SUBSET Nat, S # {}
    PROVE  Min(S) \in S /\ \A n \in S : Min(S) <= n
<1>1. PICK x \in S : \A y \in S : <<y, x>> \notin OpToRel(<, Nat)
  BY NatLessThanWellFounded, WFMin
<1>2. \A y \in S : x <= y
  <2>1. SUFFICES ASSUME NEW y \in S, ~(x <= y) PROVE FALSE
    OBVIOUS
  <2>2. x \in Nat /\ y \in Nat
    OBVIOUS
  <2>3. y < x
    BY <2>1, <2>2
  <2>4. QED
    BY <1>1, <2>2, <2>3 DEF OpToRel
<1>3. QED
  BY <1>2 DEF Min

\* A finite set with two elements has more than one.
LEMMA TwoAreMany ==
    ASSUME NEW S, IsFiniteSet(S), NEW a \in S, NEW b \in S, a # b
    PROVE  Cardinality(S) > 1
<1>1. Cardinality(S) \in Nat
  BY FS_CardinalityType
<1>2. Cardinality(S) # 0
  BY FS_EmptySet
<1>3. Cardinality(S) # 1
  BY FS_Singleton
<1>4. QED
  BY <1>1, <1>2, <1>3

----------------------------------------------------------------------------
(* Rows *)

\* A key names one row.
LEMMA RowIsNamed ==
    ASSUME NEW rows, Table(rows), NEW p \in rows
    PROVE  RowOf(rows, p.id) = p
  BY DEF RowOf, Table, Apart

\* A record knows an identifier, or a row it matches does, unless it is None.
LEMMA UnionIsKnown ==
    ASSUME NEW rows, NEW r, NEW type
    PROVE  /\ Union(rows, r, type) # None =>
                 \E p \in Matching(rows, r) \cup {r} : p[type] = Union(rows, r, type)
           /\ (\E p \in Matching(rows, r) \cup {r} : p[type] # None) =>
                 Union(rows, r, type) # None
<1>1. Known(rows, r, type) # {} => Union(rows, r, type) \in Known(rows, r, type)
  BY DEF Union
<1>2. Known(rows, r, type) = {} => Union(rows, r, type) = None
  BY DEF Union
<1>3. QED
  BY <1>1, <1>2 DEF Known

\* What is known of a record and its rows is finite.
LEMMA KnownIsFinite ==
    ASSUME NEW rows, IsFiniteSet(rows), NEW r, NEW type
    PROVE  IsFiniteSet(Known(rows, r, type))
<1> DEFINE S == Matching(rows, r) \cup {r}
           f == [p \in S |-> p[type]]
           T == {p[type] : p \in S}
<1>1. IsFiniteSet(S)
  <2>1. Matching(rows, r) \in SUBSET rows
    BY DEF Matching
  <2>2. QED
    BY <2>1, FS_Subset, FS_AddElement
<1>2. f \in Surjection(S, T)
  BY DEF Surjection
<1>3. IsFiniteSet(T)
  <2> HIDE DEF S, f, T
  <2>1. QED
    BY <1>1, <1>2, FS_Surjection
<1>4. Known(rows, r, type) \in SUBSET T
  BY DEF Known
<1>5. QED
  BY <1>3, <1>4, FS_Subset

----------------------------------------------------------------------------
(* The upsert of a record *)

LEMMA MergedIsNamed ==
    ASSUME NEW rows, Table(rows), NEW r, Named(r)
    PROVE  Named(Merged(rows, r)) /\ Merged(rows, r).id = Identity(r) /\ Identity(r) \in Nat
<1>1. \A p \in Matching(rows, r) \cup {r} : Named(p)
  BY DEF Matching, Table
<1>2. Union(rows, r, "arxiv") \in Identifiers
  BY <1>1, UnionIsKnown DEF Named, Identifiers
<1>3. Union(rows, r, "doi") \in Identifiers
  BY <1>1, UnionIsKnown DEF Named, Identifiers
<1>4. QED
  BY <1>2, <1>3, NoneIsNoNumber DEF Merged, Identity, Named, Identifiers

\* A row that is left shares nothing with the merged one.
LEMMA OthersAreApart ==
    ASSUME NEW rows, Table(rows), NEW r, Named(r), NEW q \in rows \ Matching(rows, r)
    PROVE  Apart(q, Merged(rows, r)) /\ Apart(Merged(rows, r), q)
<1> DEFINE m == Merged(rows, r)
<1>1. q.id # m.id /\ q.sid # m.sid
  BY DEF Matching, Merged
<1>2. ASSUME m.arxiv # None PROVE q.arxiv # m.arxiv
  <2>1. PICK p \in Matching(rows, r) \cup {r} : p.arxiv = m.arxiv
    BY <1>2, UnionIsKnown DEF Merged
  <2>2. CASE p = r
    BY <1>2, <2>1, <2>2 DEF Matching
  <2>3. CASE p \in Matching(rows, r)
    <3>1. p \in rows /\ p # q
      BY <2>3 DEF Matching
    <3>2. QED
      BY <1>2, <2>1, <3>1 DEF Table, Apart
  <2>4. QED
    BY <2>2, <2>3
<1>3. ASSUME m.doi # None PROVE q.doi # m.doi
  <2>1. PICK p \in Matching(rows, r) \cup {r} : p.doi = m.doi
    BY <1>3, UnionIsKnown DEF Merged
  <2>2. CASE p = r
    BY <1>3, <2>1, <2>2 DEF Matching
  <2>3. CASE p \in Matching(rows, r)
    <3>1. p \in rows /\ p # q
      BY <2>3 DEF Matching
    <3>2. QED
      BY <1>3, <2>1, <3>1 DEF Table, Apart
  <2>4. QED
    BY <2>2, <2>3
<1> HIDE DEF m
<1>4. QED
  BY <1>1, <1>2, <1>3 DEF Apart, m

\* The unique indexes hold after the upsert, also of an ambiguous record.
THEOREM UpsertKeepsIndexes ==
    ASSUME NEW rows, Table(rows), NEW r, Named(r)
    PROVE  Table(Upserted(rows, r))
<1> DEFINE m == Merged(rows, r)
           rest == rows \ Matching(rows, r)
<1>1. Upserted(rows, r) = rest \cup {m}
  BY DEF Upserted
<1>2. IsFiniteSet(rest \cup {m})
  <2>1. IsFiniteSet(rest)
    BY FS_Difference DEF Table
  <2>2. QED
    BY <2>1, FS_AddElement
<1>3. \A p \in rest \cup {m} : Named(p) /\ p.id \in Nat
  BY MergedIsNamed DEF Table
<1>4. \A p, q \in rest \cup {m} : p # q => Apart(p, q)
  BY OthersAreApart DEF Table
<1>5. QED
  BY <1>1, <1>2, <1>3, <1>4 DEF Table

LEMMA MatchingByKey ==
    ASSUME NEW rows, Table(rows), NEW r, NEW p \in rows
    PROVE  p.id \in Ids(Matching(rows, r)) <=> p \in Matching(rows, r)
<1>1. Matching(rows, r) \subseteq rows
  BY DEF Matching
<1>2. QED
  BY <1>1 DEF Ids, Table, Apart

\* A row goes on under its new key, with all it stood for.
THEOREM RowsGoOn ==
    ASSUME NEW rows, Table(rows), NEW r, NEW p \in rows
    PROVE  \E q \in Upserted(rows, r) :
              /\ q.id = Rekeyed(rows, r, p.id) /\ p.of \subseteq q.of
              /\ q = IF p \in Matching(rows, r) THEN Merged(rows, r) ELSE p
<1>1. CASE p \in Matching(rows, r)
  <2>1. Rekeyed(rows, r, p.id) = Identity(r)
    BY <1>1, MatchingByKey DEF Rekeyed
  <2>2. p.of \subseteq Merged(rows, r).of
    BY <1>1 DEF Merged
  <2>3. QED
    BY <1>1, <2>1, <2>2 DEF Upserted, Merged
<1>2. CASE p \notin Matching(rows, r)
  <2>1. Rekeyed(rows, r, p.id) = p.id
    BY <1>2, MatchingByKey DEF Rekeyed
  <2>2. QED
    BY <1>2, <2>1 DEF Upserted
<1>3. QED
  BY <1>1, <1>2

\* What depends on stored rows depends on stored rows.
THEOREM DependentsFollow ==
    ASSUME NEW rows, Table(rows), NEW r, NEW owners \in SUBSET Ids(rows)
    PROVE  Followed(rows, r, owners) \subseteq Ids(Upserted(rows, r))
  BY RowsGoOn DEF Followed, Ids

\* The arXiv id of a record that is not ambiguous, or of a row it matches, is the
\* merged row's.
LEMMA ArxivIsKept ==
    ASSUME NEW rows, Table(rows), NEW r, ~Ambiguous(rows, r),
           NEW p \in Matching(rows, r) \cup {r}, p.arxiv # None
    PROVE  Merged(rows, r).arxiv = p.arxiv
<1> DEFINE K == Known(rows, r, "arxiv")
<1>1. IsFiniteSet(K)
  BY KnownIsFinite DEF Table
<1>2. p.arxiv \in K
  BY DEF Known
<1>3. Union(rows, r, "arxiv") \in K
  BY <1>2 DEF Union
<1>4. ~(Cardinality(K) > 1)
  BY DEF Ambiguous
<1> HIDE DEF K
<1>5. Union(rows, r, "arxiv") = p.arxiv
  BY <1>1, <1>2, <1>3, <1>4, TwoAreMany
<1>6. QED
  BY <1>5 DEF Merged

\* Two papers with arXiv ids are not merged, and get different keys.
THEOREM PreprintsStayApart ==
    ASSUME NEW rows, Table(rows), NEW r, ~Ambiguous(rows, r),
           NEW p \in rows, NEW q \in rows, p # q, p.arxiv # None, q.arxiv # None
    PROVE  /\ Rekeyed(rows, r, p.id) # Rekeyed(rows, r, q.id)
           /\ ~(p \in Matching(rows, r) /\ q \in Matching(rows, r))
<1>1. ~(p \in Matching(rows, r) /\ q \in Matching(rows, r))
  <2>1. p.arxiv # q.arxiv
    BY DEF Table, Apart
  <2>2. QED
    BY <2>1, ArxivIsKept
<1>2. \A s \in rows \ Matching(rows, r) : s.id # Identity(r)
  BY DEF Matching
<1>3. p.id # q.id
  BY DEF Table, Apart
<1>4. QED
  BY <1>1, <1>2, <1>3, MatchingByKey DEF Rekeyed

----------------------------------------------------------------------------
(* Ranks *)

\* The ranks of a corpus follow its papers when only papers with arXiv ids have one:
\* none is lost, none is invented.
THEOREM RanksFollow ==
    ASSUME NEW rows, Table(rows), NEW r, Named(r), ~Ambiguous(rows, r),
           NEW corpus, DOMAIN corpus \subseteq Ids(rows),
           \A id \in DOMAIN corpus : corpus[id] \in Nat,
           \A id \in DOMAIN corpus : corpus[id] > 0 => RowOf(rows, id).arxiv # None
    PROVE  /\ DOMAIN CorpusAfter(rows, r, corpus) = Followed(rows, r, DOMAIN corpus)
           /\ \A id \in DOMAIN corpus : corpus[id] > 0 =>
                 CorpusAfter(rows, r, corpus)[Rekeyed(rows, r, id)] = corpus[id]
           /\ \A new \in Followed(rows, r, DOMAIN corpus) :
                 \/ CorpusAfter(rows, r, corpus)[new] = 0
                 \/ \E id \in DOMAIN corpus :
                       /\ Rekeyed(rows, r, id) = new /\ corpus[id] > 0
                       /\ CorpusAfter(rows, r, corpus)[new] = corpus[id]
<1> DEFINE owners == Ids(Matching(rows, r)) \cap DOMAIN corpus
           ranked == {id \in owners : corpus[id] > 0}
           after == CorpusAfter(rows, r, corpus)
<1>1. DOMAIN after = Followed(rows, r, DOMAIN corpus)
  BY DEF CorpusAfter
<1>2. Matching(rows, r) \subseteq rows
  BY DEF Matching
<1>3. ranked \in SUBSET Nat
  BY <1>2 DEF Ids, Table
\* Two ranked papers are not merged.
<1>4. ASSUME NEW a \in ranked, NEW b \in ranked PROVE a = b
  <2>1. PICK p \in Matching(rows, r) : p.id = a
    BY DEF Ids
  <2>2. PICK q \in Matching(rows, r) : q.id = b
    BY DEF Ids
  <2>3. p.arxiv # None /\ q.arxiv # None
    BY <1>2, <2>1, <2>2, RowIsNamed
  <2>4. p = q
    BY <1>2, <2>3, PreprintsStayApart
  <2>5. QED
    BY <2>1, <2>2, <2>4
<1>5. MergedRank(rows, r, corpus) =
         CASE ranked = {} -> 0
           [] Survivor(rows, r).id \in ranked -> corpus[Survivor(rows, r).id]
           [] OTHER -> corpus[Min(ranked)]
  BY DEF MergedRank
<1>6. ranked # {} => Min(ranked) \in ranked
  <2> HIDE DEF ranked
  <2>1. QED
    BY <1>3, LeastExists
<1>7. ranked = {} => MergedRank(rows, r, corpus) = 0
  BY <1>5
<1>8. \A id \in ranked : MergedRank(rows, r, corpus) = corpus[id]
  <2> HIDE DEF ranked
  <2>1. QED
    BY <1>4, <1>5, <1>6
<1>9. \A id \in Ids(rows) \ Ids(Matching(rows, r)) : id # Identity(r)
  BY DEF Ids, Matching
<1>10. ASSUME NEW id \in DOMAIN corpus, corpus[id] > 0
       PROVE  after[Rekeyed(rows, r, id)] = corpus[id]
  <2>1. Rekeyed(rows, r, id) \in Followed(rows, r, DOMAIN corpus)
    BY DEF Followed
  <2>2. CASE id \in Ids(Matching(rows, r))
    <3>1. Rekeyed(rows, r, id) = Identity(r)
      BY <2>2 DEF Rekeyed
    <3>2. MergedRank(rows, r, corpus) = corpus[id]
      BY <1>8, <1>10, <2>2
    <3>3. QED
      BY <2>1, <3>1, <3>2 DEF CorpusAfter
  <2>3. CASE id \notin Ids(Matching(rows, r))
    <3>1. Rekeyed(rows, r, id) = id /\ id # Identity(r)
      BY <1>9, <2>3 DEF Rekeyed
    <3>2. QED
      BY <2>1, <3>1 DEF CorpusAfter
  <2>4. QED
    BY <2>2, <2>3
<1>11. ASSUME NEW new \in Followed(rows, r, DOMAIN corpus), after[new] # 0
       PROVE  \E id \in DOMAIN corpus :
                 Rekeyed(rows, r, id) = new /\ corpus[id] > 0 /\ after[new] = corpus[id]
  <2>1. CASE new = Identity(r)
    <3>1. after[new] = MergedRank(rows, r, corpus)
      BY <2>1 DEF CorpusAfter
    <3>2. PICK id \in ranked : TRUE
      BY <1>7, <1>11, <3>1
    <3>3. after[new] = corpus[id] /\ Rekeyed(rows, r, id) = new
      BY <1>8, <2>1, <3>1 DEF Rekeyed
    <3>4. QED
      BY <3>3
  <2>2. CASE new # Identity(r)
    <3>1. after[new] = corpus[new]
      BY <2>2 DEF CorpusAfter
    <3>2. new \in DOMAIN corpus /\ Rekeyed(rows, r, new) = new
      BY <2>2 DEF Followed, Rekeyed
    <3>3. corpus[new] > 0
      BY <1>11, <3>1, <3>2
    <3>4. QED
      BY <3>1, <3>2, <3>3
  <2>3. QED
    BY <2>1, <2>2
<1>12. QED
  BY <1>1, <1>10, <1>11

----------------------------------------------------------------------------
(* The order of an answer *)

\* The records of an answer are stored once each.
THEOREM EachIsStored ==
    ASSUME NEW page, IsFiniteSet(page), \A r \in page : r.sid \in Nat,
           \A r, q \in page : r.sid = q.sid => r = q
    PROVE  /\ \A n \in 1 .. Cardinality(page) : InOrder(page)[n] \in page
           /\ \A r \in page : \E n \in 1 .. Cardinality(page) : InOrder(page)[n] = r
<1> DEFINE N == Cardinality(page)
           Less(r) == {q \in page : q.sid < r.sid}
           place == [r \in page |-> Cardinality(Less(r)) + 1]
<1>1. N \in Nat
  BY FS_CardinalityType
<1>2. \A r \in page : IsFiniteSet(Less(r)) /\ Cardinality(Less(r)) \in Nat
  <2>1. \A r \in page : Less(r) \in SUBSET page
    OBVIOUS
  <2>2. QED
    BY <2>1, FS_Subset, FS_CardinalityType
<1>3. ASSUME NEW r \in page PROVE Cardinality(Less(r)) < N
  <2>1. Less(r) \in SUBSET page /\ r \notin Less(r)
    OBVIOUS
  <2>2. Cardinality(Less(r)) <= N /\ Cardinality(Less(r)) # N
    <3> HIDE DEF Less
    <3>1. QED
      BY <2>1, FS_Subset
  <2>3. QED
    BY <1>1, <1>2, <2>2
\* A smaller identifier has a smaller place.
<1>4. ASSUME NEW r \in page, NEW q \in page, r.sid < q.sid
      PROVE  Cardinality(Less(r)) < Cardinality(Less(q))
  <2>1. Less(r) \in SUBSET Less(q) /\ r \in Less(q) /\ r \notin Less(r)
    BY <1>4
  <2>2. Cardinality(Less(r)) <= Cardinality(Less(q)) /\ Cardinality(Less(r)) # Cardinality(Less(q))
    <3>1. IsFiniteSet(Less(q))
      BY <1>2
    <3> HIDE DEF Less
    <3>2. QED
      BY <2>1, <3>1, FS_Subset
  <2>3. QED
    BY <1>2, <2>2
<1>5. ASSUME NEW r \in page, NEW q \in page, Cardinality(Less(r)) = Cardinality(Less(q))
      PROVE  r = q
  <2>1. Cardinality(Less(r)) \in Nat /\ Cardinality(Less(q)) \in Nat
    BY <1>2
  <2> HIDE DEF Less
  <2>2. ~(r.sid < q.sid) /\ ~(q.sid < r.sid)
    BY <1>4, <1>5, <2>1
  <2>3. QED
    BY <2>2
<1> HIDE DEF Less
<1>6. place \in [page -> 1 .. N]
  BY <1>1, <1>2, <1>3
<1>7. place \in Injection(page, 1 .. N)
  BY <1>2, <1>5, <1>6 DEF Injection, IsInjective
<1>8. place \in Surjection(page, 1 .. N)
  <2>1. IsFiniteSet(1 .. N) /\ Cardinality(1 .. N) = N
    BY <1>1, FS_Interval
  <2>2. QED
    BY <1>7, <2>1, FS_Injection
<1>9. \A n \in 1 .. N : \E r \in page : Cardinality(Less(r)) = n - 1
  <2>1. SUFFICES ASSUME NEW n \in 1 .. N PROVE \E r \in page : Cardinality(Less(r)) = n - 1
    OBVIOUS
  <2>2. PICK r \in page : place[r] = n
    BY <1>8 DEF Surjection
  <2>3. Cardinality(Less(r)) + 1 = n
    BY <2>2
  <2>4. Cardinality(Less(r)) = n - 1
    BY <1>1, <1>2, <2>3
  <2>5. QED
    BY <2>4
<1>10. \A n \in 1 .. N :
          InOrder(page)[n] \in page /\ Cardinality(Less(InOrder(page)[n])) = n - 1
  BY <1>9 DEF InOrder, Less
<1>11. ASSUME NEW r \in page PROVE \E n \in 1 .. N : InOrder(page)[n] = r
  <2>1. Cardinality(Less(r)) + 1 \in 1 .. N
    BY <1>1, <1>2, <1>3
  <2>2. Cardinality(Less(InOrder(page)[Cardinality(Less(r)) + 1])) = Cardinality(Less(r))
    BY <1>2, <1>10, <2>1
  <2>3. QED
    BY <1>5, <1>10, <2>1, <2>2
<1>12. QED
  BY <1>10, <1>11
=============================================================================
