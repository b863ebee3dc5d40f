----------------------- MODULE HistoricalCorpusProofs -----------------------
(***************************************************************************)
(* Proofs about the historical corpus, for any records, weeks, workers,    *)
(* answers and bounds: what its invariants are, that a transaction that    *)
(* stores papers keeps them, and that every step does.                     *)
(***************************************************************************)
EXTENDS HistoricalCorpus, ExternalPapersProofs, SequenceTheorems

----------------------------------------------------------------------------
(* The invariant *)

\* A row is keyed by its arXiv id or by an identifier of the provider.
Keyed(rows) ==
    \A p \in rows : /\ p.id = p.sid \/ p.id = p.arxiv
                    /\ p.sid \in {r.sid : r \in Records}

RanksIn(ranks) == {ranks[id] : id \in {own \in DOMAIN ranks : ranks[own] > 0}}

\* The papers and what depends on them.  Only papers with arXiv ids have ranks
\* and local versions, and no two have one rank.
Sound(rows, ranks, owners, versions) ==
    /\ Table(rows) /\ Keyed(rows)
    /\ DOMAIN ranks \cup owners \subseteq Ids(rows) /\ versions \subseteq DOMAIN ranks
    /\ \A id \in DOMAIN ranks : ranks[id] \in 0 .. Limit
    /\ \A a, b \in DOMAIN ranks : ranks[a] = ranks[b] /\ ranks[a] > 0 => a = b
    /\ \A id \in DOMAIN ranks :
          ranks[id] > 0 \/ id \in versions => RowOf(rows, id).arxiv # None

PapersInv == Sound(papers, corpus, embedded, local)

\* The ranks are 1, 2, ..., as many as a COMPLETE backfill chose at most.
RanksInv ==
    \E n \in 0 .. Limit :
        /\ RanksIn(corpus) = 1 .. n
        /\ n > 0 => \E week \in Weeks : /\ runs[week] # None
                                        /\ runs[week].status = "COMPLETE"
                                        /\ n <= runs[week].representatives

GoodRow(week, row) ==
    /\ row \in Backfills
    /\ 1 .. row.cursor \subseteq pages[week]
    /\ row.status = "COMPLETE" => row.cursor = Plan
    /\ row.status # "COMPLETE" => row.representatives = 0

RowsInv ==
    /\ DOMAIN runs = Weeks /\ runs = [week \in Weeks |-> runs[week]]
    /\ \A week \in Weeks : runs[week] # None => GoodRow(week, runs[week])
    /\ DOMAIN pages = Weeks /\ pages = [week \in Weeks |-> pages[week]]

\* What a worker has chosen: papers, each once.
Choice(best) ==
    /\ best \in Seq(Nat) /\ Len(best) <= Limit
    /\ \A i, j \in 1 .. Len(best) : best[i] = best[j] => i = j

Busy == {"starting", "paging", "finishing", "failing"}

\* A busy worker's reading of the row was right about the pages stored then.
GoodWorker(x) ==
    /\ x = [at |-> x.at, week |-> x.week, run |-> x.run, best |-> x.best]
    /\ x.at \in Resting \cup Busy \cup {"checking", "materializing"}
    /\ x.run \in Backfills \cup {None}
    /\ x.at \in Busy =>
          /\ x.week \in Weeks
          /\ x.run # None => 1 .. x.run.cursor \subseteq pages[x.week]
    /\ x.at \in {"paging", "finishing"} => x.run # None
    /\ x.at = "starting" /\ x.run # None => x.run.representatives = 0
    /\ x.at = "finishing" => Choice(x.best)

WorkersInv ==
    /\ worker = [w \in Workers |-> worker[w]]
    /\ \A w \in Workers : GoodWorker(worker[w])

CorpusInv == PapersInv /\ RanksInv /\ NothingIsLost /\ RowsInv /\ WorkersInv

----------------------------------------------------------------------------
(* Storing papers *)

\* What a transaction works on.
IsState(s) ==
    s = [papers |-> s.papers, corpus |-> s.corpus, embedded |-> s.embedded,
         local |-> s.local, ambiguous |-> s.ambiguous]

SoundState(s) == IsState(s) /\ Sound(s.papers, s.corpus, s.embedded, s.local)

\* From one state to a later one no rank changes, and every row goes on, under its own
\* key or one of the given keys, with what depends on it.
Carries(s, t, keys) ==
    /\ RanksIn(t.corpus) = RanksIn(s.corpus)
    /\ \A p \in s.papers : \E q \in t.papers :
          /\ p.of \subseteq q.of /\ (q.id = p.id \/ q.id \in keys)
          /\ p.id \in DOMAIN s.corpus => q.id \in DOMAIN t.corpus
          /\ p.id \in s.embedded => q.id \in t.embedded

LEMMA RecordsAreNamed == \A r \in Records : Named(r)
  BY CorpusAssumption DEF Named, Identifiers

LEMMA CarriesItself == ASSUME NEW s, NEW keys PROVE Carries(s, s, keys)
  BY DEF Carries

LEMMA CarriesOn ==
    ASSUME NEW s, NEW t, NEW u, NEW keys, Carries(s, t, keys), Carries(t, u, keys)
    PROVE  Carries(s, u, keys)
<1>1. RanksIn(u.corpus) = RanksIn(s.corpus)
  BY DEF Carries
<1>2. ASSUME NEW p \in s.papers
      PROVE  \E q \in u.papers :
                /\ p.of \subseteq q.of /\ (q.id = p.id \/ q.id \in keys)
                /\ p.id \in DOMAIN s.corpus => q.id \in DOMAIN u.corpus
                /\ p.id \in s.embedded => q.id \in u.embedded
  <2>1. PICK q \in t.papers :
           /\ p.of \subseteq q.of /\ (q.id = p.id \/ q.id \in keys)
           /\ p.id \in DOMAIN s.corpus => q.id \in DOMAIN t.corpus
           /\ p.id \in s.embedded => q.id \in t.embedded
    BY DEF Carries
  <2>2. PICK x \in u.papers :
           /\ q.of \subseteq x.of /\ (x.id = q.id \/ x.id \in keys)
           /\ q.id \in DOMAIN t.corpus => x.id \in DOMAIN u.corpus
           /\ q.id \in t.embedded => x.id \in u.embedded
    BY DEF Carries
  <2>3. QED
    BY <2>1, <2>2
<1>3. QED
  BY <1>1, <1>2 DEF Carries

\* The upsert of one record keeps what is sound, carries every row on, and stores the
\* record.
LEMMA UpsertIsSound ==
    ASSUME NEW s, SoundState(s), NEW r \in Records, ~Ambiguous(s.papers, r),
           NEW t, t = [papers    |-> Upserted(s.papers, r),
                       corpus    |-> CorpusAfter(s.papers, r, s.corpus),
                       embedded  |-> Followed(s.papers, r, s.embedded),
                       local     |-> Followed(s.papers, r, s.local),
                       ambiguous |-> FALSE]
    PROVE  /\ SoundState(t) /\ Carries(s, t, {Identity(r)})
           /\ \E q \in t.papers : r \in q.of /\ q.id = Identity(r)
<1> DEFINE rows == s.papers
           New(id) == Rekeyed(rows, r, id)
           m == Merged(rows, r)
<1>1. /\ Table(rows) /\ Keyed(rows) /\ Named(r)
      /\ DOMAIN s.corpus \subseteq Ids(rows) /\ s.embedded \subseteq Ids(rows)
      /\ s.local \subseteq DOMAIN s.corpus
      /\ \A id \in DOMAIN s.corpus : s.corpus[id] \in 0 .. Limit /\ s.corpus[id] \in Nat
      /\ \A id \in DOMAIN s.corpus : s.corpus[id] > 0 => RowOf(rows, id).arxiv # None
      /\ \A id \in DOMAIN s.corpus : id \in s.local => RowOf(rows, id).arxiv # None
  <2>1. Limit \in Nat
    BY CorpusAssumption
  <2>2. Sound(rows, s.corpus, s.embedded, s.local) /\ Named(r)
    BY RecordsAreNamed DEF SoundState
  <2> HIDE DEF rows
  <2>3. QED
    BY <2>1, <2>2 DEF Sound
<1>2. /\ t.papers = Upserted(rows, r) /\ t.corpus = CorpusAfter(rows, r, s.corpus)
      /\ t.embedded = Followed(rows, r, s.embedded) /\ t.local = Followed(rows, r, s.local)
      /\ ~Ambiguous(rows, r) /\ IsState(t)
  BY DEF IsState
<1> HIDE DEF rows
<1>3. Table(t.papers)
  BY <1>1, <1>2, UpsertKeepsIndexes
<1>4. m \in t.papers /\ m.id = Identity(r) /\ r \in m.of /\ m.sid = r.sid
  BY <1>2 DEF Upserted, Merged
<1>5. Keyed(t.papers)
  <2>1. r.arxiv # None => m.arxiv = r.arxiv
    BY <1>1, <1>2, ArxivIsKept
  <2>2. m.id = m.sid \/ m.id = m.arxiv
    BY <1>4, <2>1 DEF Identity
  <2>3. \A p \in t.papers : p \in rows \/ p = m
    BY <1>2 DEF Upserted
  <2> HIDE DEF m
  <2>4. QED
    BY <1>1, <1>4, <2>2, <2>3 DEF Keyed
\* Each row goes on.
<1>6. ASSUME NEW p \in rows
      PROVE  \E q \in t.papers :
                /\ q.id = New(p.id) /\ p.of \subseteq q.of
                /\ p.arxiv # None => q.arxiv # None
  <2>1. PICK q \in Upserted(rows, r) :
           /\ q.id = New(p.id) /\ p.of \subseteq q.of
           /\ q = IF p \in Matching(rows, r) THEN m ELSE p
    BY <1>1, RowsGoOn
  <2>2. p \in Matching(rows, r) /\ p.arxiv # None => m.arxiv = p.arxiv
    BY <1>1, <1>2, ArxivIsKept
  <2> HIDE DEF m, New
  <2>3. QED
    BY <1>2, <2>1, <2>2
<1>7. /\ DOMAIN t.corpus = Followed(rows, r, DOMAIN s.corpus)
      /\ \A id \in DOMAIN s.corpus : s.corpus[id] > 0 => t.corpus[New(id)] = s.corpus[id]
      /\ \A new \in DOMAIN t.corpus :
            \/ t.corpus[new] = 0
            \/ \E id \in DOMAIN s.corpus :
                  New(id) = new /\ s.corpus[id] > 0 /\ t.corpus[new] = s.corpus[id]
  BY <1>1, <1>2, RanksFollow
<1>8. /\ \A id \in DOMAIN s.corpus : New(id) \in DOMAIN t.corpus
      /\ \A id \in s.embedded : New(id) \in t.embedded
      /\ \A new \in t.local : \E id \in s.local : new = New(id)
      /\ \A id : New(id) = id \/ New(id) = Identity(r)
  BY <1>2, <1>7 DEF Followed, Rekeyed
<1>9. DOMAIN t.corpus \cup t.embedded \subseteq Ids(t.papers)
  BY <1>1, <1>2, <1>7, DependentsFollow
<1>10. t.local \subseteq DOMAIN t.corpus
  BY <1>1, <1>2, <1>7 DEF Followed
<1>11. \A new \in DOMAIN t.corpus : t.corpus[new] \in 0 .. Limit
  <2>1. 0 \in 0 .. Limit
    BY CorpusAssumption
  <2>2. QED
    BY <1>1, <1>7, <2>1
<1>12. \A a, b \in DOMAIN t.corpus : t.corpus[a] = t.corpus[b] /\ t.corpus[a] > 0 => a = b
  <2>1. SUFFICES ASSUME NEW a \in DOMAIN t.corpus, NEW b \in DOMAIN t.corpus,
                        t.corpus[a] = t.corpus[b], t.corpus[a] > 0
                 PROVE  a = b
    OBVIOUS
  <2>2. PICK i \in DOMAIN s.corpus : New(i) = a /\ t.corpus[a] = s.corpus[i] /\ s.corpus[i] > 0
    BY <1>7, <2>1
  <2>3. PICK j \in DOMAIN s.corpus : New(j) = b /\ t.corpus[b] = s.corpus[j] /\ s.corpus[j] > 0
    BY <1>7, <2>1
  <2>4. i = j
    BY <2>1, <2>2, <2>3 DEF SoundState, Sound
  <2>5. QED
    BY <2>2, <2>3, <2>4
<1>13. \A new \in DOMAIN t.corpus :
          t.corpus[new] > 0 \/ new \in t.local => RowOf(t.papers, new).arxiv # None
  <2>1. ASSUME NEW id \in DOMAIN s.corpus, s.corpus[id] > 0 \/ id \in s.local
        PROVE  RowOf(t.papers, New(id)).arxiv # None
    <3>1. PICK p \in rows : p.id = id
      BY <1>1 DEF Ids
    <3>2. RowOf(rows, id) = p
      BY <1>1, <3>1, RowIsNamed
    <3>3. p.arxiv # None
      BY <1>1, <2>1, <3>2
    <3>4. PICK q \in t.papers : q.id = New(id) /\ q.arxiv # None
      BY <1>6, <3>1, <3>3
    <3>5. QED
      BY <1>3, <3>4, RowIsNamed
  <2>2. ASSUME NEW new \in DOMAIN t.corpus, t.corpus[new] > 0 \/ new \in t.local
        PROVE  \E id \in DOMAIN s.corpus : (s.corpus[id] > 0 \/ id \in s.local) /\ new = New(id)
    BY <1>1, <1>7, <1>8, <2>2
  <2> HIDE DEF New
  <2>3. QED
    BY <2>1, <2>2
<1>14. RanksIn(t.corpus) = RanksIn(s.corpus)
  <2>1. ASSUME NEW n \in RanksIn(t.corpus) PROVE n \in RanksIn(s.corpus)
    <3>1. PICK new \in DOMAIN t.corpus : t.corpus[new] = n /\ t.corpus[new] > 0
      BY DEF RanksIn
    <3>2. QED
      BY <1>7, <3>1 DEF RanksIn
  <2>2. ASSUME NEW n \in RanksIn(s.corpus) PROVE n \in RanksIn(t.corpus)
    <3>1. PICK id \in DOMAIN s.corpus : s.corpus[id] = n /\ s.corpus[id] > 0
      BY DEF RanksIn
    <3>2. New(id) \in DOMAIN t.corpus /\ t.corpus[New(id)] = n
      BY <1>7, <1>8, <3>1
    <3>3. QED
      BY <3>1, <3>2 DEF RanksIn
  <2>3. QED
    BY <2>1, <2>2
<1>15. Carries(s, t, {Identity(r)})
  <2>1. ASSUME NEW p \in s.papers
        PROVE  \E q \in t.papers :
                  /\ p.of \subseteq q.of /\ (q.id = p.id \/ q.id \in {Identity(r)})
                  /\ p.id \in DOMAIN s.corpus => q.id \in DOMAIN t.corpus
                  /\ p.id \in s.embedded => q.id \in t.embedded
    <3>1. PICK q \in t.papers : q.id = New(p.id) /\ p.of \subseteq q.of
      BY <1>6 DEF rows
    <3> HIDE DEF New
    <3>2. QED
      BY <1>8, <3>1
  <2>2. QED
    BY <1>14, <2>1 DEF Carries
<1>16. SoundState(t)
  BY <1>2, <1>3, <1>5, <1>9, <1>10, <1>11, <1>12, <1>13 DEF SoundState, Sound
<1>17. QED
  BY <1>4, <1>15, <1>16

LEMMA StoreIsSound ==
    ASSUME NEW s, SoundState(s), NEW r \in Records
    PROVE  /\ SoundState(Store(s, r)) /\ Carries(s, Store(s, r), {Identity(r)})
           /\ ~Store(s, r).ambiguous =>
                 /\ ~s.ambiguous
                 /\ \E q \in Store(s, r).papers : r \in q.of /\ q.id = Identity(r)
<1>1. CASE s.ambiguous \/ Ambiguous(s.papers, r)
  <2>1. Store(s, r) = [s EXCEPT !.ambiguous = TRUE]
    BY <1>1 DEF Store
  <2>2. Store(s, r) = [papers |-> s.papers, corpus |-> s.corpus, embedded |-> s.embedded,
                       local |-> s.local, ambiguous |-> TRUE]
    BY <2>1 DEF SoundState, IsState
  <2>3. SoundState(Store(s, r)) /\ Store(s, r).ambiguous
    BY <2>2 DEF SoundState, IsState
  <2>4. Carries(s, Store(s, r), {Identity(r)})
    BY <2>2 DEF Carries
  <2>5. QED
    BY <2>3, <2>4
<1>2. CASE ~s.ambiguous /\ ~Ambiguous(s.papers, r)
  <2>1. Store(s, r) = [papers    |-> Upserted(s.papers, r),
                       corpus    |-> CorpusAfter(s.papers, r, s.corpus),
                       embedded  |-> Followed(s.papers, r, s.embedded),
                       local     |-> Followed(s.papers, r, s.local),
                       ambiguous |-> FALSE]
    BY <1>2 DEF Store
  <2>2. QED
    BY <1>2, <2>1, UpsertIsSound
<1>3. QED
  BY <1>1, <1>2

\* The states a transaction goes through.
Sequel(f, page, N) ==
    f = [n \in 0 .. N |-> IF n = 0 THEN Current ELSE Store(f[n - 1], InOrder(page)[n])]

LEMMA SequelExists ==
    ASSUME NEW page, NEW N \in Nat
    PROVE  \E f : Sequel(f, page, N)
<1> DEFINE S == {k \in Nat : \E f : Sequel(f, page, k)}
<1>1. 0 \in S
  <2> DEFINE f == [n \in 0 .. 0 |-> Current]
  <2>1. f = [n \in 0 .. 0 |-> IF n = 0 THEN Current ELSE Store(f[n - 1], InOrder(page)[n])]
    OBVIOUS
  <2>2. QED
    BY <2>1 DEF Sequel
<1>2. ASSUME NEW k \in S PROVE k + 1 \in S
  <2>1. PICK f : Sequel(f, page, k)
    OBVIOUS
  <2> DEFINE g == [n \in 0 .. k + 1 |->
                     IF n <= k THEN f[n] ELSE Store(f[k], InOrder(page)[k + 1])]
             h == [n \in 0 .. k + 1 |->
                     IF n = 0 THEN Current ELSE Store(g[n - 1], InOrder(page)[n])]
  <2>2. ASSUME NEW n \in 0 .. k + 1 PROVE g[n] = h[n]
    <3>1. CASE n = 0
      BY <2>1, <3>1 DEF Sequel
    <3>2. CASE n # 0 /\ n <= k
      <4>1. g[n] = f[n] /\ g[n - 1] = f[n - 1] /\ h[n] = Store(g[n - 1], InOrder(page)[n])
        BY <3>2
      <4>2. f[n] = Store(f[n - 1], InOrder(page)[n])
        BY <2>1, <3>2 DEF Sequel
      <4>3. QED
        BY <4>1, <4>2
    <3>3. CASE n = k + 1
      BY <3>3
    <3>4. QED
      BY <3>1, <3>2, <3>3
  <2>3. g = h
    <3>1. /\ g = [n \in 0 .. k + 1 |-> g[n]]
          /\ h = [n \in 0 .. k + 1 |-> h[n]]
      OBVIOUS
    <3> HIDE DEF g, h
    <3>2. QED
      BY <2>2, <3>1
  <2>4. Sequel(g, page, k + 1)
    BY <2>3 DEF Sequel
  <2>5. QED
    BY <2>4
<1>3. S = Nat
  <2>1. S \in SUBSET Nat
    OBVIOUS
  <2> HIDE DEF S
  <2>2. QED
    BY <1>1, <1>2, <2>1, SetInduction
<1>4. QED
  BY <1>3

LEMMA StoredInSteps ==
    ASSUME NEW page, Cardinality(page) \in Nat
    PROVE  \E f : /\ f[0] = Current /\ StoredBy(page) = f[Cardinality(page)]
                  /\ \A n \in 1 .. Cardinality(page) :
                        f[n] = Store(f[n - 1], InOrder(page)[n])
<1> DEFINE N == Cardinality(page)
           f == CHOOSE f : Sequel(f, page, N)
<1>1. Sequel(f, page, N)
  BY SequelExists
<1>2. StoredBy(page) = f[N]
  BY DEF StoredBy, Sequel
<1> HIDE DEF f
<1>3. /\ f[0] = Current
      /\ \A n \in 1 .. N : f[n] = Store(f[n - 1], InOrder(page)[n])
  BY <1>1 DEF Sequel
<1>4. QED
  BY <1>2, <1>3

LEMMA CarriesFurther ==
    ASSUME NEW s, NEW t, NEW keys, NEW more, Carries(s, t, keys), keys \subseteq more
    PROVE  Carries(s, t, more)
  BY DEF Carries

\* A page keeps what is sound and carries every row on; unless it is ambiguous it stores
\* each of its records, under a key of the page.
LEMMA PageIsSound ==
    ASSUME NEW page \in SUBSET Records, \A r, q \in page : r.sid = q.sid => r = q, PapersInv
    PROVE  /\ SoundState(StoredBy(page)) /\ Carries(Current, StoredBy(page), Idents(page))
           /\ ~StoredBy(page).ambiguous =>
                 \A r \in page : \E q \in StoredBy(page).papers :
                    r \in q.of /\ q.id \in Idents(page)
<1> DEFINE N == Cardinality(page)
<1>1. IsFiniteSet(page) /\ N \in Nat /\ \A r \in page : r.sid \in Nat
  BY FS_Subset, FS_CardinalityType, CorpusAssumption
<1>2. /\ \A n \in 1 .. N : InOrder(page)[n] \in page
      /\ \A r \in page : \E n \in 1 .. N : InOrder(page)[n] = r
  BY <1>1, EachIsStored
<1>3. PICK f : /\ f[0] = Current /\ StoredBy(page) = f[N]
               /\ \A n \in 1 .. N : f[n] = Store(f[n - 1], InOrder(page)[n])
  BY <1>1, StoredInSteps
<1> DEFINE Kept(n) == /\ SoundState(f[n]) /\ Carries(Current, f[n], Idents(page))
                      /\ ~f[n].ambiguous => \A i \in 1 .. n : \E q \in f[n].papers :
                            InOrder(page)[i] \in q.of /\ q.id \in Idents(page)
           S == {n \in Nat : n <= N => Kept(n)}
<1>4. 0 \in S
  <2>1. SoundState(Current)
    BY DEF PapersInv, SoundState, IsState, Current
  <2>2. QED
    BY <1>3, <2>1, CarriesItself
<1>5. ASSUME NEW n \in S PROVE n + 1 \in S
  <2>1. SUFFICES ASSUME n + 1 <= N PROVE Kept(n + 1)
    OBVIOUS
  <2> DEFINE r == InOrder(page)[n + 1]
             s == f[n]
             t == f[n + 1]
  <2>2. n \in Nat /\ n + 1 \in 1 .. N /\ (n + 1) - 1 = n /\ Kept(n)
    BY <1>1, <2>1
  <2>3. r \in page /\ r \in Records /\ Identity(r) \in Idents(page) /\ t = Store(s, r)
    BY <1>2, <1>3, <2>2 DEF Idents
  <2> HIDE DEF r, t, s
  <2>4. SoundState(s) /\ Carries(Current, s, Idents(page))
    BY <2>2 DEF s
  <2>5. /\ SoundState(t) /\ Carries(s, t, {Identity(r)})
        /\ ~t.ambiguous =>
              /\ ~s.ambiguous
              /\ \E q \in t.papers : r \in q.of /\ q.id = Identity(r)
    BY <2>3, <2>4, StoreIsSound
  <2>6. Carries(s, t, Idents(page))
    <3>1. {Identity(r)} \subseteq Idents(page)
      BY <2>3
    <3>2. QED
      BY <2>5, <3>1, CarriesFurther
  <2>7. Carries(Current, t, Idents(page))
    BY <2>4, <2>6, CarriesOn
  <2>8. ASSUME ~t.ambiguous, NEW i \in 1 .. n + 1
        PROVE  \E q \in t.papers : InOrder(page)[i] \in q.of /\ q.id \in Idents(page)
    <3>1. CASE i = n + 1
      BY <2>3, <2>5, <2>8, <3>1 DEF r
    <3>2. CASE i # n + 1
      <4>1. i \in 1 .. n
        BY <2>2, <3>2
      <4>2. PICK q \in s.papers : InOrder(page)[i] \in q.of /\ q.id \in Idents(page)
        BY <2>2, <2>5, <2>8, <4>1 DEF s
      <4>3. PICK x \in t.papers : q.of \subseteq x.of /\ (x.id = q.id \/ x.id \in Idents(page))
        BY <2>6 DEF Carries
      <4>4. QED
        BY <4>2, <4>3
    <3>3. QED
      BY <3>1, <3>2
  <2>9. QED
    BY <2>5, <2>7, <2>8 DEF t
<1>6. S = Nat
  <2>1. S \in SUBSET Nat
    OBVIOUS
  <2> HIDE DEF S
  <2>2. QED
    BY <1>4, <1>5, <2>1, SetInduction
<1>7. Kept(N)
  <2>1. N \in S
    BY <1>1, <1>6
  <2> HIDE DEF Kept
  <2>2. QED
    BY <1>1, <2>1
<1>8. QED
  <2>1. /\ SoundState(StoredBy(page)) /\ Carries(Current, StoredBy(page), Idents(page))
        /\ ~StoredBy(page).ambiguous => \A i \in 1 .. N : \E q \in StoredBy(page).papers :
                InOrder(page)[i] \in q.of /\ q.id \in Idents(page)
    BY <1>3, <1>7
  <2>2. QED
    BY <1>2, <2>1

----------------------------------------------------------------------------
(* The initial states *)

LEMMA NoRowsIsTable == Table({})
  BY FS_EmptySet DEF Table

\* The row of a record that matches none.
LEMMA FirstRow ==
    ASSUME NEW r \in Records
    PROVE  LET p == Merged({}, r)
           IN  /\ Named(p) /\ p.id = Identity(r) /\ p.id \in Nat
               /\ p.sid = r.sid /\ (r.arxiv # None => p.arxiv = r.arxiv)
<1>1. Named(r)
  BY RecordsAreNamed
<1>2. Named(Merged({}, r)) /\ Merged({}, r).id = Identity(r) /\ Identity(r) \in Nat
  BY <1>1, NoRowsIsTable, MergedIsNamed
<1>3. Merged({}, r).sid = r.sid /\ Merged({}, r).arxiv = Union({}, r, "arxiv")
  BY DEF Merged
<1>4. r.arxiv # None => Union({}, r, "arxiv") = r.arxiv
  <2>1. Known({}, r, "arxiv") = {r.arxiv} \ {None}
    BY DEF Known, Matching
  <2>2. QED
    BY <2>1 DEF Union
<1>5. QED
  BY <1>2, <1>3, <1>4

LEMMA InitIsSound == Init => CorpusInv
<1> SUFFICES ASSUME Init PROVE CorpusInv
  OBVIOUS
<1>1. Before \in SUBSET Records /\ Limit \in Nat
  BY CorpusAssumption
<1>2. Table(EarlierPapers)
  <2>1. IsFiniteSet(EarlierPapers)
    <3>1. IsFiniteSet(Before)
      BY <1>1, FS_Subset, CorpusAssumption
    <3>2. EarlierPapers = {Merged({}, r) : r \in Before}
      BY DEF EarlierPapers
    <3> DEFINE f == [r \in Before |-> Merged({}, r)]
    <3>3. f \in Surjection(Before, EarlierPapers)
      BY <3>2 DEF Surjection
    <3> HIDE DEF f
    <3>4. QED
      BY <3>1, <3>3, FS_Surjection
  <2>2. \A p \in EarlierPapers : Named(p) /\ p.id \in Nat
    BY <1>1, FirstRow DEF EarlierPapers
  <2>3. QED
    BY <2>1, <2>2, BeforeAssumption DEF Table
<1>3. Keyed(EarlierPapers)
  BY <1>1, FirstRow DEF EarlierPapers, Keyed, Identity
<1>4. DOMAIN corpus = {} /\ embedded = {} /\ local = {}
  BY DEF Init
<1>5. PapersInv
  BY <1>2, <1>3, <1>4 DEF Init, PapersInv, Sound
<1>6. RanksInv
  <2>1. RanksIn(corpus) = 1 .. 0
    BY <1>4 DEF RanksIn
  <2>2. QED
    BY <1>1, <2>1 DEF RanksInv
<1>7. NothingIsLost /\ RowsInv
  BY DEF Init, NothingIsLost, RowsInv
<1>8. WorkersInv
  BY DEF Init, WorkersInv, Idle, GoodWorker, Resting, Busy
<1>9. QED
  BY <1>5, <1>6, <1>7, <1>8 DEF CorpusInv

----------------------------------------------------------------------------
(* Steps of a process *)

PagesGrow == \A week \in Weeks : pages[week] \subseteq pages'[week]

\* A worker's reading of its row stays right.
LEMMA ReadingsStay ==
    ASSUME NEW x, GoodWorker(x), PagesGrow
    PROVE  GoodWorker(x)'
  BY DEF GoodWorker, PagesGrow

LEMMA WorkerSteps ==
    ASSUME WorkersInv, PagesGrow, NEW w \in Workers, NEW x, GoodWorker(x)',
           worker' = [worker EXCEPT ![w] = x]
    PROVE  WorkersInv'
<1>1. worker' = [v \in Workers |-> IF v = w THEN x ELSE worker[v]]
  BY DEF WorkersInv
<1>2. \A v \in Workers : worker'[v] = IF v = w THEN x ELSE worker[v]
  BY <1>1
<1>3. ASSUME NEW v \in Workers PROVE GoodWorker(worker[v])'
  <2>1. CASE v = w
    <3>1. worker'[v] = x
      BY <1>2, <2>1
    <3>2. QED
      BY <3>1 DEF GoodWorker
  <2>2. CASE v # w
    <3>1. PICK y : y = worker[v]
      OBVIOUS
    <3>2. GoodWorker(y)
      BY <3>1 DEF WorkersInv
    <3>3. GoodWorker(y)'
      BY <3>2, ReadingsStay
    <3>4. worker'[v] = y
      BY <1>2, <2>2, <3>1
    <3>5. QED
      BY <3>3, <3>4 DEF GoodWorker
  <2>3. QED
    BY <2>1, <2>2
<1>4. worker' = [v \in Workers |-> worker'[v]]
  BY <1>1
<1>5. QED
  BY <1>3, <1>4 DEF WorkersInv

\* A step that changes one worker only.
LEMMA LocalStep ==
    ASSUME CorpusInv, UNCHANGED <<runs, stored>>, NEW w \in Workers, NEW x, GoodWorker(x),
           worker' = [worker EXCEPT ![w] = x]
    PROVE  CorpusInv'
<1>1. PagesGrow
  BY DEF stored, PagesGrow
<1>2. GoodWorker(x)'
  BY <1>1, ReadingsStay
<1>3. WorkersInv'
  BY <1>1, <1>2, WorkerSteps DEF CorpusInv
<1>4. PapersInv' /\ RanksInv' /\ NothingIsLost'
  BY DEF CorpusInv, stored, PapersInv, RanksInv, NothingIsLost
<1>5. RowsInv'
  BY DEF CorpusInv, stored, RowsInv, GoodRow
<1>6. QED
  BY <1>3, <1>4, <1>5 DEF CorpusInv

LEMMA OneWorker ==
    ASSUME WorkersInv, NEW w \in Workers
    PROVE  /\ GoodWorker(worker[w])
           /\ \A at : Ends(w, at) => \E x : /\ worker' = [worker EXCEPT ![w] = x]
                          /\ x = [at |-> at, week |-> None, run |-> None, best |-> <<>>]
           /\ \A at : Moves(w, at) => \E x : /\ worker' = [worker EXCEPT ![w] = x]
                          /\ x = [at |-> at, week |-> worker[w].week,
                                  run |-> worker[w].run, best |-> worker[w].best]
<1>1. GoodWorker(worker[w])
  BY DEF WorkersInv
<1>2. ASSUME NEW at, Ends(w, at)
      PROVE  \E x : /\ worker' = [worker EXCEPT ![w] = x]
                    /\ x = [at |-> at, week |-> None, run |-> None, best |-> <<>>]
  <2>1. [Idle EXCEPT !.at = at] = [at |-> at, week |-> None, run |-> None, best |-> <<>>]
    BY DEF Idle
  <2>2. worker' = [worker EXCEPT ![w] = [Idle EXCEPT !.at = at]]
    BY <1>2 DEF Ends
  <2>3. QED
    BY <2>1, <2>2
<1>3. ASSUME NEW at, Moves(w, at)
      PROVE  \E x : /\ worker' = [worker EXCEPT ![w] = x]
                    /\ x = [at |-> at, week |-> worker[w].week,
                            run |-> worker[w].run, best |-> worker[w].best]
  <2>1. [worker[w] EXCEPT !.at = at] = [at |-> at, week |-> worker[w].week,
                                        run |-> worker[w].run, best |-> worker[w].best]
    BY <1>1 DEF GoodWorker
  <2>2. worker' = [worker EXCEPT ![w] = [worker[w] EXCEPT !.at = at]]
    BY <1>3 DEF Moves
  <2>3. QED
    BY <2>1, <2>2
<1>4. QED
  BY <1>1, <1>2, <1>3

\* A step that ends a process.
LEMMA EndsKeep ==
    ASSUME CorpusInv, UNCHANGED <<runs, stored>>, NEW w \in Workers, NEW at \in Resting,
           Ends(w, at)
    PROVE  CorpusInv'
<1>1. PICK x : /\ worker' = [worker EXCEPT ![w] = x]
               /\ x = [at |-> at, week |-> None, run |-> None, best |-> <<>>]
  BY OneWorker DEF CorpusInv
<1>2. GoodWorker(x)
  BY <1>1 DEF GoodWorker, Resting, Refusals, Busy
<1>3. QED
  BY <1>1, <1>2, LocalStep

LEMMA WithBest ==
    ASSUME NEW x, GoodWorker(x), NEW at, NEW best
    PROVE  [x EXCEPT !.at = at, !.best = best] =
              [at |-> at, week |-> x.week, run |-> x.run, best |-> best]
<1>1. [x EXCEPT !.at = at, !.best = best] = [[x EXCEPT !.at = at] EXCEPT !.best = best]
  OBVIOUS
<1>2. [x EXCEPT !.at = at] = [at |-> at, week |-> x.week, run |-> x.run, best |-> x.best]
  BY DEF GoodWorker
<1>3. PICK y : y = [at |-> at, week |-> x.week, run |-> x.run, best |-> x.best]
  OBVIOUS
<1>4. [y EXCEPT !.best = best] = [at |-> at, week |-> x.week, run |-> x.run, best |-> best]
  BY <1>3
<1>5. QED
  BY <1>1, <1>2, <1>3, <1>4

LEMMA WithRun ==
    ASSUME NEW x, GoodWorker(x), NEW at, NEW run
    PROVE  [x EXCEPT !.at = at, !.run = run] =
              [at |-> at, week |-> x.week, run |-> run, best |-> x.best]
<1>1. [x EXCEPT !.at = at, !.run = run] = [[x EXCEPT !.at = at] EXCEPT !.run = run]
  OBVIOUS
<1>2. [x EXCEPT !.at = at] = [at |-> at, week |-> x.week, run |-> x.run, best |-> x.best]
  BY DEF GoodWorker
<1>3. PICK y : y = [at |-> at, week |-> x.week, run |-> x.run, best |-> x.best]
  OBVIOUS
<1>4. [y EXCEPT !.run = run] = [at |-> at, week |-> x.week, run |-> run, best |-> x.best]
  BY <1>3
<1>5. QED
  BY <1>1, <1>2, <1>3, <1>4

LEMMA BeginKeeps ==
    ASSUME CorpusInv, NEW w \in Workers, NEW week \in Weeks, Begin(w, week)
    PROVE  CorpusInv'
<1>1. PICK x : /\ worker' = [worker EXCEPT ![w] = x]
               /\ x = [at |-> IF Status(week) = "RUNNING" THEN "paging" ELSE "starting",
                       week |-> week, run |-> runs[week], best |-> <<>>]
  BY DEF Begin
<1>2. Status(week) # "COMPLETE" /\ UNCHANGED <<runs, stored>>
  BY DEF Begin
<1>3. runs[week] # None => GoodRow(week, runs[week])
  BY DEF CorpusInv, RowsInv
<1>4. GoodWorker(x)
  <2>1. CASE runs[week] = None
    BY <1>1, <2>1, NoneIsNoBackfill DEF Status, Statuses, GoodWorker, Busy, Resting, Refusals
  <2>2. CASE runs[week] # None
    BY <1>1, <1>2, <1>3, <2>2 DEF Status, GoodRow, GoodWorker, Busy, Resting, Refusals
  <2>3. QED
    BY <2>1, <2>2
<1>5. QED
  BY <1>1, <1>2, <1>4, LocalStep

\* The papers a process chose are distinct papers of the table.
LEMMA ChooseKeeps ==
    ASSUME CorpusInv, NEW w \in Workers, Choose(w)
    PROVE  CorpusInv'
<1>1. PICK matched \in SUBSET Usable(worker[w].week) :
         \E best \in SetToSeqs(matched) :
            /\ Cardinality(matched) <= Limit
            /\ worker' = [worker EXCEPT ![w].at = "finishing", ![w].best = best]
  BY DEF Choose
<1>2. PICK best \in SetToSeqs(matched) :
         /\ Cardinality(matched) <= Limit
         /\ worker' = [worker EXCEPT ![w].at = "finishing", ![w].best = best]
  BY <1>1
<1>3. worker[w].at = "paging" /\ UNCHANGED <<runs, stored>>
  BY DEF Choose
<1>4. Table(papers)
  BY DEF CorpusInv, PapersInv, Sound
<1>5. matched \subseteq Nat /\ IsFiniteSet(matched)
  <2>1. matched \subseteq Ids(papers)
    BY DEF Usable, Ids
  <2>2. Ids(papers) \subseteq Nat
    BY <1>4 DEF Table, Ids
  <2>3. IsFiniteSet(Ids(papers))
    <3> DEFINE f == [p \in papers |-> p.id]
    <3>1. f \in Surjection(papers, Ids(papers))
      BY DEF Surjection, Ids
    <3> HIDE DEF f
    <3>2. QED
      BY <1>4, <3>1, FS_Surjection DEF Table
  <2>4. QED
    BY <2>1, <2>2, <2>3, FS_Subset
<1>6. Choice(best)
  <2>1. Cardinality(matched) \in Nat
    BY <1>5, FS_CardinalityType
  <2>2. /\ best \in [1 .. Cardinality(matched) -> matched]
        /\ \A i, j \in 1 .. Cardinality(matched) : i # j => best[i] # best[j]
    BY <1>2 DEF SetToSeqs
  <2>3. best \in Seq(Nat) /\ Len(best) = Cardinality(matched)
    <3>1. best \in Seq(matched)
      BY <2>1, <2>2, SeqDef
    <3>2. Len(best) = Cardinality(matched)
      BY <2>1, <2>2, <3>1, LenProperties
    <3>3. QED
      BY <1>5, <3>1, <3>2, SeqMonotonic
  <2>4. QED
    BY <1>2, <2>2, <2>3 DEF Choice
<1>7. GoodWorker(worker[w])
  BY OneWorker DEF CorpusInv
<1>8. PICK x : /\ worker' = [worker EXCEPT ![w] = x]
               /\ x = [at |-> "finishing", week |-> worker[w].week,
                       run |-> worker[w].run, best |-> best]
  <2>1. [worker[w] EXCEPT !.at = "finishing", !.best = best] =
            [at |-> "finishing", week |-> worker[w].week, run |-> worker[w].run, best |-> best]
    BY <1>7, WithBest
  <2>2. worker' = [worker EXCEPT ![w] = [worker[w] EXCEPT !.at = "finishing", !.best = best]]
    BY <1>2
  <2>3. QED
    BY <2>1, <2>2
<1>9. GoodWorker(x)
  BY <1>3, <1>6, <1>7, <1>8 DEF GoodWorker, Busy, Resting, Refusals
<1>10. QED
  BY <1>3, <1>8, <1>9, LocalStep

LEMMA RepeatPageKeeps ==
    ASSUME CorpusInv, NEW w \in Workers, NEW answer \in Answers, RepeatPage(w, answer)
    PROVE  CorpusInv'
<1>1. GoodWorker(worker[w])
  BY OneWorker DEF CorpusInv
<1>2. worker[w].at = "paging" /\ UNCHANGED <<runs, stored>>
  BY DEF RepeatPage, Asked
<1>3. worker[w].week \in Weeks /\ runs[worker[w].week] # None
  BY <1>1, <1>2, NoneIsNoBackfill DEF RepeatPage, Status, Statuses, GoodWorker, Busy
<1>4. GoodRow(worker[w].week, runs[worker[w].week])
  BY <1>3 DEF CorpusInv, RowsInv
<1>5. PICK x : /\ worker' = [worker EXCEPT ![w] = x]
               /\ x = [at |-> "paging", week |-> worker[w].week,
                       run |-> runs[worker[w].week], best |-> worker[w].best]
  <2>1. [worker[w] EXCEPT !.run = runs[worker[w].week]] =
            [at |-> "paging", week |-> worker[w].week,
             run |-> runs[worker[w].week], best |-> worker[w].best]
    BY <1>1, <1>2 DEF GoodWorker
  <2>2. worker' = [worker EXCEPT ![w] = [worker[w] EXCEPT !.run = runs[worker[w].week]]]
    BY DEF RepeatPage
  <2>3. QED
    BY <2>1, <2>2
<1>6. GoodWorker(x)
  BY <1>3, <1>4, <1>5 DEF GoodRow, GoodWorker, Busy, Resting, Refusals
<1>7. QED
  BY <1>2, <1>5, <1>6, LocalStep

LEMMA AmbiguousPageKeeps ==
    ASSUME CorpusInv, NEW w \in Workers, NEW answer \in Answers, AmbiguousPage(w, answer)
    PROVE  CorpusInv'
<1>1. GoodWorker(worker[w])
  BY OneWorker DEF CorpusInv
<1>2. worker[w].at = "paging" /\ UNCHANGED stored /\ Moves(w, "failing")
  BY DEF AmbiguousPage, Asked
<1>3. runs' = runs
  <2>1. runs' = [runs EXCEPT ![worker[w].week] = runs[worker[w].week]]
    BY DEF AmbiguousPage, RolledBack
  <2>2. QED
    BY <2>1 DEF CorpusInv, RowsInv
<1>4. PICK x : /\ worker' = [worker EXCEPT ![w] = x]
               /\ x = [at |-> "failing", week |-> worker[w].week,
                       run |-> worker[w].run, best |-> worker[w].best]
  BY <1>2, OneWorker DEF CorpusInv
<1>5. GoodWorker(x)
  BY <1>1, <1>2, <1>4 DEF GoodWorker, Busy, Resting, Refusals
<1>6. QED
  BY <1>2, <1>3, <1>4, <1>5, LocalStep

LEMMA FaultKeeps ==
    ASSUME CorpusInv, NEW w \in Workers, Fault(w)
    PROVE  CorpusInv'
<1>1. GoodWorker(worker[w])
  BY OneWorker DEF CorpusInv
<1>2. worker[w].at \in Busy /\ UNCHANGED <<runs, stored>> /\ Moves(w, "failing")
  BY DEF Fault, Busy
<1>3. PICK x : /\ worker' = [worker EXCEPT ![w] = x]
               /\ x = [at |-> "failing", week |-> worker[w].week,
                       run |-> worker[w].run, best |-> worker[w].best]
  BY <1>2, OneWorker DEF CorpusInv
<1>4. GoodWorker(x)
  BY <1>1, <1>2, <1>3 DEF GoodWorker, Busy, Resting, Refusals
<1>5. QED
  BY <1>2, <1>3, <1>4, LocalStep

LEMMA ReadIdentitiesKeeps ==
    ASSUME CorpusInv, NEW w \in Workers, ReadIdentities(w)
    PROVE  CorpusInv'
<1> DEFINE asked == SetToSortSeq(ArxivOf(Ranked), <)
<1>1. GoodWorker(worker[w])
  BY OneWorker DEF CorpusInv
<1>2. PICK best : worker' = [worker EXCEPT ![w].at = "checking", ![w].best = best]
  <2>1. worker' = [worker EXCEPT ![w].at = "checking", ![w].best = asked]
    BY DEF ReadIdentities
  <2> HIDE DEF asked
  <2>2. QED
    BY <2>1
<1> HIDE DEF asked
<1>3. UNCHANGED <<runs, stored>>
  BY DEF ReadIdentities
<1>4. PICK x : /\ worker' = [worker EXCEPT ![w] = x]
               /\ x = [at |-> "checking", week |-> worker[w].week,
                       run |-> worker[w].run, best |-> best]
  <2>1. [worker[w] EXCEPT !.at = "checking", !.best = best] =
            [at |-> "checking", week |-> worker[w].week,
             run |-> worker[w].run, best |-> best]
    BY <1>1, WithBest
  <2>2. worker' = [worker EXCEPT ![w] =
                     [worker[w] EXCEPT !.at = "checking", !.best = best]]
    BY <1>2
  <2>3. QED
    BY <2>1, <2>2
<1>5. GoodWorker(x)
  BY <1>1, <1>4 DEF GoodWorker, Busy, Resting, Refusals
<1>6. QED
  BY <1>3, <1>4, <1>5, LocalStep

LEMMA ReadVersionsKeeps ==
    ASSUME CorpusInv, NEW w \in Workers, ReadVersions(w)
    PROVE  CorpusInv'
<1>1. GoodWorker(worker[w])
  BY OneWorker DEF CorpusInv
<1>2. /\ worker[w].at = "checking" /\ UNCHANGED <<runs, stored>>
      /\ Ends(w, "idle") \/ Moves(w, "materializing")
  BY DEF ReadVersions
<1>3. CASE Ends(w, "idle")
  BY <1>2, <1>3, EndsKeep DEF Resting
<1>4. CASE Moves(w, "materializing")
  <2>1. PICK x : /\ worker' = [worker EXCEPT ![w] = x]
                 /\ x = [at |-> "materializing", week |-> worker[w].week,
                         run |-> worker[w].run, best |-> worker[w].best]
    BY <1>4, OneWorker DEF CorpusInv
  <2>2. GoodWorker(x)
    BY <1>1, <2>1 DEF GoodWorker, Busy, Resting, Refusals
  <2>3. QED
    BY <1>2, <2>1, <2>2, LocalStep
<1>5. QED
  BY <1>2, <1>3, <1>4

----------------------------------------------------------------------------
(* Steps that change a backfill's row *)

LEMMA RowSteps ==
    ASSUME RowsInv, PagesGrow, DOMAIN pages' = Weeks, pages' = [week \in Weeks |-> pages'[week]],
           NEW week \in Weeks, NEW row, GoodRow(week, row)',
           runs' = [runs EXCEPT ![week] = row]
    PROVE  RowsInv'
<1>1. runs' = [k \in Weeks |-> IF k = week THEN row ELSE runs[k]]
  BY DEF RowsInv
<1>2. ASSUME NEW k \in Weeks, runs'[k] # None PROVE GoodRow(k, runs[k])'
  <2>1. CASE k = week
    BY <1>1, <2>1 DEF GoodRow
  <2>2. CASE k # week
    <3>1. runs'[k] = runs[k] /\ GoodRow(k, runs[k])
      BY <1>1, <1>2, <2>2 DEF RowsInv
    <3>2. pages[k] \subseteq pages'[k]
      BY DEF PagesGrow
    <3>3. QED
      BY <3>1, <3>2 DEF GoodRow
  <2>3. QED
    BY <2>1, <2>2
<1>3. DOMAIN runs' = Weeks /\ runs' = [k \in Weeks |-> runs'[k]]
  BY <1>1
<1>4. QED
  BY <1>2, <1>3 DEF RowsInv

\* The COMPLETE backfill that chose the ranks is left alone.
LEMMA RanksStay ==
    ASSUME RanksInv, RowsInv, NEW week \in Weeks, NEW row, runs' = [runs EXCEPT ![week] = row],
           runs[week] = None \/ runs[week].status # "COMPLETE",
           RanksIn(corpus') = RanksIn(corpus)
    PROVE  RanksInv'
<1>1. PICK n \in 0 .. Limit :
         /\ RanksIn(corpus) = 1 .. n
         /\ n > 0 => \E k \in Weeks : /\ runs[k] # None /\ runs[k].status = "COMPLETE"
                                      /\ n <= runs[k].representatives
  BY DEF RanksInv
<1>2. \A k \in Weeks : k # week => runs'[k] = runs[k]
  BY DEF RowsInv
<1>3. n > 0 => \E k \in Weeks : /\ runs'[k] # None /\ runs'[k].status = "COMPLETE"
                                /\ n <= runs'[k].representatives
  BY <1>1, <1>2
<1>4. RanksIn(corpus)' = 1 .. n
  BY <1>1 DEF RanksIn
<1>5. QED
  BY <1>3, <1>4 DEF RanksInv

LEMMA RowIsNone ==
    ASSUME RowsInv, NEW week \in Weeks
    PROVE  /\ Status(week) \notin Statuses <=> runs[week] = None
           /\ Status(week) = None <=> runs[week] = None
           /\ Status(week) \in Statuses =>
                 Status(week) = runs[week].status /\ GoodRow(week, runs[week])
<1>1. runs[week] # None => GoodRow(week, runs[week]) /\ runs[week].status \in Statuses
  BY DEF RowsInv, GoodRow, Backfills
<1>2. QED
  BY <1>1, NoneIsNoBackfill DEF Status

LEMMA StartKeeps ==
    ASSUME CorpusInv, NEW w \in Workers, Start(w)
    PROVE  CorpusInv'
<1> DEFINE week == worker[w].week
           own == IF worker[w].run = None THEN Fresh
                  ELSE [worker[w].run EXCEPT !.status = "RUNNING"]
           row == IF Reopens(week) THEN own ELSE runs[week]
<1>1. RowsInv /\ WorkersInv /\ RanksInv /\ GoodWorker(worker[w])
  BY OneWorker DEF CorpusInv
<1>2. week \in Weeks
  BY <1>1 DEF Start, GoodWorker, Busy
<1>3. /\ runs' = [runs EXCEPT ![week] = row] /\ UNCHANGED stored
      /\ worker' = [worker EXCEPT ![w].at = "paging", ![w].run = row]
      /\ worker[w].at = "starting"
  BY DEF Start
<1>4. /\ own \in Backfills /\ own.status = "RUNNING" /\ own.representatives = 0
      /\ 1 .. own.cursor \subseteq pages[week]
  <2>1. CASE worker[w].run = None
    <3>1. own = Fresh
      BY <2>1
    <3>2. Fresh \in Backfills /\ Fresh.cursor = 0 /\ Fresh.status = "RUNNING"
          /\ Fresh.representatives = 0
      BY CorpusAssumption DEF Fresh, Backfills, Statuses
    <3> HIDE DEF own
    <3>3. 1 .. own.cursor = {}
      BY <3>1, <3>2
    <3>4. QED
      BY <3>1, <3>2, <3>3
  <2>2. CASE worker[w].run # None
    <3>1. PICK run \in Backfills :
             /\ run = worker[w].run /\ run.representatives = 0
             /\ 1 .. run.cursor \subseteq pages[week]
      BY <1>1, <1>3, <2>2 DEF GoodWorker, Busy
    <3>2. own = [run EXCEPT !.status = "RUNNING"]
      BY <2>2, <3>1
    <3> HIDE DEF own
    <3>3. own = [status |-> "RUNNING", cursor |-> run.cursor, discovered |-> run.discovered,
                 persisted |-> run.persisted, representatives |-> run.representatives]
      BY <3>2 DEF Backfills
    <3>4. QED
      BY <3>1, <3>3 DEF Backfills, Statuses
  <2>3. QED
    BY <2>1, <2>2
<1>5. GoodRow(week, row) /\ row # None
  <2>1. CASE Reopens(week)
    BY <1>4, <2>1, NoneIsNoBackfill DEF GoodRow
  <2>2. CASE ~Reopens(week)
    <3>1. runs[week] # None
      BY <1>1, <1>2, <2>2, RowIsNone DEF Reopens
    <3>2. QED
      BY <1>1, <1>2, <2>2, <3>1 DEF RowsInv
  <2>3. QED
    BY <2>1, <2>2
<1> HIDE DEF own
<1>6. \/ runs[week] = None \/ runs[week].status # "COMPLETE"
      \/ runs' = runs
  <2>1. CASE Reopens(week)
    <3>1. runs[week] = None \/ runs[week].status = "FAILED"
      BY <1>1, <1>2, <2>1, RowIsNone DEF Reopens, Status
    <3>2. QED
      BY <3>1
  <2>2. CASE ~Reopens(week)
    BY <1>1, <1>3, <2>2 DEF RowsInv
  <2>3. QED
    BY <2>1, <2>2
<1> HIDE DEF row
<1>7. PagesGrow /\ pages' = pages /\ DOMAIN pages = Weeks
      /\ pages = [k \in Weeks |-> pages[k]]
  BY <1>1, <1>3 DEF stored, PagesGrow, RowsInv
<1>8. RowsInv'
  <2>1. PICK k \in Weeks : k = week
    BY <1>2
  <2>2. PICK new : new = row
    OBVIOUS
  <2>3. GoodRow(k, new) /\ runs' = [runs EXCEPT ![k] = new]
    BY <1>3, <1>5, <2>1, <2>2
  <2>4. GoodRow(k, new)'
    BY <1>7, <2>3 DEF GoodRow
  <2>5. QED
    BY <1>1, <1>7, <2>3, <2>4, RowSteps
<1>9. RanksInv'
  <2>1. corpus' = corpus
    BY <1>3 DEF stored
  <2>2. CASE runs' = runs
    BY <1>1, <2>1, <2>2 DEF RanksInv
  <2>3. CASE runs[week] = None \/ runs[week].status # "COMPLETE"
    <3> HIDE DEF week
    <3>1. QED
      BY <1>1, <1>2, <1>3, <2>1, <2>3, RanksStay
  <2>4. QED
    BY <1>6, <2>2, <2>3
<1>10. WorkersInv'
  <2>1. PICK x : /\ worker' = [worker EXCEPT ![w] = x]
                 /\ x = [at |-> "paging", week |-> week, run |-> row, best |-> worker[w].best]
    <3>1. worker' = [worker EXCEPT ![w] = [worker[w] EXCEPT !.at = "paging", !.run = row]]
      BY <1>3
    <3>2. [worker[w] EXCEPT !.at = "paging", !.run = row] =
             [at |-> "paging", week |-> week, run |-> row, best |-> worker[w].best]
      BY <1>1, WithRun
    <3>3. QED
      BY <3>1, <3>2
  <2>2. GoodWorker(x)'
    BY <1>2, <1>5, <1>7, <2>1 DEF GoodWorker, GoodRow, Resting, Busy
  <2>3. QED
    BY <1>1, <1>7, <2>1, <2>2, WorkerSteps
<1>11. PapersInv' /\ NothingIsLost'
  BY <1>3 DEF CorpusInv, stored, PapersInv, NothingIsLost
<1>12. QED
  BY <1>8, <1>9, <1>10, <1>11 DEF CorpusInv

LEMMA FailKeeps ==
    ASSUME CorpusInv, NEW w \in Workers, Fail(w)
    PROVE  CorpusInv'
<1> DEFINE week == worker[w].week
<1>1. RowsInv /\ WorkersInv /\ RanksInv /\ GoodWorker(worker[w])
  BY OneWorker DEF CorpusInv
<1>2. week \in Weeks
  BY <1>1 DEF Fail, GoodWorker, Busy
<1>3. CASE Status(week) # "RUNNING"
  <2>1. Ends(w, "superseded") /\ UNCHANGED <<runs, stored>>
    BY <1>3 DEF Fail
  <2>2. QED
    BY <2>1, EndsKeep DEF Resting, Refusals
<1>4. CASE Status(week) = "RUNNING"
  <2>1. PICK row : row = [runs[week] EXCEPT !.status = "FAILED"]
    OBVIOUS
  <2>2. runs' = [runs EXCEPT ![week] = row] /\ Ends(w, "idle") /\ UNCHANGED stored
    BY <1>4, <2>1 DEF Fail
  <2>3. runs[week].status = "RUNNING" /\ GoodRow(week, runs[week])
    BY <1>1, <1>2, <1>4, RowIsNone DEF Statuses
  <2>4. GoodRow(week, row)
    <3>1. PICK old \in Backfills : old = runs[week]
      BY <2>3 DEF GoodRow
    <3>2. row = [status |-> "FAILED", cursor |-> old.cursor, discovered |-> old.discovered,
                 persisted |-> old.persisted, representatives |-> old.representatives]
      BY <2>1, <3>1 DEF Backfills
    <3>3. QED
      BY <2>3, <3>1, <3>2 DEF GoodRow, Backfills, Statuses
  <2>5. PagesGrow /\ pages' = pages /\ corpus' = corpus
    BY <2>2 DEF stored, PagesGrow
  <2> HIDE DEF week
  <2>6. RowsInv'
    BY <1>1, <1>2, <2>2, <2>4, <2>5, RowSteps DEF GoodRow, RowsInv
  <2>7. RanksInv'
    BY <1>1, <1>2, <2>2, <2>3, <2>5, RanksStay
  <2>8. WorkersInv'
    <3>1. PICK x : /\ worker' = [worker EXCEPT ![w] = x]
                   /\ x = [at |-> "idle", week |-> None, run |-> None, best |-> <<>>]
      BY <1>1, <2>2, OneWorker
    <3>2. GoodWorker(x)'
      BY <3>1 DEF GoodWorker, Resting, Refusals, Busy
    <3>3. QED
      BY <1>1, <2>5, <3>1, <3>2, WorkerSteps
  <2>9. PapersInv' /\ NothingIsLost'
    BY <2>2 DEF CorpusInv, stored, PapersInv, NothingIsLost
  <2>10. QED
    BY <2>6, <2>7, <2>8, <2>9 DEF CorpusInv
<1>5. QED
  BY <1>3, <1>4

----------------------------------------------------------------------------
(* Steps that change the corpus *)

LEMMA RanksAreTheChoice ==
    ASSUME NEW best, Choice(best), Present(best), DOMAIN best = 1 .. Len(best)
    PROVE  /\ DOMAIN Ranks(best) = DOMAIN corpus
           /\ \A i \in 1 .. Len(best) :
                 best[i] \in DOMAIN corpus /\ Ranks(best)[best[i]] = i
           /\ \A id \in DOMAIN corpus :
                 \/ Ranks(best)[id] = 0
                 \/ \E i \in 1 .. Len(best) : id = best[i] /\ Ranks(best)[id] = i
<1>1. \A id \in DOMAIN corpus :
         Ranks(best)[id] = IF \E i \in DOMAIN best : best[i] = id
                           THEN CHOOSE i \in DOMAIN best : best[i] = id ELSE 0
  BY DEF Ranks
<1>2. ASSUME NEW i \in 1 .. Len(best)
      PROVE  best[i] \in DOMAIN corpus /\ Ranks(best)[best[i]] = i
  <2>1. best[i] \in DOMAIN corpus
    BY DEF Present
  <2>2. (CHOOSE j \in DOMAIN best : best[j] = best[i]) = i
    BY DEF Choice
  <2>3. QED
    BY <1>1, <2>1, <2>2
<1>3. ASSUME NEW id \in DOMAIN corpus, Ranks(best)[id] # 0
      PROVE  \E i \in 1 .. Len(best) : id = best[i] /\ Ranks(best)[id] = i
  <2>1. PICK i \in DOMAIN best : best[i] = id
    BY <1>1, <1>3
  <2>2. QED
    BY <1>2, <2>1
<1>4. QED
  BY <1>2, <1>3 DEF Ranks

LEMMA FinalizeKeeps ==
    ASSUME CorpusInv, NEW w \in Workers, Finalize(w)
    PROVE  CorpusInv'
<1>1. RowsInv /\ WorkersInv /\ PapersInv /\ GoodWorker(worker[w])
  BY OneWorker DEF CorpusInv
<1>2a. PICK week \in Weeks : week = worker[w].week
  BY <1>1 DEF Finalize, GoodWorker, Busy
<1>2b. PICK best : best = worker[w].best
  OBVIOUS
<1>2. week = worker[w].week /\ best = worker[w].best /\ Choice(best)
  BY <1>1, <1>2a, <1>2b DEF Finalize, GoodWorker, Busy
<1>3. PICK row : row = [runs[week] EXCEPT !.status = "COMPLETE", !.representatives = Len(best)]
  OBVIOUS
<1>4. /\ Exhausted(week) /\ Present(best) /\ Len(best) <= runs[week].persisted
      /\ corpus' = Ranks(best) /\ Ends(w, "idle")
      /\ UNCHANGED <<papers, embedded, local, pages, kept>>
      /\ runs' = [runs EXCEPT ![week].status = "COMPLETE", ![week].representatives = Len(best)]
  BY <1>2 DEF Finalize
<1>5. runs' = [runs EXCEPT ![week] = row]
  BY <1>3, <1>4
<1>6. DOMAIN best = 1 .. Len(best) /\ Len(best) \in 0 .. Limit
  <2>1. Limit \in Nat
    BY CorpusAssumption
  <2>2. QED
    BY <1>2, <2>1, LenProperties DEF Choice
<1>7. /\ DOMAIN corpus' = DOMAIN corpus
      /\ \A i \in 1 .. Len(best) : best[i] \in DOMAIN corpus /\ corpus'[best[i]] = i
      /\ \A id \in DOMAIN corpus :
            \/ corpus'[id] = 0
            \/ \E i \in 1 .. Len(best) : id = best[i] /\ corpus'[id] = i
  BY <1>2, <1>4, <1>6, RanksAreTheChoice
<1>8. PapersInv'
  <2>1. /\ Table(papers)' /\ Keyed(papers)'
        /\ (DOMAIN corpus \cup embedded \subseteq Ids(papers) /\ local \subseteq DOMAIN corpus)'
    <3>1. papers' = papers /\ embedded' = embedded /\ local' = local
      BY <1>4
    <3>2. QED
      BY <1>1, <1>7, <3>1 DEF PapersInv, Sound, Keyed
  <2>2. (\A id \in DOMAIN corpus : corpus[id] \in 0 .. Limit)'
    <3>1. 0 \in 0 .. Limit /\ \A i \in 1 .. Len(best) : i \in 0 .. Limit
      BY <1>6, CorpusAssumption
    <3>2. QED
      BY <1>7, <3>1
  <2>3. (\A a, b \in DOMAIN corpus : corpus[a] = corpus[b] /\ corpus[a] > 0 => a = b)'
    BY <1>7
  <2>4. (\A id \in DOMAIN corpus :
            corpus[id] > 0 \/ id \in local => RowOf(papers, id).arxiv # None)'
    <3>1. ASSUME NEW id \in DOMAIN corpus, corpus'[id] > 0
          PROVE  RowOf(papers, id).arxiv # None
      BY <1>4, <1>6, <1>7, <3>1 DEF Present
    <3>2. ASSUME NEW id \in DOMAIN corpus, id \in local
          PROVE  RowOf(papers, id).arxiv # None
      BY <1>1, <3>2 DEF PapersInv, Sound
    <3>3. papers' = papers /\ local' = local
      BY <1>4
    <3>4. QED
      BY <1>7, <3>1, <3>2, <3>3
  <2>5. QED
    BY <2>1, <2>2, <2>3, <2>4 DEF PapersInv, Sound
<1>9. GoodRow(week, row) /\ row.status = "COMPLETE" /\ row.representatives = Len(best)
      /\ row # None
  <2>1. runs[week] # None /\ GoodRow(week, runs[week])
    BY <1>1, <1>4, NoneIsNoBackfill, RowIsNone DEF Exhausted, Statuses
  <2>2. PICK old \in Backfills : old = runs[week]
    BY <2>1 DEF GoodRow
  <2>3. row = [status |-> "COMPLETE", cursor |-> old.cursor, discovered |-> old.discovered,
               persisted |-> old.persisted, representatives |-> Len(best)]
    <3>1. [old EXCEPT !.status = "COMPLETE", !.representatives = Len(best)] =
             [[old EXCEPT !.status = "COMPLETE"] EXCEPT !.representatives = Len(best)]
      OBVIOUS
    <3>2. PICK mid : mid = [status |-> "COMPLETE", cursor |-> old.cursor,
                            discovered |-> old.discovered, persisted |-> old.persisted,
                            representatives |-> old.representatives]
      OBVIOUS
    <3>3. [old EXCEPT !.status = "COMPLETE"] = mid
      BY <3>2 DEF Backfills
    <3>4. QED
      BY <1>3, <2>2, <3>1, <3>2, <3>3
  <2>4. row \in Backfills
    BY <1>6, <2>3 DEF Backfills, Statuses
  <2>5. QED
    BY <1>4, <2>1, <2>2, <2>3, <2>4, NoneIsNoBackfill DEF GoodRow, Exhausted
<1>10. PagesGrow /\ pages' = pages
  BY <1>4 DEF PagesGrow
<1>11. RowsInv'
  <2>1. GoodRow(week, row)'
    BY <1>9, <1>10 DEF GoodRow
  <2>2. QED
    BY <1>1, <1>5, <1>10, <2>1, RowSteps DEF RowsInv
<1>12. RanksInv'
  <2>1. RanksIn(corpus') = 1 .. Len(best)
    <3>1. ASSUME NEW n \in RanksIn(corpus') PROVE n \in 1 .. Len(best)
      <4>1. PICK id \in DOMAIN corpus' : corpus'[id] = n /\ corpus'[id] > 0
        BY DEF RanksIn
      <4>2. QED
        BY <1>7, <4>1
    <3>2. ASSUME NEW n \in 1 .. Len(best) PROVE n \in RanksIn(corpus')
      <4>1. best[n] \in DOMAIN corpus' /\ corpus'[best[n]] = n /\ n > 0
        BY <1>6, <1>7
      <4>2. QED
        BY <4>1 DEF RanksIn
    <3>3. QED
      BY <3>1, <3>2
  <2>2. runs'[week] = row
    BY <1>1, <1>5 DEF RowsInv
  <2>3. RanksIn(corpus)' = 1 .. Len(best)
    BY <2>1 DEF RanksIn
  <2>4. \E k \in Weeks : /\ runs'[k] # None /\ runs'[k].status = "COMPLETE"
                          /\ Len(best) <= runs'[k].representatives
    BY <1>6, <1>9, <2>2
  <2>5. QED
    BY <1>6, <2>3, <2>4 DEF RanksInv
<1>13. WorkersInv'
  <2>1. PICK x : /\ worker' = [worker EXCEPT ![w] = x]
                 /\ x = [at |-> "idle", week |-> None, run |-> None, best |-> <<>>]
    BY <1>1, <1>4, OneWorker
  <2>2. GoodWorker(x)'
    BY <2>1 DEF GoodWorker, Resting, Refusals, Busy
  <2>3. QED
    BY <1>1, <1>10, <2>1, <2>2, WorkerSteps
<1>14. NothingIsLost'
  BY <1>4, <1>7 DEF CorpusInv, NothingIsLost
<1>15. QED
  BY <1>8, <1>11, <1>12, <1>13, <1>14 DEF CorpusInv

LEMMA MaterializeKeeps ==
    ASSUME CorpusInv, NEW w \in Workers, Materialize(w)
    PROVE  CorpusInv'
<1>1. WorkersInv /\ PapersInv /\ RowsInv
  BY DEF CorpusInv
<1>2. /\ Ends(w, "idle") /\ UNCHANGED <<papers, corpus, embedded, pages, kept, runs>>
      /\ \E more \in SUBSET Ranked : local' = local \cup more
  BY DEF Materialize
<1>3. PICK more \in SUBSET Ranked : local' = local \cup more
  BY <1>2
<1>4. more \subseteq DOMAIN corpus /\ \A id \in more : RowOf(papers, id).arxiv # None
  BY <1>1 DEF Ranked, PapersInv, Sound
<1>5. PapersInv'
  <2>1. papers' = papers /\ corpus' = corpus /\ embedded' = embedded
    BY <1>2
  <2>2. local' \subseteq DOMAIN corpus
    BY <1>1, <1>3, <1>4 DEF PapersInv, Sound
  <2>3. \A id \in local' : RowOf(papers, id).arxiv # None
    BY <1>1, <1>3, <1>4 DEF PapersInv, Sound
  <2>4. QED
    BY <1>1, <2>1, <2>2, <2>3 DEF PapersInv, Sound, Keyed
<1>6. PagesGrow
  BY <1>2 DEF PagesGrow
<1>7. WorkersInv'
  <2>1. PICK x : /\ worker' = [worker EXCEPT ![w] = x]
                 /\ x = [at |-> "idle", week |-> None, run |-> None, best |-> <<>>]
    BY <1>1, <1>2, OneWorker
  <2>2. GoodWorker(x)'
    BY <2>1 DEF GoodWorker, Resting, Refusals, Busy
  <2>3. QED
    BY <1>1, <1>6, <2>1, <2>2, WorkerSteps
<1>8. RanksInv' /\ NothingIsLost'
  BY <1>2 DEF CorpusInv, RanksInv, NothingIsLost
<1>9. RowsInv'
  BY <1>1, <1>2 DEF RowsInv, GoodRow
<1>10. QED
  BY <1>5, <1>7, <1>8, <1>9 DEF CorpusInv

\* What a transaction carried on is not lost, whatever entries and owners it adds.
LEMMA NothingLostIn ==
    ASSUME NothingIsLost, NEW state, NEW keys, Carries(Current, state, keys),
           papers' = state.papers, DOMAIN state.corpus \subseteq DOMAIN corpus',
           state.embedded \subseteq embedded', NEW r \in kept
    PROVE  (\E p \in papers : r \in p.of /\ p.id \in DOMAIN corpus /\ p.id \in embedded)'
<1>1. PICK p \in papers : r \in p.of /\ p.id \in DOMAIN corpus /\ p.id \in embedded
  BY DEF NothingIsLost
<1>2. PICK q \in state.papers :
         /\ p.of \subseteq q.of
         /\ p.id \in DOMAIN corpus => q.id \in DOMAIN state.corpus
         /\ p.id \in embedded => q.id \in state.embedded
  BY DEF Carries, Current
<1>3. QED
  BY <1>1, <1>2

LEMMA SearchStoresKeeps ==
    ASSUME CorpusInv, NEW r \in Found, SearchStores(r)
    PROVE  CorpusInv'
<1>1. PICK state : state = Store(Current, r)
  OBVIOUS
<1>2. /\ papers' = state.papers /\ corpus' = state.corpus
      /\ embedded' = state.embedded /\ local' = state.local
      /\ UNCHANGED <<runs, worker, faults, pages, kept>>
  BY <1>1 DEF SearchStores
<1>3. SoundState(state) /\ Carries(Current, state, {Identity(r)})
  <2>1. SoundState(Current)
    BY DEF CorpusInv, PapersInv, SoundState, IsState, Current
  <2>2. r \in Records
    BY CorpusAssumption
  <2>3. QED
    BY <1>1, <2>1, <2>2, StoreIsSound
<1>4. PapersInv'
  BY <1>2, <1>3 DEF SoundState, PapersInv, Sound, Keyed
<1>5. RanksInv'
  <2>1. RanksIn(corpus') = RanksIn(corpus)
    BY <1>2, <1>3 DEF Carries, Current
  <2>2. runs' = runs /\ RanksIn(corpus)' = RanksIn(corpus')
    BY <1>2 DEF RanksIn
  <2>3. QED
    BY <2>1, <2>2 DEF CorpusInv, RanksInv
<1>6. NothingIsLost'
  BY <1>2, <1>3, NothingLostIn DEF CorpusInv, NothingIsLost
<1>7. RowsInv' /\ WorkersInv'
  BY <1>2 DEF CorpusInv, RowsInv, GoodRow, WorkersInv, GoodWorker
<1>8. QED
  BY <1>4, <1>5, <1>6, <1>7 DEF CorpusInv

\* What a page of the corpus is made of.
LEMMA PageIsProper ==
    ASSUME NEW answer \in Answers, NEW week
    PROVE  /\ Dated(answer, week) \in SUBSET Records
           /\ \A r, q \in Dated(answer, week) : r.sid = q.sid => r = q
           /\ Cardinality(answer) \in Nat /\ Cardinality(Dated(answer, week)) \in Nat
<1>1. answer \in SUBSET Records /\ Dated(answer, week) \in SUBSET answer
  BY CorpusAssumption DEF Dated
<1>2. IsFiniteSet(answer) /\ IsFiniteSet(Dated(answer, week))
  BY <1>1, FS_Subset, CorpusAssumption
<1>3. \A r, q \in answer : r.sid = q.sid => r = q
  BY CorpusAssumption
<1>4. QED
  BY <1>1, <1>2, <1>3, FS_CardinalityType

LEMMA StoredPageIsSound ==
    ASSUME NEW page \in SUBSET Records, NEW state, SoundState(state),
           Idents(page) \subseteq Ids(state.papers),
           NEW ranks, ranks = [id \in DOMAIN state.corpus \cup Idents(page) |->
                                 IF id \in DOMAIN state.corpus THEN state.corpus[id] ELSE 0],
           NEW found \in SUBSET {r \in page : r.arxiv # None},
           NEW versions, versions = (state.local \ Idents(page)) \cup Idents(found)
    PROVE  /\ Sound(state.papers, ranks, state.embedded \cup Idents(page), versions)
           /\ RanksIn(ranks) = RanksIn(state.corpus)
<1>1. Sound(state.papers, state.corpus, state.embedded, state.local)
  BY DEF SoundState
<1>2. Table(state.papers) /\ Keyed(state.papers)
  BY <1>1 DEF Sound
<1>3. /\ DOMAIN ranks = DOMAIN state.corpus \cup Idents(page)
      /\ \A id \in DOMAIN state.corpus : ranks[id] = state.corpus[id]
      /\ \A id \in DOMAIN ranks : ranks[id] > 0 => id \in DOMAIN state.corpus
  OBVIOUS
<1>4. \A id \in DOMAIN ranks : ranks[id] \in 0 .. Limit
  <2>1. 0 \in 0 .. Limit
    BY CorpusAssumption
  <2>2. \A id \in DOMAIN state.corpus : state.corpus[id] \in 0 .. Limit
    BY <1>1 DEF Sound
  <2>3. QED
    BY <2>1, <2>2
<1>5. \A a, b \in DOMAIN ranks : ranks[a] = ranks[b] /\ ranks[a] > 0 => a = b
  <2>1. \A a, b \in DOMAIN state.corpus :
           state.corpus[a] = state.corpus[b] /\ state.corpus[a] > 0 => a = b
    BY <1>1 DEF Sound
  <2>2. QED
    BY <1>3, <2>1
<1>6. Idents(found) \subseteq Idents(page)
  BY DEF Idents
<1>7. versions \subseteq DOMAIN ranks
  BY <1>1, <1>3, <1>6 DEF Sound
<1>8. ASSUME NEW id \in DOMAIN ranks, ranks[id] > 0 \/ id \in versions
      PROVE  RowOf(state.papers, id).arxiv # None
  <2>1. CASE id \in Idents(found)
    <3>1. PICK r \in page : r.arxiv # None /\ id = r.arxiv
      BY <2>1 DEF Idents, Identity
    <3>2. PICK p \in state.papers : p.id = id
      BY <1>6, <2>1 DEF Ids
    <3>3. p.id # p.sid
      <4>1. PICK q \in Records : p.sid = q.sid
        BY <1>2 DEF Keyed
      <4>2. QED
        BY <3>1, <3>2, <4>1, CorpusAssumption
    <3>4. p.arxiv # None
      BY <1>2, <3>1, <3>2, <3>3 DEF Keyed
    <3>5. QED
      BY <1>2, <3>2, <3>4, RowIsNamed
  <2>2. CASE id \notin Idents(found)
    <3>1. id \in DOMAIN state.corpus /\ (state.corpus[id] > 0 \/ id \in state.local)
      BY <1>1, <1>3, <1>8, <2>2 DEF Sound
    <3>2. QED
      BY <1>1, <3>1 DEF Sound
  <2>3. QED
    BY <2>1, <2>2
<1>9. DOMAIN ranks \cup (state.embedded \cup Idents(page)) \subseteq Ids(state.papers)
  BY <1>1, <1>3 DEF Sound
<1>10. RanksIn(ranks) = RanksIn(state.corpus)
  <2>1. \A id \in DOMAIN ranks : ranks[id] > 0 => ranks[id] = state.corpus[id]
    BY <1>3
  <2>2. QED
    BY <1>3, <2>1 DEF RanksIn
<1>11. QED
  BY <1>2, <1>4, <1>5, <1>7, <1>8, <1>9, <1>10 DEF Sound

LEMMA CountedRow ==
    ASSUME NEW run \in Backfills, NEW answer \in Answers, NEW week
    PROVE  /\ Counted(run, answer, week).cursor = run.cursor + 1
           /\ Counted(run, answer, week).discovered \in Nat
           /\ Counted(run, answer, week).persisted \in Nat
<1>1. Cardinality(answer) \in Nat /\ Cardinality(Dated(answer, week)) \in Nat
  BY PageIsProper
<1>2. run.cursor \in Nat /\ run.discovered \in Nat /\ run.persisted \in Nat
  BY DEF Backfills
<1>3. PICK one, two : /\ one = [run EXCEPT !.cursor = run.cursor + 1]
                      /\ two = [one EXCEPT !.discovered = run.discovered + Cardinality(answer)]
  OBVIOUS
<1>4. Counted(run, answer, week) =
         [two EXCEPT !.persisted = run.persisted + Cardinality(Dated(answer, week))]
  BY <1>3 DEF Counted, Backfills
<1>5. one = [status |-> run.status, cursor |-> run.cursor + 1, discovered |-> run.discovered,
             persisted |-> run.persisted, representatives |-> run.representatives]
  BY <1>3 DEF Backfills
<1>6. two = [status |-> run.status, cursor |-> run.cursor + 1,
             discovered |-> run.discovered + Cardinality(answer),
             persisted |-> run.persisted, representatives |-> run.representatives]
  BY <1>3, <1>5
<1>7. QED
  BY <1>1, <1>2, <1>4, <1>6

LEMMA StorePageKeeps ==
    ASSUME CorpusInv, NEW w \in Workers, NEW answer \in Answers, StorePage(w, answer)
    PROVE  CorpusInv'
<1>1. RowsInv /\ WorkersInv /\ RanksInv /\ PapersInv /\ GoodWorker(worker[w])
  BY OneWorker DEF CorpusInv
<1>2. worker[w].at = "paging" /\ worker[w].run.cursor < Plan
  BY DEF StorePage, Asked
<1>3. PICK week \in Weeks, run \in Backfills :
         /\ week = worker[w].week /\ run = worker[w].run
         /\ run.cursor < Plan /\ 1 .. run.cursor \subseteq pages[week]
  BY <1>1, <1>2 DEF GoodWorker, Busy
<1>4. PICK page, after, state :
         /\ page = Dated(answer, week) /\ after = Counted(run, answer, week)
         /\ state = StoredBy(page)
  OBVIOUS
<1>5. /\ Status(week) = "RUNNING" /\ Unmoved(runs[week], run, after)
      /\ ~ Repeats(page) /\ ~ state.ambiguous
      /\ papers' = state.papers
      /\ corpus' = [id \in DOMAIN state.corpus \cup Idents(page) |->
                       IF id \in DOMAIN state.corpus THEN state.corpus[id] ELSE 0]
      /\ embedded' = state.embedded \cup Idents(page)
      /\ \E found \in SUBSET {r \in page : r.arxiv # None} :
            local' = (state.local \ Idents(page)) \cup Idents(found)
      /\ runs' = [runs EXCEPT ![week].cursor = after.cursor,
                              ![week].discovered = after.discovered,
                              ![week].persisted = after.persisted]
      /\ worker' = [worker EXCEPT ![w].run = runs'[week]]
      /\ pages' = [pages EXCEPT ![week] = @ \cup {after.cursor}]
      /\ kept' = kept \cup page
  BY <1>3, <1>4 DEF StorePage, Resolutions
<1>6. /\ page \in SUBSET Records /\ \A r, q \in page : r.sid = q.sid => r = q
      /\ Idents(page) \subseteq Ids(state.papers)
  BY <1>4, <1>5, PageIsProper DEF Repeats
<1>7. /\ SoundState(state) /\ Carries(Current, state, Idents(page))
      /\ \A r \in page : \E q \in state.papers : r \in q.of /\ q.id \in Idents(page)
  BY <1>1, <1>4, <1>5, <1>6, PageIsSound
<1>8. PapersInv' /\ RanksIn(corpus') = RanksIn(corpus)
  <2>1. PICK found \in SUBSET {r \in page : r.arxiv # None} :
           local' = (state.local \ Idents(page)) \cup Idents(found)
    BY <1>5
  <2>2. PICK ranks, versions : ranks = corpus' /\ versions = local'
    OBVIOUS
  <2>3. /\ Sound(state.papers, ranks, state.embedded \cup Idents(page), versions)
        /\ RanksIn(ranks) = RanksIn(state.corpus)
    BY <1>5, <1>6, <1>7, <2>1, <2>2, StoredPageIsSound
  <2>4. RanksIn(state.corpus) = RanksIn(corpus)
    BY <1>7 DEF Carries, Current
  <2>5. PapersInv'
    BY <1>5, <2>2, <2>3 DEF PapersInv, Sound, Keyed
  <2>6. QED
    BY <2>2, <2>3, <2>4, <2>5
<1>9. NothingIsLost'
  <2>1. ASSUME NEW r \in kept
        PROVE  (\E p \in papers : r \in p.of /\ p.id \in DOMAIN corpus /\ p.id \in embedded)'
    <3>1. /\ DOMAIN state.corpus \subseteq DOMAIN corpus'
          /\ state.embedded \subseteq embedded' /\ NothingIsLost
      BY <1>5 DEF CorpusInv
    <3>2. QED
      BY <1>5, <1>7, <3>1, NothingLostIn
  <2>2. ASSUME NEW r \in page
        PROVE  (\E p \in papers : r \in p.of /\ p.id \in DOMAIN corpus /\ p.id \in embedded)'
    BY <1>5, <1>7
  <2>3. QED
    BY <1>5, <2>1, <2>2 DEF NothingIsLost
<1>10. /\ after.cursor = run.cursor + 1 /\ after.discovered \in Nat /\ after.persisted \in Nat
       /\ runs[week].cursor = run.cursor
  BY <1>4, <1>5, CountedRow DEF Unmoved
<1>11. /\ runs[week] # None /\ runs[week].status = "RUNNING" /\ runs[week] \in Backfills
       /\ runs[week].representatives = 0
  BY <1>1, <1>5, RowIsNone DEF Statuses, GoodRow
<1>12. PICK row : row = [[[runs[week] EXCEPT !.cursor = after.cursor]
                            EXCEPT !.discovered = after.discovered]
                            EXCEPT !.persisted = after.persisted]
  OBVIOUS
<1>13. row = [status |-> "RUNNING", cursor |-> after.cursor, discovered |-> after.discovered,
              persisted |-> after.persisted, representatives |-> 0]
  <2>1. PICK one, two : /\ one = [runs[week] EXCEPT !.cursor = after.cursor]
                        /\ two = [one EXCEPT !.discovered = after.discovered]
    OBVIOUS
  <2>2. one = [status |-> "RUNNING", cursor |-> after.cursor,
               discovered |-> runs[week].discovered, persisted |-> runs[week].persisted,
               representatives |-> 0]
    <3>1. PICK old \in Backfills : /\ old = runs[week] /\ old.status = "RUNNING"
                                   /\ old.representatives = 0
      BY <1>11
    <3>2. one = [old EXCEPT !.cursor = after.cursor]
      BY <2>1, <3>1
    <3>3. old = [status |-> old.status, cursor |-> old.cursor, discovered |-> old.discovered,
                 persisted |-> old.persisted, representatives |-> old.representatives]
      BY <3>1 DEF Backfills
    <3>4. one = [status |-> old.status, cursor |-> after.cursor,
                 discovered |-> old.discovered, persisted |-> old.persisted,
                 representatives |-> old.representatives]
      BY <3>2, <3>3
    <3>5. QED
      BY <3>1, <3>4
  <2>3. two = [status |-> "RUNNING", cursor |-> after.cursor,
               discovered |-> after.discovered, persisted |-> runs[week].persisted,
               representatives |-> 0]
    <3>1. two = [one EXCEPT !.discovered = after.discovered]
      BY <2>1
    <3>2. QED
      BY <2>2, <3>1
  <2>4. row = [two EXCEPT !.persisted = after.persisted]
    BY <1>12, <2>1
  <2>5. QED
    BY <2>3, <2>4
<1>14. runs' = [runs EXCEPT ![week] = row] /\ runs'[week] = row
  <2>1. PICK a, b : /\ a = [runs EXCEPT ![week].cursor = after.cursor]
                    /\ b = [a EXCEPT ![week].discovered = after.discovered]
    OBVIOUS
  <2>2. runs' = [b EXCEPT ![week].persisted = after.persisted]
    BY <1>5, <2>1
  <2>3. DOMAIN runs = Weeks /\ runs = [k \in Weeks |-> runs[k]]
    BY <1>1 DEF RowsInv
  <2>4. a = [runs EXCEPT ![week] = [runs[week] EXCEPT !.cursor = after.cursor]]
    BY <2>1
  <2>5. b = [runs EXCEPT ![week] = [[runs[week] EXCEPT !.cursor = after.cursor]
                                       EXCEPT !.discovered = after.discovered]]
    BY <2>1, <2>3, <2>4
  <2>6. QED
    BY <1>12, <2>2, <2>3, <2>5
<1>15. pages' = [k \in Weeks |-> IF k = week THEN pages[k] \cup {after.cursor} ELSE pages[k]]
  BY <1>1, <1>5 DEF RowsInv
<1>16. PagesGrow /\ DOMAIN pages' = Weeks /\ pages' = [k \in Weeks |-> pages'[k]]
  BY <1>15 DEF PagesGrow
<1>17. row \in Backfills /\ 1 .. row.cursor \subseteq pages'[week]
  <2>1. run.cursor \in Nat /\ Plan \in Nat /\ after.cursor \in 0 .. Plan
    BY <1>3, <1>10, CorpusAssumption DEF Backfills
  <2>2. row \in Backfills
    BY <1>10, <1>13, <2>1 DEF Backfills, Statuses
  <2>3. 1 .. after.cursor = (1 .. run.cursor) \cup {after.cursor}
    BY <1>10, <2>1
  <2>4. QED
    BY <1>3, <1>13, <1>15, <2>2, <2>3
<1>18. RowsInv'
  <2>1. GoodRow(week, row)'
    BY <1>13, <1>17 DEF GoodRow
  <2>2. QED
    BY <1>1, <1>14, <1>16, <2>1, RowSteps
<1>19. RanksInv'
  BY <1>1, <1>8, <1>11, <1>14, RanksStay
<1>20. WorkersInv'
  <2>1. PICK x : /\ worker' = [worker EXCEPT ![w] = x]
                 /\ x = [at |-> "paging", week |-> week, run |-> row, best |-> worker[w].best]
    <3>1. [worker[w] EXCEPT !.run = row] =
             [at |-> "paging", week |-> week, run |-> row, best |-> worker[w].best]
      BY <1>1, <1>2, <1>3 DEF GoodWorker
    <3>2. worker' = [worker EXCEPT ![w] = [worker[w] EXCEPT !.run = row]]
      BY <1>5, <1>14
    <3>3. QED
      BY <3>1, <3>2
  <2>2. GoodWorker(x)'
    BY <1>17, <2>1, NoneIsNoBackfill DEF GoodWorker, Resting, Busy
  <2>3. QED
    BY <1>1, <1>16, <2>1, <2>2, WorkerSteps
<1>21. QED
  BY <1>8, <1>9, <1>18, <1>19, <1>20 DEF CorpusInv

----------------------------------------------------------------------------
(* The theorems *)

LEMMA WorkKeeps ==
    ASSUME CorpusInv, NEW w \in Workers, Work(w)
    PROVE  CorpusInv'
<1>1. CASE \E week \in Weeks : Begin(w, week)
  BY <1>1, BeginKeeps
<1>2. CASE Start(w)
  BY <1>2, StartKeeps
<1>3. CASE Choose(w)
  BY <1>3, ChooseKeeps
<1>4. CASE Fail(w)
  BY <1>4, FailKeeps
<1>5. CASE Fault(w)
  BY <1>5, FaultKeeps
<1>6. CASE Crash(w)
  <2>1. Ends(w, "idle") /\ UNCHANGED <<runs, stored>>
    BY <1>6 DEF Crash
  <2>2. QED
    BY <2>1, EndsKeep DEF Resting
<1>7. CASE Finalize(w)
  BY <1>7, FinalizeKeeps
<1>8. CASE LoseFinalization(w)
  <2>1. Ends(w, "superseded") /\ UNCHANGED <<runs, stored>>
    BY <1>8 DEF LoseFinalization
  <2>2. QED
    BY <2>1, EndsKeep DEF Resting, Refusals
<1>9. CASE RefuseFinalization(w)
  <2>1. Ends(w, "uncounted") /\ UNCHANGED <<runs, stored>>
    BY <1>9 DEF RefuseFinalization
  <2>2. QED
    BY <2>1, EndsKeep DEF Resting, Refusals
<1>10. CASE ReadIdentities(w)
  BY <1>10, ReadIdentitiesKeeps
<1>11. CASE Materialize(w)
  BY <1>11, MaterializeKeeps
<1>12. CASE LoseRepresentatives(w)
  <2>1. Ends(w, "unranked") /\ UNCHANGED <<runs, stored>>
    BY <1>12 DEF LoseRepresentatives
  <2>2. QED
    BY <2>1, EndsKeep DEF Resting, Refusals
<1>13. ASSUME NEW answer \in Answers,
              \/ StorePage(w, answer) \/ RepeatPage(w, answer) \/ LosePage(w, answer)
              \/ RefusePage(w, answer) \/ AmbiguousPage(w, answer)
       PROVE  CorpusInv'
  <2>1. CASE StorePage(w, answer)
    BY <2>1, StorePageKeeps
  <2>2. CASE RepeatPage(w, answer)
    BY <2>2, RepeatPageKeeps
  <2>3. CASE LosePage(w, answer)
    <3>1. Ends(w, "superseded") /\ UNCHANGED <<runs, stored>>
      BY <2>3 DEF LosePage
    <3>2. QED
      BY <3>1, EndsKeep DEF Resting, Refusals
  <2>4. CASE RefusePage(w, answer)
    <3>1. Ends(w, "duplicates") /\ UNCHANGED <<runs, stored>>
      BY <2>4 DEF RefusePage
    <3>2. QED
      BY <3>1, EndsKeep DEF Resting, Refusals
  <2>5. CASE AmbiguousPage(w, answer)
    BY <2>5, AmbiguousPageKeeps
  <2>6. QED
    BY <1>13, <2>1, <2>2, <2>3, <2>4, <2>5
<1>14. CASE ReadVersions(w)
  BY <1>14, ReadVersionsKeeps
<1>15. CASE RefuseMetadata(w)
  <2>1. Ends(w, "outdated") /\ UNCHANGED <<runs, stored>>
    BY <1>15 DEF RefuseMetadata
  <2>2. QED
    BY <2>1, EndsKeep DEF Resting, Refusals
<1>16. QED
  BY <1>1, <1>2, <1>3, <1>4, <1>5, <1>6, <1>7, <1>8, <1>9, <1>10, <1>11, <1>12, <1>13,
     <1>14, <1>15
  DEF Work

\* The invariant, which every step of any process and every search keeps.
THEOREM CorpusInvariant == Spec => []CorpusInv
<1>1. Init => CorpusInv
  BY InitIsSound
<1>2. CorpusInv /\ [Next]_vars => CorpusInv'
  <2> SUFFICES ASSUME CorpusInv, [Next]_vars PROVE CorpusInv'
    OBVIOUS
  <2>1. CASE \E w \in Workers : Work(w)
    BY <2>1, WorkKeeps
  <2>2. CASE \E r \in Found : SearchStores(r)
    BY <2>2, SearchStoresKeeps
  <2>3. CASE UNCHANGED vars
    BY <2>3 DEF vars, CorpusInv, PapersInv, RanksInv, NothingIsLost, RowsInv, GoodRow,
                WorkersInv, GoodWorker
  <2>4. QED
    BY <2>1, <2>2, <2>3 DEF Next
<1>3. QED
  BY <1>1, <1>2, PTL DEF Spec

\* The state is of its types, and no two rows of a paper share a key, an identifier of the
\* provider, an arXiv id or a DOI, however their records overlap.
THEOREM TypeCorrect == Spec => []TypeOK
<1>1. CorpusInv => TypeOK
  <2> SUFFICES ASSUME CorpusInv PROVE TypeOK
    OBVIOUS
  <2>1. /\ \A p, q \in papers : p # q => Apart(p, q)
        /\ DOMAIN corpus \cup embedded \subseteq Ids(papers) /\ local \subseteq DOMAIN corpus
        /\ \A id \in DOMAIN corpus : corpus[id] \in 0..Limit
    BY DEF CorpusInv, PapersInv, Sound, Table
  <2>2. runs \in [Weeks -> Backfills \cup {None}]
    BY DEF CorpusInv, RowsInv, GoodRow
  <2>3. \A w \in Workers :
          /\ worker[w].at \in Resting \cup {"starting", "paging", "finishing",
                                               "failing", "checking", "materializing"}
          /\ worker[w].run \in Backfills \cup {None}
    BY DEF CorpusInv, WorkersInv, GoodWorker, Busy
  <2>4. QED
    BY <2>1, <2>2, <2>3 DEF TypeOK
<1>2. QED
  BY <1>1, CorpusInvariant, PTL

\* However executions of a week resume, restart, repeat or fail its backfill, its cursor
\* never passes a query whose page was not stored.
THEOREM CursorCovers == Spec => []CursorCoversPages
<1>1. CorpusInv => CursorCoversPages
  BY DEF CorpusInv, CursorCoversPages, RowsInv, GoodRow, Status
<1>2. QED
  BY <1>1, CorpusInvariant, PTL

\* No paper of a stored page is lost, whatever is merged or re-keyed later, by pages or by
\* searches.
THEOREM NothingLost == Spec => []NothingIsLost
<1>1. CorpusInv => NothingIsLost
  BY DEF CorpusInv
<1>2. QED
  BY <1>1, CorpusInvariant, PTL

\* The representatives are those of one choice, each with an arXiv id and a rank of its own.
THEOREM OneChoice == Spec => []RepresentativesAreOneChoice
<1>1. CorpusInv => RepresentativesAreOneChoice
  <2> SUFFICES ASSUME CorpusInv PROVE RepresentativesAreOneChoice
    OBVIOUS
  <2>1. PICK n \in 0 .. Limit :
          /\ RanksIn(corpus) = 1 .. n
          /\ n > 0 => \E week \in Weeks : /\ runs[week] # None
                                          /\ n <= runs[week].representatives
    BY DEF CorpusInv, RanksInv
  <2>2. PapersInv /\ Limit \in Nat /\ n \in Nat
    BY CorpusAssumption DEF CorpusInv
  <2>3. {corpus[id] : id \in Ranked} = 1 .. n
    BY <2>1 DEF RanksIn, Ranked
  <2>4. Cardinality(Ranked) = n
    <3> DEFINE f == [id \in Ranked |-> corpus[id]]
    <3>1. f \in Bijection(Ranked, 1 .. n)
      <4>1. f \in Injection(Ranked, 1 .. n)
        BY <2>2, <2>3 DEF Injection, IsInjective, Ranked, PapersInv, Sound
      <4>2. f \in Surjection(Ranked, 1 .. n)
        BY <2>3 DEF Surjection
      <4>3. QED
        BY <4>1, <4>2 DEF Bijection
    <3> HIDE DEF f
    <3>2. IsFiniteSet(1 .. n) /\ Cardinality(1 .. n) = n
      BY <2>2, FS_Interval
    <3>3. QED
      BY <3>1, <3>2, FS_Bijection, Fun_ExistsBijSymmetric DEF ExistsBijection
  <2>5. None \notin ArxivOf(Ranked \cup local)
    BY <2>2 DEF ArxivOf, Ranked, PapersInv, Sound
  <2>6. Ranked # {} => n > 0
    BY <2>2, <2>3
  <2>7. QED
    BY <2>1, <2>3, <2>4, <2>5, <2>6 DEF RepresentativesAreOneChoice
<1>2. QED
  BY <1>1, CorpusInvariant, PTL
=============================================================================
