--------------------------- MODULE ExternalPapers ---------------------------
(* The identity of a paper known to Semantic Scholar.  A record has an       *)
(* identifier of the provider (sid) and may have an arXiv identifier and a   *)
(* DOI.  The row that stands for the paper is keyed by the arXiv identifier  *)
(* when the record has one and by the provider's otherwise, so a record that *)
(* shares an identifier with a stored row re-keys it, and one that shares    *)
(* identifiers with two rows merges them.  What depends on a row (entries of *)
(* the corpus, embeddings, candidates of searches) has to follow it.         *)
(*                                                                           *)
(* A row is [id, sid, arxiv, doi, date, of], where "of" is the set of the    *)
(* records that were ever written into it: history, which no code reads.     *)
(* Identifiers of other types, authors, titles and counts are left out.      *)
EXTENDS Naturals, FiniteSets, FiniteSetsExt, SequencesExt

CONSTANT None

ASSUME NoneIsNoNumber == None \notin Nat

\* stable_external_paper_id: the arXiv identifier names a paper before the
\* provider's own identifier does.
Identity(r) == IF r.arxiv # None THEN r.arxiv ELSE r.sid

Ids(rows) == {p.id : p \in rows}

RowOf(rows, id) == CHOOSE p \in rows : p.id = id

\* What the unique indexes demand of two rows: no key, identifier of the
\* provider, arXiv id or DOI in common.
Apart(p, q) ==
    /\ p.id # q.id /\ p.sid # q.sid
    /\ p.arxiv = None \/ p.arxiv # q.arxiv
    /\ p.doi = None \/ p.doi # q.doi

\* The rows an upsert of r locks: same row key, provider's id, arXiv id or DOI.
Matching(rows, r) ==
    {p \in rows : \/ p.id = Identity(r)
                  \/ p.sid = r.sid
                  \/ r.arxiv # None /\ p.arxiv = r.arxiv
                  \/ r.doi # None /\ p.doi = r.doi}

\* The values of one type of identifier known to the rows and the record.
Known(rows, r, type) == {p[type] : p \in Matching(rows, r) \cup {r}} \ {None}

\* The merge would have to choose between two arXiv ids or two DOIs.
Ambiguous(rows, r) ==
    \/ Cardinality(Known(rows, r, "arxiv")) > 1
    \/ Cardinality(Known(rows, r, "doi")) > 1

\* An identifier once known is never lost: the record may leave it out.
Union(rows, r, type) ==
    IF Known(rows, r, type) = {} THEN None ELSE CHOOSE v \in Known(rows, r, type) : TRUE

\* The row every other match is merged into.
Survivor(rows, r) ==
    LET matching == Matching(rows, r)
        same == {p \in matching : p.sid = r.sid}
        keyed == {p \in matching : p.id = Identity(r)}
    IN  CHOOSE p \in matching :
            IF same # {} THEN p \in same
            ELSE IF keyed # {} THEN p \in keyed
            ELSE \A q \in matching : p.id <= q.id

Merged(rows, r) ==
    [id |-> Identity(r), sid |-> r.sid,
     arxiv |-> Union(rows, r, "arxiv"), doi |-> Union(rows, r, "doi"),
     date |-> r.date,
     of |-> {r} \cup UNION {p.of : p \in Matching(rows, r)}]

\* The rows after the upsert of a record that is not ambiguous.
Upserted(rows, r) == (rows \ Matching(rows, r)) \cup {Merged(rows, r)}

\* Mutant: what depends on a row stays with the key it had.
LeftBehind(rows, r, id) == id

\* What happens to a row's key: its dependents follow the key, by the cascade
\* of the foreign keys and by the explicit merge of the duplicates' rows.
Rekeyed(rows, r, id) ==
    IF id \in Ids(Matching(rows, r)) THEN Identity(r) ELSE id

\* Mutant: a merge deletes what depends on a duplicate, whether or not the
\* survivor has its own.
KeptBySurvivor(rows, r, owners) ==
    {Rekeyed(rows, r, id) : id \in
        {own \in owners : own \in Ids(Matching(rows, r)) => own = Survivor(rows, r).id}}

\* The dependents of one kind, named by their row's key.
Followed(rows, r, owners) == {Rekeyed(rows, r, id) : id \in owners}

\* The corpus is a function from the keys of its papers to their rank among
\* the representatives, 0 without one.  A survivor keeps its own rank and
\* takes a duplicate's only when it has none; duplicates are merged in the
\* order of their keys.
MergedRank(rows, r, corpus) ==
    LET owners == Ids(Matching(rows, r)) \cap DOMAIN corpus
        survivor == Survivor(rows, r).id
        ranked == {id \in owners : corpus[id] > 0}
    IN  CASE ranked = {} -> 0
          [] survivor \in ranked -> corpus[survivor]
          [] OTHER -> corpus[Min(ranked)]

CorpusAfter(rows, r, corpus) ==
    [id \in Followed(rows, r, DOMAIN corpus) |->
        IF id = Identity(r) THEN MergedRank(rows, r, corpus) ELSE corpus[id]]

\* A provider that repeats a record is handled before anything is stored: the
\* records of one answer are distinct by the provider's own identifier, and
\* stored in its order.
InOrder(records) ==
    [n \in 1..Cardinality(records) |->
        CHOOSE r \in records : Cardinality({q \in records : q.sid < r.sid}) = n - 1]

=============================================================================
