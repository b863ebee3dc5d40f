------------------------ MODULE MCHistoricalCorpus ------------------------
(* Small instances of HistoricalCorpus.                                    *)
EXTENDS HistoricalCorpus

Record(sid, arxiv, doi, date) ==
    [sid |-> sid, arxiv |-> arxiv, doi |-> doi, date |-> date]

\* A preprint, a paper known by its DOI, the record that says the two are one,
\* a record that contradicts it, and another preprint, of the second week.
Preprint == Record(11, 1, None, 1)
Article  == Record(12, None, 5, 1)
Both     == Record(13, 1, 5, 2)
Other    == Record(14, 2, 5, 2)
Later    == Record(15, 3, None, 2)

Aliases == {Preprint, Article, Both, Other, Later}

\* One or two papers, and answers that name one paper twice: by the
\* arXiv id of its row or by its DOI.
AnyAnswer == {{Article, Later}, {Both}, {Preprint, Both}, {Article, Other}}

\* A search of another topic has found the preprint, and one finds that it is the
\* article.
StoredBefore == {Preprint}
Searched == {Both}

AnyWorker == Permutations(Workers)
=============================================================================
