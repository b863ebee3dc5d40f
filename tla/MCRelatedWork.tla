--------------------------- MODULE MCRelatedWork ---------------------------
(* Small instances of RelatedWork.                                          *)
EXTENDS RelatedWork

Record(sid, arxiv, doi, date) ==
    [sid |-> sid, arxiv |-> arxiv, doi |-> doi, date |-> date]

\* The source; a paper of the corpus, which a second record of the provider
\* names too; an article of the corpus known by its DOI only, and the record
\* that says it is that paper, whole or without its arXiv id; a paper cited by
\* them, a record that takes it for the article, and a paper published too late,
\* as is a second record of the source.
TheSource == Record(1, 100, None, 1)
Preprint  == Record(2, 200, None, 1)
Late      == Record(3, 400, None, 2)
Article   == Record(4, None, 7, 1)
Cited     == Record(5, 300, None, 1)
Both      == Record(6, 200, 7, 1)
Wrong     == Record(7, 300, 7, 1)
Alias     == Record(8, 200, None, 1)
Less      == Record(6, None, 7, 1)
Published == Record(9, 100, None, 2)

TheCorpus == {Preprint, Article}

TheRecords == {TheSource, Preprint, Late, Article, Cited, Both, Wrong, Alias, Less, Published}

AnyReply(tool, target) ==
    CASE tool = "GET_PAPER" -> {{TheSource}, {Cited}}
      [] tool = "SEARCH_PAPERS" ->
            IF target = 1 THEN {{TheSource, Published}, {Late, Alias}, {Late}}
            ELSE {{Late, Alias}}
      [] tool = "GET_RECOMMENDATIONS" -> {{Less, Cited}}
      [] tool = "GET_REFERENCES" ->
            IF target = 2 THEN {{Cited}} ELSE {{Article}, {Wrong}}
      [] OTHER -> {{Cited}}

AnyElsewhere == {Both, Alias}

\* A query and every expansion, references only, or as many queries as there
\* may be.
AnyPlan ==
    {[queries |-> 1, recommend |-> TRUE, tools |-> <<"GET_REFERENCES", "GET_CITATIONS">>],
     [queries |-> 1, recommend |-> FALSE, tools |-> <<"GET_REFERENCES">>],
     [queries |-> 2, recommend |-> FALSE, tools |-> <<>>]}
=============================================================================
