---------------------------- MODULE MCPowerFilter ----------------------------
(* A small instance of PowerFilter.                                          *)
EXTENDS PowerFilter

View(field) == <<FilterTerm("first", 1), FilterTerm("rows", 2), FilterTerm("sort", field)>>

Name == FilterTerm("name", "~a")
Word == FilterTerm(None, "word")

\* One filter is saved: the default of the user's settings.
OneSaved == [id \in {"default"} |-> View("name")]

\* Texts: a criterion beside a word that has no keyword, and a sort order. No
\* text has a keyword twice.
SomeTexts == {<<Word, Name>>, <<FilterTerm("sort-reverse", "name")>>}

SomeChartTerms == {FilterTerm("severity", ">5")}

SomeCriteria == {Name, Word, AND} \cup SomeChartTerms

(* The merges as the code has them: a loop over the terms of g, each of which *)
(* is added to f if the f of that moment does not have its keyword.           *)
MergeExtra(f, term) ==
  LET key == term.keyword IN
  IF \/ key = None \/ key \notin EXTRA_KEYWORDS \/ has(f, key)
     \/ key = "sort" /\ has(f, "sort-reverse")
     \/ key = "sort-reverse" /\ has(f, "sort")
  THEN f ELSE _addTerm(f, term)

MergeNew(f, term) ==
  IF term.keyword # None /\ ~has(f, term.keyword) THEN _addTerm(f, term) ELSE f

SmallFilters ==
  LET terms == {Word, Name, FilterTerm("rows", 1), FilterTerm("sort", "name"),
                FilterTerm("sort-reverse", "name")}
  IN  {Filter(s) : s \in UNION {[1 .. n -> terms] : n \in 0 .. 3}}

ASSUME MergesAreLoops ==
  \A f, g \in SmallFilters :
    /\ _mergeExtraKeywords(f, g) = FoldLeft(MergeExtra, f, g.terms)
    /\ mergeKeywords(f, g) = FoldLeft(MergeNew, f, g.terms)

=============================================================================
