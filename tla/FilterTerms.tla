----------------------------- MODULE FilterTerms -----------------------------
(* The filters of gsa (gmp/models/filter.js): a filter is a sequence of terms *)
(* and, when it is one that the user saved under a name, the id it has there. *)
(* An operation of the code that changes the filter it is called on is an     *)
(* operator that returns the changed filter. A term has a keyword and a value;*)
(* the relation of a term is part of its value.                               *)
EXTENDS Subsequences, SequencesExt

CONSTANT None   \* no keyword, no id

FieldKeywords == {"sort", "sort-reverse"}
NumberKeywords == {"first", "rows"}

\* The keywords of the view, as opposed to those of a criterion.
EXTRA_KEYWORDS == FieldKeywords \cup NumberKeywords

FilterTerm(keyword, value) == [keyword |-> keyword, value |-> value]
AND == FilterTerm(None, "and")

Filter(terms) == [id |-> None, terms |-> terms]

-----------------------------------------------------------------------------
Places(f, key) == {i \in DOMAIN f.terms : f.terms[i].keyword = key}

has(f, key) == key # None /\ Places(f, key) # {}

\* The first of them, where there is one.
_getIndex(f, key) == Nth(Places(f, key), 1)

getTerms(f, key) == Select(f.terms, Places(f, key))

get(f, key, default) ==
  IF has(f, key) THEN f.terms[_getIndex(f, key)].value ELSE default

hasTerm(f, term) == term.keyword # None /\ term \in ToSet(f.terms)

_addTerm(f, term) == [id |-> f.id, terms |-> Append(f.terms, term)]

delete(f, key) ==
  IF has(f, key) THEN Filter(Select(f.terms, DOMAIN f.terms \ {_getIndex(f, key)})) ELSE f

Opposite(key) == IF key = "sort" THEN "sort-reverse" ELSE "sort"

\* A term that is put beside the opposite sort order.
_setTermBeside(f, term) ==
  IF has(f, term.keyword)
  THEN [id |-> f.id, terms |-> [f.terms EXCEPT ![_getIndex(f, term.keyword)] = term]]
  ELSE _addTerm(f, term)

\* The place of a keyword is kept, and there is one sort order.
_setTerm(f, term) ==
  LET g == IF term.keyword \in FieldKeywords THEN delete(f, Opposite(term.keyword)) ELSE f
  IN  IF has(g, term.keyword)
      THEN [id |-> g.id, terms |-> [g.terms EXCEPT ![_getIndex(g, term.keyword)] = term]]
      ELSE _addTerm(g, term)

\* A setter that keeps the id of the saved filter.
setKeepsId(f, key, value) == _setTerm(f, FilterTerm(key, value))

\* A setter that takes the number of the first item as it is.
setUnconverted(f, key, value) == _setTerm(Filter(f.terms), FilterTerm(key, value))

\* The id goes, for the filter is no longer the one that was saved.
set(f, key, value) ==
  _setTerm(Filter(f.terms), FilterTerm(key, IF key = "first" /\ value <= 0 THEN 1 ELSE value))

-----------------------------------------------------------------------------
(* Moving through the pages.                                                *)

Rows(f) == get(f, "rows", 10)

GoTo(f, item) == set(set(f, "first", item), "rows", Rows(f))

next(f) ==
  GoTo(f, IF has(f, "first") THEN get(f, "first", 1) + Rows(f) ELSE 1)

\* A step back that is not the length of a page.
previousItem(f) == GoTo(f, get(f, "first", 1) - 1)

previous(f) == GoTo(f, get(f, "first", 1 + Rows(f)) - Rows(f))

first(f) == set(f, "first", 1)

-----------------------------------------------------------------------------
(* Sorting.                                                                  *)

getSortOrder(f) == IF has(f, "sort-reverse") THEN "sort-reverse" ELSE "sort"
getSortBy(f) == get(f, getSortOrder(f), None)
setSortOrder(f, order) == set(f, order, getSortBy(f))
setSortBy(f, field) == set(f, getSortOrder(f), field)

\* handleSortChange: the same field again turns the order round.
SortChange(f, field) ==
  set(first(f), IF getSortBy(f) = field THEN Opposite(getSortOrder(f)) ELSE "sort", field)

-----------------------------------------------------------------------------
(* Merging and parsing.                                                      *)

\* The keywords of which a filter has one at most.
Kind(key) == IF key \in FieldKeywords THEN FieldKeywords ELSE {key}

\* A merge takes the first term of its kind, if f has none.
IsNew(f, g, i, kind) ==
  /\ \A key \in kind : ~has(f, key)
  /\ \A j \in 1 .. i - 1 : g.terms[j].keyword \notin kind

_mergeExtraKeywords(f, g) ==
  LET extra == {i \in DOMAIN g.terms : g.terms[i].keyword \in EXTRA_KEYWORDS}
      new == {i \in extra : IsNew(f, g, i, Kind(g.terms[i].keyword))}
  IN  [id |-> f.id, terms |-> f.terms \o Select(g.terms, new)]

mergeKeywords(f, g) ==
  LET named == {i \in DOMAIN g.terms : g.terms[i].keyword # None}
      new == {i \in named : IsNew(f, g, i, {g.terms[i].keyword})}
  IN  Filter(f.terms \o Select(g.terms, new))

\* fromString, of a text that stands for the terms it is parsed to.
fromString(text, f) == _mergeExtraKeywords(Filter(text), f)

IsCriterion(term) == term.keyword \notin EXTRA_KEYWORDS
toFilterCriteriaString(f) ==
  Select(f.terms, {i \in DOMAIN f.terms : IsCriterion(f.terms[i])})

\* and, of a filter and a term.
and(f, term) ==
  LET terms == IF toFilterCriteriaString(f) = <<>> THEN f.terms ELSE Append(f.terms, AND)
  IN  Filter(Append(terms, term))

-----------------------------------------------------------------------------
\* A comparison that looks for the keywords only.
equalsKeywords(f, g) ==
  /\ Len(f.terms) = Len(g.terms)
  /\ \A i \in DOMAIN f.terms : has(f, f.terms[i].keyword) => has(g, f.terms[i].keyword)

\* A term with a keyword may be anywhere, one without at the same place only.
equals(f, g) ==
  /\ Len(f.terms) = Len(g.terms)
  /\ \A i \in DOMAIN f.terms :
       LET our == f.terms[i] others == getTerms(g, our.keyword) IN
       IF our.keyword = None THEN our = g.terms[i]
       ELSE Len(others) = Len(getTerms(f, our.keyword)) /\ our \in ToSet(others)

=============================================================================
