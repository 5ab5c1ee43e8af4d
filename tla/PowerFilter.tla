----------------------------- MODULE PowerFilter -----------------------------
(* The filter of a page of gsa, and all the ways in which the user changes    *)
(* it: the text field and the selection of PowerFilter, the FilterDialog, the *)
(* sorting and the pages of the table, a click into a chart. The rendering    *)
(* that follows a change of the filter is part of the action.                 *)
EXTENDS FilterTerms

CONSTANTS
  Ids,          \* of filters saved under a name
  Default,      \* the one the user's settings name as the default
  SavedTerms,   \* the terms of the filters saved at first
  Fields,       \* that a table can be sorted by
  Criteria,     \* the terms that are no keywords of the view
  Texts,        \* what the user types: sequences of terms
  ChartTerms,   \* what a click into a chart adds
  RowsPerPage,  \* from the user's settings
  FirstChoices, \* first items and numbers of rows
  RowsChoices,  \*   that the user enters in the dialog
  MaxEdits,     \* bound: what the user types or enters
  MaxFirst,     \* bound: the first item of a page
  MaxTerms      \* bound: terms of a filter

\* What convert makes of the values: a list starts at its first item or later,
\* and a number of rows may be any, like the -1 that stands for all.
Terms == [keyword : {"first"}, value : Nat \ {0}]
           \cup [keyword : {"rows"}, value : Int]
           \cup [keyword : FieldKeywords, value : Fields \cup {None}]
           \cup Criteria

Filters == [id : Ids \cup {None}, terms : Seq(Terms)]
Dialogs == [filter : Filters, orig_filter : Filters, filterstring : Seq(Terms)]

ASSUME NoneAssumption == None \notin Ids \cup Fields \cup EXTRA_KEYWORDS

ASSUME TermsAssumption ==
  /\ AND \in Criteria /\ \A t \in Criteria : t.keyword \notin EXTRA_KEYWORDS
  /\ ChartTerms \subseteq Criteria /\ Texts \subseteq Seq(Terms)

ASSUME SavedAssumption ==
  /\ DOMAIN SavedTerms \subseteq Ids /\ Default \in DOMAIN SavedTerms
  /\ SavedTerms \in [DOMAIN SavedTerms -> Seq(Terms)]

ASSUME NumbersAssumption ==
  /\ {RowsPerPage} \cup FirstChoices \cup RowsChoices \subseteq Int
  /\ {MaxEdits, MaxFirst, MaxTerms} \subseteq Nat

VARIABLES
  saved,       \* id -> the terms it stands for
  filter,      \* the filter of the page
  text,        \* userFilterString: the terms in the text field
  prevFilter,  \* the filter the text was last derived from
  dialog,      \* the FilterDialog, or None
  edits        \* what was typed or entered so far

vars == <<saved, filter, text, prevFilter, dialog, edits>>

TypeOK ==
  /\ DOMAIN saved \subseteq Ids /\ saved \in [DOMAIN saved -> Seq(Terms)]
  /\ filter \in Filters /\ has(filter, "rows")
  /\ prevFilter \in Filters /\ text \in Seq(Terms)
  /\ dialog # None => dialog \in Dialogs
  /\ edits \in Nat

-----------------------------------------------------------------------------
NamedFilter(id) == [id |-> id, terms |-> saved[id]]

RESET_FILTER == Filter(<<FilterTerm("first", 1)>>)

\* usePageFilter: every filter says how many rows.
WithRows(f) == IF has(f, "rows") THEN f ELSE set(f, "rows", RowsPerPage)

\* A text that is derived anew only when the filter has another id.
DeriveTextById(f, shown) ==
  IF f.id # prevFilter.id
  THEN text' = toFilterCriteriaString(f) /\ prevFilter' = f
  ELSE text' = shown /\ UNCHANGED prevFilter

\* getDerivedStateFromProps, with what the text field shows until then.
DeriveText(f, shown) ==
  IF f.id # prevFilter.id \/ ~equals(f, prevFilter)
  THEN text' = toFilterCriteriaString(f) /\ prevFilter' = f
  ELSE text' = shown /\ UNCHANGED prevFilter

\* The page gets another filter.
Change(f, shown) == filter' = WithRows(f) /\ DeriveText(WithRows(f), shown)

\* The dialog covers the page.
OnPage == dialog = None /\ UNCHANGED <<saved, dialog>>

Count == edits < MaxEdits /\ edits' = edits + 1

ChangeFilter(f) == OnPage /\ Change(f, text) /\ UNCHANGED edits

-----------------------------------------------------------------------------
(* PowerFilter.                                                              *)

handleValueChange(t) == OnPage /\ Count /\ text' = t /\ UNCHANGED <<filter, prevFilter>>

handleUpdateFilter == ChangeFilter(fromString(text, filter))

handleNamedFilterChange(id) ==
  ChangeFilter(IF id \in DOMAIN saved THEN NamedFilter(id) ELSE RESET_FILTER)

\* resetUserFilterString still has the old filter.
handleRemoveClick ==
  OnPage /\ UNCHANGED edits /\ Change(RESET_FILTER, toFilterCriteriaString(filter))

handleResetClick ==
  OnPage /\ UNCHANGED edits /\ Change(NamedFilter(Default), toFilterCriteriaString(filter))


-----------------------------------------------------------------------------
(* The table and the charts of the page.                                     *)

handleFirst == ChangeFilter(first(filter))
handleNext == get(filter, "first", 1) < MaxFirst /\ ChangeFilter(next(filter))
handlePrevious == ChangeFilter(previous(filter))
handleSortChange(field) == ChangeFilter(SortChange(filter, field))

handleDataClick(term) ==
  /\ Len(filter.terms) < MaxTerms
  /\ ChangeFilter(IF hasTerm(filter, term) THEN filter ELSE and(filter, term))

-----------------------------------------------------------------------------
(* FilterDialog. It works on a copy, and on a text of its own.               *)

onEditClick ==
  /\ dialog = None
  /\ dialog' = [filter |-> filter, orig_filter |-> filter,
                filterstring |-> toFilterCriteriaString(filter)]
  /\ UNCHANGED <<saved, filter, text, prevFilter, edits>>

Edit(d) == Count /\ dialog' = d /\ UNCHANGED <<saved, filter, text, prevFilter>>
EditFilter(f) == Edit([dialog EXCEPT !.filter = f])

onFilterStringChange(t) == Edit([dialog EXCEPT !.filterstring = t])
onFilterValueChange(key, value) == EditFilter(set(dialog.filter, key, value))
onSortByChange(field) == EditFilter(setSortBy(dialog.filter, field))
onSortOrderChange(order) == EditFilter(setSortOrder(dialog.filter, order))

\* What handleSave makes of the dialog: the terms of the text whose keywords
\* the filter does not have yet are merged into it.
Merged == mergeKeywords(dialog.filter, Filter(dialog.filterstring))

handleSave ==
  /\ dialog # None /\ dialog' = None /\ UNCHANGED <<saved, edits>>
  /\ IF equals(Merged, dialog.orig_filter)
     THEN UNCHANGED <<filter, text, prevFilter>> ELSE Change(Merged, text)

\* A save without a name, or one that the server refuses, leaves the dialog
\* open: what the text held by then stays merged.
SaveFails == EditFilter(Merged)

\* The filter is saved under a name, read back and used by the page.
createFilter(id) ==
  /\ id \notin DOMAIN saved
  /\ saved' = [i \in DOMAIN saved \cup {id} |-> IF i = id THEN Merged.terms ELSE saved[i]]
  /\ Change([id |-> id, terms |-> Merged.terms], text)
  /\ dialog' = None /\ Count

onCloseClick == dialog' = None /\ UNCHANGED <<saved, filter, text, prevFilter, edits>>

-----------------------------------------------------------------------------
Init ==
  /\ saved = SavedTerms
  /\ filter = WithRows(NamedFilter(Default)) /\ prevFilter = filter
  /\ text = toFilterCriteriaString(filter)
  /\ dialog = None /\ edits = 0

PageStep ==
  \/ \E t \in Texts : handleValueChange(t)
  \/ handleUpdateFilter
  \/ \E id \in Ids \cup {None} : handleNamedFilterChange(id)
  \/ handleRemoveClick \/ handleResetClick
  \/ handleFirst \/ handleNext \/ handlePrevious
  \/ \E field \in Fields : handleSortChange(field)
  \/ \E term \in ChartTerms : handleDataClick(term)
  \/ onEditClick

DialogStep ==
  /\ dialog # None
  /\ \/ \E t \in Texts : onFilterStringChange(t)
     \/ \E item \in FirstChoices : onFilterValueChange("first", item)
     \/ \E rows \in RowsChoices : onFilterValueChange("rows", rows)
     \/ \E field \in Fields : onSortByChange(field)
     \/ \E order \in FieldKeywords : onSortOrderChange(order)
     \/ handleSave
     \/ SaveFails
     \/ \E id \in Ids : createFilter(id)
     \/ onCloseClick

Next == PageStep \/ DialogStep

Spec == Init /\ [][Next]_vars

-----------------------------------------------------------------------------
\* A filter that the selection of PowerFilter shows under a name has exactly
\* the terms saved under it: every change gives up the id, and none is made to
\* the page when the dialog is closed (set, delete, and, mergeKeywords, copy).
IdMeansTerms ==
  \A f \in {filter} \cup (IF dialog = None THEN {} ELSE {dialog.filter}) :
    f.id # None => f.id \in DOMAIN saved /\ f.terms = saved[f.id]

\* The same terms, in any order.
Times(f, t) == Cardinality({i \in DOMAIN f.terms : f.terms[i] = t})
SameTerms(f, g) == \A t \in ToSet(f.terms) \cup ToSet(g.terms) : Times(f, t) = Times(g, t)

SortedTwice(f) ==
  \E i, j \in DOMAIN f.terms :
    i # j /\ {f.terms[i].keyword, f.terms[j].keyword} \subseteq FieldKeywords

\* One sort order, one first item, one number of rows.
ViewedOnce(f) ==
  \A i, j \in DOMAIN f.terms :
    LET k == f.terms[i].keyword l == f.terms[j].keyword IN
    {k, l} \subseteq EXTRA_KEYWORDS /\ Kind(k) = Kind(l) => i = j

NoKeywordTwice(f) ==
  \A i, j \in DOMAIN f.terms :
    f.terms[i].keyword = f.terms[j].keyword => i = j \/ f.terms[i].keyword = None

\* Whenever the page gets a filter with another id or with other terms, its
\* text field is such that pressing Enter right then would change nothing
\* (getDerivedStateFromProps, fromString). Of two sort orders fromString takes
\* one, and of the terms with one keyword equals looks at one.
TextTellsFilter ==
  [][(/\ filter'.id # filter.id \/ ~SameTerms(filter', filter)
      /\ ViewedOnce(filter')
      /\ equals(filter', prevFilter) => NoKeywordTwice(filter'))
     => SameTerms(fromString(text', filter'), filter')]_vars

Ambiguous ==
  \/ SortedTwice(filter)
  \/ dialog # None /\ SortedTwice(dialog.filter)
  \/ \E id \in DOMAIN saved : SortedTwice(NamedFilter(id))

\* A filter comes to have two sort orders only from a text on the page that
\* names two, or a text in the dialog that names one: nothing else the user
\* does adds a second one (_setTerm, _mergeExtraKeywords).
OneSortOrder ==
  [][Ambiguous' =>
       \/ Ambiguous \/ SortedTwice(Filter(text))
       \/ dialog # None /\ \E t \in ToSet(dialog.filterstring) : t.keyword \in FieldKeywords]_vars

\* What is saved in the dialog is what the page works with from then on,
\* unless the filter is the same: no change is taken for none (equals). Of the
\* terms with one keyword equals looks at one.
SaveTakesEffect ==
  [][handleSave /\ NoKeywordTwice(Merged) => SameTerms(filter', WithRows(Merged))]_vars

\* Going to the next page and back leads to the page one came from, with all
\* terms in their places (next, previous).
PagesReturn ==
  has(filter, "first") /\ Rows(filter) >= 0 => previous(next(filter)).terms = filter.terms

=============================================================================
