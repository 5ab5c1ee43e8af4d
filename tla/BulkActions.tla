----------------------------- MODULE BulkActions ------------------------------
(* Bulk deletion on a list page of gsa: the boxes the user ticks, the objects *)
(* EntitiesContainer remembers for them, the command that deletes what a      *)
(* filter finds, and the loop in gsad that deletes one entity after another.  *)
(* Pages, timers and errors of loads in full are the matter of EntitiesPage;  *)
(* here a load matters for bringing new objects for entities already shown.   *)
EXTENDS Integers, FiniteSets

CONSTANTS
  Entities,
  Filters,          \* a filter is the set of entities that meet its criterion
  Rows,             \* rows per page
  Clicks,           \* bound: one bulk deletion under way for each of these
  None,
  MaxLoads,         \* bound: answers to loads of the list
  MaxDisturbances   \* bound: requests and deletions that fail, changes by others

ASSUME BoundsAssumption ==
  Entities \subseteq Nat /\ Rows \in Nat /\ MaxLoads \in Nat /\ MaxDisturbances \in Nat
ASSUME FiltersAssumption == Filters \subseteq SUBSET Entities /\ Filters # {}

VARIABLES
  server,         \* of each entity: not created yet, there, or gone
  loads,          \* answers to loads so far
  byId,           \* store: the load that brought the entity's newest object
  lists,          \* store: what was found for a filter
  loading,        \* store: the filters with a load under way
  errors,         \* store: the filters whose last load failed
  filter,         \* the filter of the page
  entities,       \* container: the objects shown
  selectionType,  \* container
  selected,       \* container: the objects selected, or None
  ticked,         \* the boxes that show a mark
  bulk,           \* the bulk deletions under way
  disturbances

store == <<loads, byId, lists, loading, errors>>
page == <<filter, entities, selectionType, selected, ticked>>
vars == <<server, store, page, bulk, disturbances>>

\* An object is the entity it stands for and the load that brought it.
Objects == Entities \X Nat
Ids(objects) == {o[1] : o \in objects}

SelectionTypes == {"page contents", "user", "filter"}

\* A bulk deletion asks for what its filter finds, then gsad goes through the ids.
Listings == [stage : {"list"}, filter : Filters, all : BOOLEAN]
Deletions == [stage : {"delete"},
              asked : SUBSET Entities,   \* the ids sent to gsad
              left : SUBSET Entities,    \* those its loop has not reached
              fail : BOOLEAN]

ASSUME NoneAssumption == None \notin Listings \cup Deletions

TypeOK ==
  /\ server \in [Entities -> {"unborn", "there", "gone"}]
  /\ loads \in Nat
  /\ byId \in [Entities -> Nat]
  /\ lists \in [Filters -> (SUBSET Entities) \cup {None}]
  /\ loading \subseteq Filters /\ errors \subseteq Filters
  /\ filter \in Filters
  /\ entities \subseteq Objects
  /\ selectionType \in SelectionTypes
  /\ IF selectionType = "user" THEN selected \subseteq Objects ELSE selected = None
  /\ ticked \subseteq Entities
  /\ bulk \in [Clicks -> Listings \cup Deletions \cup {None}]
  /\ disturbances \in Nat

-----------------------------------------------------------------------------
(* The server, and the rendering of the page.                               *)

Matching(f) == {e \in f : server[e] = "there"}
PageOf(f) == {e \in Matching(f) : Cardinality({x \in Matching(f) : x < e}) < Rows}

\* Without entities there is no table, with an error there is a message instead.
TableShown == entities # {} /\ filter \notin errors

\* The container keeps the old entities while there are none for the filter.
\* A row keeps its box, marked or not, as long as its id is shown.
Rendered(marks) ==
  /\ entities' = IF lists'[filter'] = None THEN entities
                 ELSE {<<e, byId'[e]>> : e \in lists'[filter']}
  /\ ticked' = IF TableShown' THEN marks \cap Ids(entities') ELSE {}

-----------------------------------------------------------------------------
(* Loads of the list.                                                       *)

\* A new filter, or the same again; a filter that is loading is not loaded twice.
updateFilter(f) ==
  /\ filter' = f
  /\ loading' = loading \cup {f}
  /\ UNCHANGED <<server, loads, byId, lists, errors, selectionType, selected,
                 bulk, disturbances>>
  /\ Rendered(ticked)

\* The answer is as of its arrival; what changed since then shows as a change
\* at the server after it.
LoadingSuccess(f) ==
  /\ f \in loading /\ loads < MaxLoads
  /\ loads' = loads + 1
  /\ loading' = loading \ {f}
  /\ errors' = errors \ {f}
  /\ lists' = [lists EXCEPT ![f] = PageOf(f)]
  /\ byId' = [e \in Entities |-> IF e \in PageOf(f) THEN loads + 1 ELSE byId[e]]
  /\ UNCHANGED <<server, filter, selectionType, selected, bulk, disturbances>>
  /\ Rendered(ticked)

Disturb == disturbances < MaxDisturbances /\ disturbances' = disturbances + 1

LoadingError(f, isError) ==
  /\ f \in loading /\ Disturb
  /\ loading' = loading \ {f}
  /\ errors' = IF isError THEN errors \cup {f} ELSE errors
  /\ UNCHANGED <<server, loads, byId, lists, filter, selectionType, selected, bulk>>
  /\ Rendered(ticked)

-----------------------------------------------------------------------------
(* The selection.                                                           *)

\* A selection that is kept for the next time.
ChangeTypeKeeps(type) ==
  /\ TableShown /\ type # selectionType
  /\ selectionType' = type
  /\ selected' = IF selected = None THEN {} ELSE selected
  /\ ticked' = {}
  /\ UNCHANGED <<server, store, filter, entities, bulk, disturbances>>

\* The select box reports changes only; the boxes of the rows are replaced.
handleSelectionTypeChange(type) ==
  /\ TableShown /\ type # selectionType
  /\ selectionType' = type
  /\ selected' = IF type = "user" THEN {} ELSE None
  /\ ticked' = {}
  /\ UNCHANGED <<server, store, filter, entities, bulk, disturbances>>

handleSelected(o) ==
  /\ TableShown /\ selectionType = "user"
  /\ o \in entities /\ o[1] \notin ticked
  /\ selected' = selected \cup {o}
  /\ ticked' = ticked \cup {o[1]}
  /\ UNCHANGED <<server, store, filter, entities, selectionType, bulk, disturbances>>

\* The hook of the GraphQL pages: an object that is not in the selection empties it.
DeselectOrReset(o) ==
  /\ o \in entities /\ o[1] \in ticked
  /\ selected' = IF o \in selected THEN selected \ {o} ELSE {}
  /\ ticked' = ticked \ {o[1]}
  /\ UNCHANGED <<server, store, filter, entities, selectionType, bulk, disturbances>>

\* The object the row shows now is taken out, not the one that was put in.
handleDeselected(o) ==
  /\ o \in entities /\ o[1] \in ticked
  /\ selected' = selected \ {o}
  /\ ticked' = ticked \ {o[1]}
  /\ UNCHANGED <<server, store, filter, entities, selectionType, bulk, disturbances>>

-----------------------------------------------------------------------------
(* The deletion.                                                            *)

\* EntitiesCommand.delete: the ids go to gsad.
Delete(ids) == [stage |-> "delete", asked |-> ids, left |-> ids, fail |-> FALSE]

\* EntitiesCommand.deleteByFilter: what the filter finds is asked for first.
DeleteByFilter(all) == [stage |-> "list", filter |-> filter, all |-> all]

handleDeleteBulk(c) ==
  /\ TableShown /\ bulk[c] = None
  /\ bulk' = [bulk EXCEPT ![c] =
       CASE selectionType = "user" -> Delete(Ids(selected))
         [] selectionType = "page contents" -> DeleteByFilter(FALSE)
         [] selectionType = "filter" -> DeleteByFilter(TRUE)]
  /\ UNCHANGED <<server, store, page, disturbances>>

Listed(c) ==
  /\ bulk[c] \in Listings
  /\ bulk' = [bulk EXCEPT ![c] =
       Delete(IF @.all THEN Matching(@.filter) ELSE PageOf(@.filter))]
  /\ UNCHANGED <<server, store, page, disturbances>>

\* The loop of bulk_delete_gmp comes to e.
Reaches(c, e) == bulk[c] \in Deletions /\ e \in bulk[c].left
Went(c, e, fail) ==
  bulk' = [bulk EXCEPT ![c] = [stage |-> "delete", asked |-> bulk[c].asked,
                               left |-> bulk[c].left \ {e}, fail |-> fail]]
Remove(e) == server' = IF server[e] = "there" THEN [server EXCEPT ![e] = "gone"] ELSE server

\* A loop that remembers the last answer only.
DeleteOneLast(c, e) ==
  /\ Reaches(c, e)
  /\ Remove(e) /\ Went(c, e, server[e] # "there")
  /\ UNCHANGED <<store, page, disturbances>>

\* An entity that is not there is a failure. Any status that begins with 2 is
\* a success for the loop; that gvmd has deleted the entity by then is taken
\* for granted, "request submitted" (202) included.
DeleteOne(c, e) ==
  /\ Reaches(c, e)
  /\ Remove(e) /\ Went(c, e, bulk[c].fail \/ server[e] # "there")
  /\ UNCHANGED <<store, page, disturbances>>

\* gvmd refuses: the entity is in use, or not the user's to delete.
Refuse(c, e) ==
  /\ Reaches(c, e) /\ Disturb
  /\ Went(c, e, TRUE)
  /\ UNCHANGED <<server, store, page>>

\* The connection to gvmd is lost before or after it got the command: the loop
\* ends, and what was deleted before is not reported.
Abort(c, e, sent) ==
  /\ Reaches(c, e) /\ Disturb
  /\ IF sent THEN Remove(e) ELSE UNCHANGED server
  /\ bulk' = [bulk EXCEPT ![c] = [@ EXCEPT !.left = {}, !.fail = TRUE]]
  /\ UNCHANGED <<store, page>>

Finished(c) == bulk[c] \in Deletions /\ bulk[c].left = {}

\* handleChanged: the list is loaded anew; the selection stays as it is.
Succeed(c) ==
  /\ Finished(c) /\ ~bulk[c].fail
  /\ bulk' = [bulk EXCEPT ![c] = None]
  /\ loading' = loading \cup {filter}
  /\ UNCHANGED <<server, loads, byId, lists, errors, page, disturbances>>

\* handleError: a message, nothing else.
Fail(c) ==
  /\ \/ Finished(c) /\ bulk[c].fail /\ UNCHANGED disturbances
     \/ bulk[c] \in Listings /\ Disturb
  /\ bulk' = [bulk EXCEPT ![c] = None]
  /\ UNCHANGED <<server, store, page>>

\* Somebody else creates an entity or deletes it; ids are not used twice.
OthersChange(e) ==
  /\ server[e] # "gone" /\ Disturb
  /\ server' = [server EXCEPT ![e] = IF @ = "unborn" THEN "there" ELSE "gone"]
  /\ UNCHANGED <<store, page, bulk>>

-----------------------------------------------------------------------------
\* The page was opened with some filter, whose first load is under way.
Init ==
  /\ server \in [Entities -> {"unborn", "there"}]
  /\ loads = 0 /\ byId = [e \in Entities |-> 0]
  /\ lists = [f \in Filters |-> None]
  /\ errors = {}
  /\ filter \in Filters /\ loading = {filter}
  /\ entities = {} /\ selectionType = "page contents" /\ selected = None /\ ticked = {}
  /\ bulk = [c \in Clicks |-> None]
  /\ disturbances = 0

LoadStep ==
  \E f \in Filters :
    \/ updateFilter(f)
    \/ LoadingSuccess(f)
    \/ \E isError \in BOOLEAN : LoadingError(f, isError)

SelectionStep ==
  \/ \E type \in SelectionTypes : handleSelectionTypeChange(type)
  \/ \E o \in entities : handleSelected(o) \/ handleDeselected(o)

BulkStep ==
  \E c \in Clicks :
    \/ handleDeleteBulk(c)
    \/ Listed(c)
    \/ \E e \in Entities :
         \/ DeleteOne(c, e)
         \/ Refuse(c, e)
         \/ \E sent \in BOOLEAN : Abort(c, e, sent)
    \/ Succeed(c)
    \/ Fail(c)

Next ==
  \/ LoadStep
  \/ SelectionStep
  \/ BulkStep
  \/ \E e \in Entities : OthersChange(e)

Spec == Init /\ [][Next]_vars

-----------------------------------------------------------------------------
\* What shows a mark is selected: a bulk deletion leaves out nothing the user
\* has ticked, however often the list was loaded anew, left and come back to
\* since (handleSelected, handleDeselected, getDerivedStateFromProps).
TickedIsSelected ==
  ticked # {} => selectionType = "user" /\ ticked \subseteq Ids(selected)

\* A deletion that is reported as done has deleted everything it was to delete,
\* though others delete the same, gvmd refuses some, or the connection breaks
\* (bulk_delete_gmp answers for all of its commands at once).
SuccessMeansGone ==
  [][\A c \in Clicks :
       Succeed(c) => \A e \in bulk[c].asked : server[e] = "gone"]_vars

\* "Move selection to trashcan" (trashicon.js): an entity that is shown with an
\* empty box is not deleted with the selection (EntitySelection.handleSelection).
UntickedIsSpared ==
  [][\A c \in Clicks :
       handleDeleteBulk(c) /\ selectionType = "user" =>
         bulk'[c].asked \cap Ids(entities) \subseteq ticked]_vars

=============================================================================
