----------------------------- MODULE EntitiesPage ----------------------------
(* A page of gsa that lists entities: EntitiesContainer with the Reload that  *)
(* wraps it, the redux stores below and the requests in flight.               *)
(*                                                                            *)
(* A step is one task of the browser's event loop with all its microtasks and *)
(* the rendering it causes: an event handler, a timer, the answer to a        *)
(* request. The state of the browser is the record app; the operators of the  *)
(* first part map one such record to the next, and an action composes them in *)
(* the order in which the code runs.                                          *)
EXTENDS EntitiesStore, FiniteSets

CONSTANTS
  Narrow,       \* the entities the criterion of a narrow filter lets through
  Rows,         \* rows per page
  MaxCommands,     \* bound: commands of the user under way
  MaxDisturbances  \* bound: changes at the server and requests that fail

ASSUME RowsAssumption == Rows \in Nat \ {0}
ASSUME FiltersAssumption ==
  /\ Filters \subseteq [narrow : BOOLEAN, first : Nat \ {0}]
  /\ \A f \in Filters : [f EXCEPT !.first = 1] \in Filters
  /\ \A narrow \in BOOLEAN : [narrow |-> narrow, first |-> 1] \in Filters
ASSUME EntitiesAssumption ==
  Entities \subseteq Nat /\ IsFiniteSet(Entities) /\ Narrow \subseteq Entities
ASSUME NoneAssumption == None \notin Filters /\ None \notin Answers

VARIABLES
  server,    \* the entities gvmd has
  app,       \* the browser: stores, page, requests in flight
  commands,  \* deletions and creations in flight
  changes,   \* changes at the server so far: its clock
  failures   \* failed requests so far

vars == <<server, app, commands, changes, failures>>

-----------------------------------------------------------------------------
(* The server.                                                              *)

Matching(f) == IF f.narrow THEN server \cap Narrow ELSE server
Rank(f, e) == Cardinality({x \in Matching(f) : x <= e})
PageOf(f) == {e \in Matching(f) : Rank(f, e) \in f.first .. f.first + Rows - 1}
Answer(f) == [ids |-> PageOf(f), first |-> f.first,
              filtered |-> Cardinality(Matching(f)), at |-> changes]

-----------------------------------------------------------------------------
(* The browser. A request knows its filter, its answer once the server has   *)
(* given it, and whether the Reload that started it is still mounted.        *)

Requests == [filter : Filters, answer : Answers \cup {None}, own : BOOLEAN]

Apps == [store : Stores,
         pageFilter : Filters \cup {None},  \* store/pages
         requests : SUBSET Requests,
         isRunning : BOOLEAN,               \* Reload: mounted
         timer : BOOLEAN,                   \* Reload: a timer is set
         entities : SUBSET Entities,        \* the container: what it shows,
         counts : Answers \cup {None},      \* the answer it came with,
         loadedFilter : Filters]            \* and the filter it works with

DefaultFilter == [narrow |-> TRUE, first |-> 1]  \* from the user's settings
RESET_FILTER == [narrow |-> FALSE, first |-> 1]

TypeOK ==
  /\ server \subseteq Entities
  /\ app \in Apps
  /\ commands \subseteq [kind : {"delete", "create"}, entity : Entities,
                         done : BOOLEAN, own : BOOLEAN]
  /\ changes \in Nat /\ failures \in Nat

\* The filter the page gets: usePageFilter.
PageFilter(a) == IF a.pageFilter # None THEN a.pageFilter ELSE DefaultFilter

\* A rendering that keeps the old filter with the old entities.
RenderLoaded(a) ==
  LET f == PageFilter(a) IN
  IF a.isRunning /\ hasEntities(a.store, f)
  THEN [a EXCEPT !.entities = getEntities(a.store, f),
                 !.counts = getEntitiesCounts(a.store, f),
                 !.loadedFilter = f]
  ELSE a

\* getDerivedStateFromProps: the old entities stay until there are new ones.
Render(a) ==
  LET f == PageFilter(a) IN
  IF ~a.isRunning THEN a
  ELSE IF hasEntities(a.store, f)
  THEN [a EXCEPT !.entities = getEntities(a.store, f),
                 !.counts = getEntitiesCounts(a.store, f),
                 !.loadedFilter = f]
  ELSE [a EXCEPT !.loadedFilter = f]

\* startTimer, when the promise of a load is resolved.
StartTimer(a) == [a EXCEPT !.timer = a.isRunning]

\* componentDidUpdate finds no entities and a filter that is not at the first page.
MustGoFirst(a) == a.isRunning /\ a.entities = {} /\ a.loadedFilter.first # 1

First(f) == [f EXCEPT !.first = 1]

SendRequest(a, f) ==
  [a EXCEPT !.timer = FALSE,
            !.store = Request(a.store, f),
            !.requests = @ \cup {[filter |-> f, answer |-> None, own |-> TRUE]}]

\* A loader without the question whether the filter is loading.
LoadAnyway(a, f) == Render(SendRequest(a, f))

\* internalLoad with loadEntities: a load of a filter that is loading is
\* resolved at once, so the timer starts at once.
Load(a, f) ==
  IF isLoadingEntities(a.store, f)
  THEN StartTimer([a EXCEPT !.timer = FALSE])
  ELSE Render(SendRequest(a, f))

\* updateFilter of the container.
UpdateFilter(a, f) == Load(Render([a EXCEPT !.pageFilter = f]), f)

\* The rendering after a change of a store, with componentDidUpdate.
Updated(a) ==
  LET b == Render(a) IN
  IF MustGoFirst(b) THEN UpdateFilter(b, First(b.loadedFilter)) ELSE b

\* A change of the filter by the user (the event handler renders at its end).
ChangeFilter(a, f) == Updated(UpdateFilter(a, f))

\* reload() without a filter: the one of the last rendering.
Reload(a) == IF a.isRunning THEN Updated(Load(a, PageFilter(a))) ELSE a

-----------------------------------------------------------------------------
(* The page is opened, by a link that names a filter or without, and left.   *)

Open(u) ==
  /\ ~app.isRunning
  /\ LET a == [app EXCEPT !.isRunning = TRUE,
                          !.pageFilter = IF u # None THEN u ELSE PageFilter(app)]
         f == PageFilter(a)
     IN  \* the container asks for a reload, but Reload is mounted only then
         app' = IF isLoadingEntities(a.store, f)
                THEN Load(Render(a), f) ELSE Updated(Load(Render(a), f))
  /\ UNCHANGED <<server, commands, changes, failures>>

\* A page that unsets the filter of a container that is gone.
CloseUnset ==
  /\ app.isRunning
  /\ app' = [app EXCEPT !.isRunning = FALSE, !.timer = FALSE, !.loadedFilter = None]
  /\ UNCHANGED <<server, commands, changes, failures>>

Close ==
  /\ app.isRunning
  /\ app' = [app EXCEPT !.isRunning = FALSE, !.timer = FALSE,
                        !.requests = {[r EXCEPT !.own = FALSE] : r \in @},
                        !.entities = {}, !.counts = None,
                        !.loadedFilter = DefaultFilter]
  /\ commands' = {[c EXCEPT !.own = FALSE] : c \in commands}
  /\ UNCHANGED <<server, changes, failures>>

\* The timer of Reload.
handleTimer ==
  /\ app.timer
  /\ app' = Reload([app EXCEPT !.timer = FALSE])
  /\ UNCHANGED <<server, commands, changes, failures>>

-----------------------------------------------------------------------------
(* The user changes the filter. The table, with its icons, is there when     *)
(* there are entities and no error.                                          *)

TableShown == app.isRunning /\ app.entities # {} /\ PageFilter(app) \notin app.store.errors

Last(counts) == IF counts.ids = {} THEN 0 ELSE counts.first + Cardinality(counts.ids) - 1
hasNext(counts) == Last(counts) < counts.filtered
hasPrevious(counts) == counts.first > Rows

\* Filters bounds the pages and criteria in reach.
GoTo(f) ==
  /\ f \in Filters
  /\ app' = ChangeFilter(app, f)
  /\ UNCHANGED <<server, commands, changes, failures>>

GoToItem(first) == GoTo([app.loadedFilter EXCEPT !.first = first])

handleFirst == TableShown /\ hasPrevious(app.counts) /\ GoToItem(1)

handleNext == TableShown /\ hasNext(app.counts) /\ GoToItem(app.loadedFilter.first + Rows)

handlePrevious ==
  /\ TableShown /\ hasPrevious(app.counts)
  /\ LET first == app.loadedFilter.first - Rows IN GoToItem(IF first <= 1 THEN 1 ELSE first)

handleLast ==
  /\ TableShown /\ hasNext(app.counts)
  /\ GoToItem(((app.counts.filtered - 1) \div Rows) * Rows + 1)

\* Another criterion is entered, or the same again: first and rows are kept.
handleFilterChanged(narrow) ==
  app.isRunning /\ GoTo([app.loadedFilter EXCEPT !.narrow = narrow])

handleFilterRemoved == app.isRunning /\ GoTo(RESET_FILTER)

\* The filter of the page is unset, but what is loaded is the filter of the
\* last rendering.
handleFilterReset ==
  /\ app.isRunning
  /\ app' = Updated(Load([app EXCEPT !.pageFilter = None], PageFilter(app)))
  /\ UNCHANGED <<server, commands, changes, failures>>

-----------------------------------------------------------------------------
(* Requests for entities: the server answers, the answer arrives; or an      *)
(* error does, at any time.                                                  *)

ServeRequest(r) ==
  /\ r.answer = None
  /\ app' = [app EXCEPT !.requests = (@ \ {r}) \cup {[r EXCEPT !.answer = Answer(r.filter)]}]
  /\ UNCHANGED <<server, commands, changes, failures>>

\* The rendering comes with the dispatch, then Reload starts its timer.
Resolved(a, own) == IF own THEN StartTimer(a) ELSE a

LoadingSuccess(r) ==
  /\ r.answer # None
  /\ app' = Resolved(Updated([app EXCEPT !.requests = @ \ {r},
                                         !.store = Success(@, r.filter, r.answer)]), r.own)
  /\ UNCHANGED <<server, commands, changes, failures>>

\* A loader that rejects, so that Reload does not start its timer.
LoadingErrorRejects(r, isError) ==
  /\ changes + failures < MaxDisturbances
  /\ failures' = failures + 1
  /\ app' = Updated([app EXCEPT !.requests = @ \ {r},
                                !.store = Failure(@, r.filter, isError)])
  /\ UNCHANGED <<server, commands, changes>>

\* The loader dispatches the error and resolves its promise all the same.
LoadingError(r, isError) ==
  /\ changes + failures < MaxDisturbances
  /\ failures' = failures + 1
  /\ app' = Resolved(Updated([app EXCEPT !.requests = @ \ {r},
                                         !.store = Failure(@, r.filter, isError)]), r.own)
  /\ UNCHANGED <<server, commands, changes>>

-----------------------------------------------------------------------------
(* Commands of the user, and changes of others, to the entities.             *)

Send(kind, e) ==
  /\ Cardinality(commands) < MaxCommands
  /\ commands' = commands \cup {[kind |-> kind, entity |-> e, done |-> FALSE, own |-> TRUE]}
  /\ UNCHANGED <<server, app, changes, failures>>

handleDelete(e) == TableShown /\ e \in app.entities /\ Send("delete", e)
SaveDialog(e) == app.isRunning /\ e \notin server /\ Send("create", e)

Change(new) ==
  /\ changes + failures < MaxDisturbances
  /\ server' = new
  /\ changes' = changes + 1

ServeCommand(c) ==
  /\ ~c.done
  /\ Change(IF c.kind = "delete" THEN server \ {c.entity} ELSE server \cup {c.entity})
  /\ commands' = (commands \ {c}) \cup {[c EXCEPT !.done = TRUE]}
  /\ UNCHANGED <<app, failures>>

\* handleChanged, after deleteEntity has told the store.
CommandDone(c) ==
  /\ c.done
  /\ LET a == IF c.kind = "delete"
              THEN Updated([app EXCEPT !.store = Deleted(@, c.entity)]) ELSE app
     IN  app' = IF c.own THEN Reload(a) ELSE a
  /\ commands' = commands \ {c}
  /\ UNCHANGED <<server, changes, failures>>

\* handleError: the message is shown, the page stays as it is.
CommandFailed(c) ==
  /\ changes + failures < MaxDisturbances
  /\ failures' = failures + 1
  /\ commands' = commands \ {c}
  /\ UNCHANGED <<server, app, changes>>

OthersChange(e) ==
  /\ Change(IF e \in server THEN server \ {e} ELSE server \cup {e})
  /\ UNCHANGED <<app, commands, failures>>

-----------------------------------------------------------------------------
Init ==
  /\ server = Entities
  /\ app = [store |-> initialState, pageFilter |-> None, requests |-> {},
            isRunning |-> FALSE, timer |-> FALSE, entities |-> {}, counts |-> None,
            loadedFilter |-> DefaultFilter]
  /\ commands = {} /\ changes = 0 /\ failures = 0

RequestStep ==
  \E r \in app.requests :
    \/ ServeRequest(r)
    \/ LoadingSuccess(r)
    \/ \E isError \in BOOLEAN : LoadingError(r, isError)

CommandStep ==
  \E c \in commands : ServeCommand(c) \/ CommandDone(c) \/ CommandFailed(c)

UserStep ==
  \/ \E u \in Filters \cup {None} : Open(u)
  \/ Close
  \/ handleFirst \/ handleNext \/ handlePrevious \/ handleLast
  \/ \E narrow \in BOOLEAN : handleFilterChanged(narrow)
  \/ handleFilterRemoved
  \/ handleFilterReset
  \/ \E e \in Entities : handleDelete(e) \/ SaveDialog(e)

Next ==
  \/ UserStep
  \/ handleTimer
  \/ RequestStep
  \/ CommandStep
  \/ \E e \in Entities : OthersChange(e)

Spec == Init /\ [][Next]_vars

\* What ServeRequest and LoadingSuccess do to a request for f, and no other
\* action: it is answered, or its answer is handled.
Advances(f) ==
  /\ failures' = failures /\ app'.isRunning = app.isRunning
  /\ \E r \in app.requests : r.filter = f /\ r \notin app'.requests

(* The browser runs its timers, every request is answered or times out, and  *)
(* an answer that has arrived is handled. Nothing is assumed of the user.    *)
(* This is weak fairness of these steps, written out with the conditions     *)
(* under which they are enabled.                                             *)
Fairness ==
  /\ []<>(~app.timer) \/ []<><<handleTimer>>_vars
  /\ \A f \in Filters :
       []<>(~\E r \in app.requests : r.filter = f) \/ []<><<Advances(f)>>_vars

FairSpec == Spec /\ Fairness

-----------------------------------------------------------------------------
\* A filter is marked as loading exactly while a request for it is under way,
\* and there is never more than one: a flag left behind would end the loading
\* of that filter for good (createLoadEntities, isLoading of the reducer).
LoadingIffRequested ==
  \A f \in Filters :
    LET pending == {r \in app.requests : r.filter = f}
    IN  /\ \A r, q \in pending : r = q
        /\ app.store.isLoading[f] <=> pending # {}

\* A mounted page never stops reloading: a timer runs, or a load is under way
\* at whose end Reload starts one, whatever fails and however loads overlap
\* (Reload: startTimer, internalLoad).
ReloadAlive ==
  app.isRunning => app.timer \/ \E r \in app.requests : r.own

\* What is shown for a filter is what was loaded for it (getDerivedStateFromProps).
ShowsLoadedFilter ==
  LET f == PageFilter(app) IN
  app.isRunning =>
    /\ app.loadedFilter = f
    /\ hasEntities(app.store, f) => app.entities = getEntities(app.store, f)

\* The list of a filter is never replaced by an older answer (the question for
\* isLoading in createLoadEntities keeps two loads of a filter apart).
AnswersInOrder ==
  [][\A f \in Filters :
       LET old == app.store.lists[f] new == app'.store.lists[f]
       IN  old # None => new # None /\ new.at >= old.at]_vars

\* What the page shows is what the server has for its filter.
Current ==
  LET f == PageFilter(app) IN
  /\ app.loadedFilter = f /\ f \notin app.store.errors
  /\ hasEntities(app.store, f)
  /\ app.entities = PageOf(f)

\* A page that stays open shows again and again, once the server is quiet and
\* nothing fails any more, exactly what the server has: neither an old answer,
\* nor a deletion, nor a reload that was skipped leaves it wrong for good.
EventuallyCurrent == []<>(app.isRunning => Current)

=============================================================================
