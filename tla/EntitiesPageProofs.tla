-------------------------- MODULE EntitiesPageProofs --------------------------
(***************************************************************************)
(* A page of gsa never loses its reloading, its loading flags or the order *)
(* of its answers, for any entities, filters and numbers of commands and   *)
(* disturbances.                                                           *)
(*                                                                         *)
(* An action of EntitiesPage composes operators on the state of the        *)
(* browser, so the invariant is one of that state, and there is one lemma  *)
(* for each operator.                                                      *)
(***************************************************************************)
EXTENDS EntitiesPage, FiniteSetTheorems, TLAPS

Loads(a) ==
  \A f \in Filters :
    /\ \A r, q \in a.requests : r.filter = f /\ q.filter = f => r = q
    /\ a.store.isLoading[f] <=> \E r \in a.requests : r.filter = f

Alive(a) == a.isRunning => a.timer \/ \E r \in a.requests : r.own

Shows(a) ==
  a.isRunning =>
    /\ a.loadedFilter = PageFilter(a)
    /\ hasEntities(a.store, PageFilter(a))
         => a.entities = getEntities(a.store, PageFilter(a))

(* Nothing comes from the future, and an answer on its way is not older    *)
(* than what is stored for its filter.                                     *)
Ordered(a, now) ==
  /\ \A f \in Filters : a.store.lists[f] # None => a.store.lists[f].at <= now
  /\ \A r \in a.requests : r.answer # None =>
       /\ r.answer.at <= now
       /\ a.store.lists[r.filter] # None => a.store.lists[r.filter].at <= r.answer.at

\* What every operator on the browser keeps.
Good(a, now) == a \in Apps /\ Loads(a) /\ Ordered(a, now)

IInv == TypeOK /\ Good(app, changes) /\ Alive(app) /\ Shows(app)

-----------------------------------------------------------------------------
(* Filters.                                                                *)

LEMMA FilterTypes ==
  /\ DefaultFilter \in Filters /\ RESET_FILTER \in Filters
  /\ \A f \in Filters : First(f) \in Filters
  /\ \A a \in Apps : PageFilter(a) \in Filters
<1>1. DefaultFilter \in Filters /\ RESET_FILTER \in Filters
  BY FiltersAssumption DEF DefaultFilter, RESET_FILTER
<1>2. \A f \in Filters : First(f) \in Filters
  BY FiltersAssumption DEF First
<1>3. \A a \in Apps : PageFilter(a) \in Filters
  BY <1>1 DEF Apps, PageFilter
<1> QED
  BY <1>1, <1>2, <1>3

LEMMA InitialStore == initialState \in Stores
  BY DEF initialState, Stores

-----------------------------------------------------------------------------
(* The operators. None of them touches the lists or the known entities.    *)

SameData(a, b) ==
  /\ b.store.lists = a.store.lists /\ b.store.byId = a.store.byId
  /\ b.isRunning = a.isRunning /\ a.requests \subseteq b.requests

LEMMA LoadedType ==
  ASSUME NEW a \in Apps, NEW entities \in SUBSET Entities, NEW counts \in Answers,
         NEW f \in Filters
  PROVE  [a EXCEPT !.entities = entities, !.counts = counts, !.loadedFilter = f] \in Apps
  BY DEF Apps

LEMMA RenderKeeps ==
  ASSUME NEW now \in Nat, NEW a, Good(a, now)
  PROVE  /\ Good(Render(a), now) /\ Shows(Render(a)) /\ SameData(a, Render(a))
         /\ Alive(a) => Alive(Render(a))
         /\ Render(a).timer = a.timer /\ Render(a).requests = a.requests
         /\ Render(a).store = a.store /\ Render(a).pageFilter = a.pageFilter
<1> DEFINE f == PageFilter(a) b == Render(a)
<1>1. f \in Filters /\ a \in Apps /\ a.store \in Stores
  BY FilterTypes DEF Good, Apps
<1>2. /\ getEntities(a.store, f) \subseteq Entities
      /\ hasEntities(a.store, f) => getEntitiesCounts(a.store, f) \in Answers
  BY <1>1 DEF Stores, getEntities, hasEntities, getEntitiesCounts
<1>3. b \in Apps
  <2> USE <1>1
  <2>1. CASE ~a.isRunning
    BY <2>1 DEF Render
  <2>2. CASE a.isRunning /\ hasEntities(a.store, f)
    <3>1. b = [a EXCEPT !.entities = getEntities(a.store, f),
                        !.counts = getEntitiesCounts(a.store, f), !.loadedFilter = f]
      BY <2>2 DEF Render
    <3>2. getEntities(a.store, f) \in SUBSET Entities
          /\ getEntitiesCounts(a.store, f) \in Answers
      BY <1>2, <2>2
    <3> HIDE DEF b, f
    <3> QED
      BY <3>1, <3>2, LoadedType
  <2>3. CASE a.isRunning /\ ~hasEntities(a.store, f)
    <3>1. b = [a EXCEPT !.loadedFilter = f]
      BY <2>3 DEF Render
    <3> HIDE DEF b, f
    <3> QED
      BY <3>1 DEF Apps
  <2> QED
    BY <2>1, <2>2, <2>3
<1>4. /\ b.timer = a.timer /\ b.requests = a.requests /\ b.store = a.store
      /\ b.pageFilter = a.pageFilter /\ b.isRunning = a.isRunning
  BY <1>1 DEF Render, Apps
<1>5. Good(b, now) /\ SameData(a, b) /\ (Alive(a) => Alive(b))
  BY <1>3, <1>4 DEF Good, Loads, Ordered, SameData, Alive
<1>6. PageFilter(b) = f
  BY <1>4 DEF PageFilter
<1>7. Shows(b)
  <2> SUFFICES ASSUME b.isRunning
      PROVE  /\ b.loadedFilter = f
             /\ hasEntities(a.store, f) => b.entities = getEntities(a.store, f)
    BY <1>4, <1>6 DEF Shows
  <2> QED
    BY <1>1, <1>4 DEF Render, Apps
<1> QED
  BY <1>4, <1>5, <1>7

LEMMA RequestType ==
  ASSUME NEW s \in Stores, NEW f \in Filters
  PROVE  /\ Request(s, f) \in Stores /\ Request(s, f).lists = s.lists
         /\ Request(s, f).byId = s.byId
         /\ Request(s, f).isLoading = [s.isLoading EXCEPT ![f] = TRUE]
<1> DEFINE loading == [s.isLoading EXCEPT ![f] = TRUE]
<1>1. loading \in [Filters -> BOOLEAN]
  BY DEF Stores
<1>2. Request(s, f) = [s EXCEPT !.isLoading = loading]
  BY DEF Request
<1> HIDE DEF loading
<1>3. [s EXCEPT !.isLoading = loading] \in Stores
  BY <1>1 DEF Stores
<1>4. /\ Request(s, f).lists = s.lists /\ Request(s, f).byId = s.byId
      /\ Request(s, f).isLoading = loading
  BY <1>2 DEF Stores
<1> QED
  BY <1>2, <1>3, <1>4 DEF loading

LEMMA SendRequestKeeps ==
  ASSUME NEW now \in Nat, NEW a, Good(a, now), NEW f \in Filters,
         ~isLoadingEntities(a.store, f)
  PROVE  /\ Good(SendRequest(a, f), now) /\ SameData(a, SendRequest(a, f))
         /\ \E r \in SendRequest(a, f).requests : r.own
<1> DEFINE new == [filter |-> f, answer |-> None, own |-> TRUE]
           b == SendRequest(a, f)
<1>1. a \in Apps /\ a.store \in Stores /\ new \in Requests
  BY DEF Good, Apps, Requests
<1>2. /\ b.store = Request(a.store, f) /\ b.requests = a.requests \cup {new}
      /\ b.isRunning = a.isRunning
  BY <1>1 DEF SendRequest, Apps
<1>3. /\ b.store \in Stores /\ b.store.lists = a.store.lists
      /\ b.store.byId = a.store.byId
      /\ b.store.isLoading = [a.store.isLoading EXCEPT ![f] = TRUE]
  BY <1>1, <1>2, RequestType
<1>4. b \in Apps
  BY <1>1, <1>2, <1>3 DEF SendRequest, Apps
<1>5. \A r \in a.requests : r.filter # f
  BY DEF Good, Loads, isLoadingEntities
<1>6. Loads(b)
  <2> SUFFICES ASSUME NEW g \in Filters
      PROVE  /\ \A r, q \in b.requests : r.filter = g /\ q.filter = g => r = q
             /\ b.store.isLoading[g] <=> \E r \in b.requests : r.filter = g
    BY DEF Loads
  <2>0. a.store.isLoading \in [Filters -> BOOLEAN]
    BY <1>1 DEF Stores
  <2>1. CASE g = f
    <3>1. \A r \in b.requests : r.filter = f => r = new
      BY <1>2, <1>5
    <3>2. b.store.isLoading[f] /\ new \in b.requests /\ new.filter = f
      BY <1>2, <1>3, <2>0
    <3> QED
      BY <2>1, <3>1, <3>2
  <2>2. CASE g # f
    <3>1. \A r \in b.requests : r.filter = g => r \in a.requests
      BY <1>2, <2>2
    <3>2. b.store.isLoading[g] = a.store.isLoading[g]
      BY <1>3, <2>0, <2>2
    <3> QED
      BY <1>2, <3>1, <3>2 DEF Good, Loads
  <2> QED
    BY <2>1, <2>2
<1>7. Ordered(b, now)
  BY <1>2, <1>3 DEF Good, Ordered
<1>8. new \in b.requests /\ new.own
  BY <1>2
<1> QED
  BY <1>2, <1>3, <1>4, <1>6, <1>7, <1>8 DEF Good, SameData

LEMMA StartTimerKeeps ==
  ASSUME NEW now \in Nat, NEW a, Good(a, now)
  PROVE  /\ Good(StartTimer(a), now) /\ SameData(a, StartTimer(a))
         /\ Alive(StartTimer(a)) /\ (Shows(a) => Shows(StartTimer(a)))
<1> DEFINE b == StartTimer(a)
<1>1. /\ b \in Apps /\ b.store = a.store /\ b.requests = a.requests
      /\ b.isRunning = a.isRunning /\ b.timer = a.isRunning
      /\ b.pageFilter = a.pageFilter /\ b.loadedFilter = a.loadedFilter
      /\ b.entities = a.entities
  BY DEF Good, Apps, StartTimer
<1> QED
  BY <1>1 DEF Good, Loads, Ordered, SameData, Alive, Shows, PageFilter

LEMMA LoadKeeps ==
  ASSUME NEW now \in Nat, NEW a, Good(a, now), NEW f \in Filters
  PROVE  /\ Good(Load(a, f), now) /\ SameData(a, Load(a, f)) /\ Alive(Load(a, f))
         /\ Shows(a) => Shows(Load(a, f))
<1>1. CASE isLoadingEntities(a.store, f)
  <2> DEFINE b == [a EXCEPT !.timer = FALSE]
  <2>1. /\ b \in Apps /\ b.store = a.store /\ b.requests = a.requests
        /\ b.isRunning = a.isRunning
        /\ b.pageFilter = a.pageFilter /\ b.loadedFilter = a.loadedFilter
        /\ b.entities = a.entities
    BY DEF Good, Apps
  <2>2. Good(b, now) /\ SameData(a, b) /\ (Shows(a) => Shows(b))
    BY <2>1 DEF Good, Loads, Ordered, SameData, Shows, PageFilter
  <2>3. Load(a, f) = StartTimer(b)
    BY <1>1 DEF Load
  <2> HIDE DEF b
  <2> QED
    BY <2>2, <2>3, StartTimerKeeps DEF SameData
<1>2. CASE ~isLoadingEntities(a.store, f)
  <2> DEFINE b == SendRequest(a, f)
  <2>1. Good(b, now) /\ SameData(a, b) /\ (\E r \in b.requests : r.own)
    BY <1>2, SendRequestKeeps
  <2>2. Load(a, f) = Render(b)
    BY <1>2 DEF Load
  <2> HIDE DEF b
  <2> QED
    BY <2>1, <2>2, RenderKeeps DEF SameData, Alive
<1> QED
  BY <1>1, <1>2

LEMMA UpdateFilterKeeps ==
  ASSUME NEW now \in Nat, NEW a, Good(a, now), NEW f \in Filters
  PROVE  /\ Good(UpdateFilter(a, f), now) /\ SameData(a, UpdateFilter(a, f))
         /\ Alive(UpdateFilter(a, f)) /\ Shows(UpdateFilter(a, f))
<1> DEFINE b == [a EXCEPT !.pageFilter = f] c == Render(b)
<1>1. /\ b \in Apps /\ b.store = a.store /\ b.requests = a.requests
      /\ b.isRunning = a.isRunning
  BY DEF Good, Apps
<1>2. Good(b, now) /\ SameData(a, b)
  BY <1>1 DEF Good, Loads, Ordered, SameData
<1> HIDE DEF b
<1>3. Good(c, now) /\ SameData(b, c) /\ Shows(c)
  BY <1>2, RenderKeeps
<1> HIDE DEF c
<1>4. /\ Good(Load(c, f), now) /\ SameData(c, Load(c, f)) /\ Alive(Load(c, f))
      /\ Shows(Load(c, f))
  BY <1>3, LoadKeeps
<1>5. UpdateFilter(a, f) = Load(c, f)
  BY DEF UpdateFilter, b, c
<1> QED
  BY <1>2, <1>3, <1>4, <1>5 DEF SameData

LEMMA UpdatedKeeps ==
  ASSUME NEW now \in Nat, NEW a, Good(a, now)
  PROVE  /\ Good(Updated(a), now) /\ SameData(a, Updated(a)) /\ Shows(Updated(a))
         /\ Alive(a) => Alive(Updated(a))
<1> DEFINE b == Render(a)
<1>1. Good(b, now) /\ SameData(a, b) /\ Shows(b) /\ (Alive(a) => Alive(b))
  BY RenderKeeps
<1>2. First(b.loadedFilter) \in Filters
  BY <1>1, FilterTypes DEF Good, Apps
<1> DEFINE f == First(b.loadedFilter)
<1>3. Updated(a) = IF MustGoFirst(b) THEN UpdateFilter(b, f) ELSE b
  BY DEF Updated
<1> HIDE DEF b
<1>4. /\ Good(UpdateFilter(b, f), now) /\ SameData(b, UpdateFilter(b, f))
      /\ Alive(UpdateFilter(b, f)) /\ Shows(UpdateFilter(b, f))
  BY <1>1, <1>2, UpdateFilterKeeps
<1> QED
  BY <1>1, <1>3, <1>4 DEF SameData

LEMMA ReloadKeeps ==
  ASSUME NEW now \in Nat, NEW a, Good(a, now), Shows(a)
  PROVE  /\ Good(Reload(a), now) /\ SameData(a, Reload(a))
         /\ Alive(Reload(a)) /\ Shows(Reload(a))
<1> DEFINE f == PageFilter(a) b == Load(a, f)
<1>1. f \in Filters
  BY FilterTypes DEF Good
<1>2. Good(b, now) /\ SameData(a, b) /\ Alive(b)
  BY <1>1, LoadKeeps
<1>3. Reload(a) = IF a.isRunning THEN Updated(b) ELSE a
  BY DEF Reload
<1> HIDE DEF b
<1>4. /\ Good(Updated(b), now) /\ SameData(b, Updated(b)) /\ Shows(Updated(b))
      /\ Alive(Updated(b))
  BY <1>2, UpdatedKeeps
<1>5. ~a.isRunning => Alive(a)
  BY DEF Alive
<1> QED
  BY <1>2, <1>3, <1>4, <1>5 DEF SameData

-----------------------------------------------------------------------------
(* What the other reducers do to the store.                                *)

LEMMA StoreWith ==
  ASSUME NEW a \in Apps, NEW s \in Stores, NEW rs \in SUBSET Requests,
         NEW b, b = [a EXCEPT !.requests = rs, !.store = s]
  PROVE  /\ b \in Apps /\ b.store = s /\ b.requests = rs
         /\ b.isRunning = a.isRunning /\ b.timer = a.timer
  BY DEF Apps

LEMMA SuccessType ==
  ASSUME NEW s \in Stores, NEW f \in Filters, NEW answer \in Answers
  PROVE  /\ Success(s, f, answer) \in Stores
         /\ Success(s, f, answer).lists = [s.lists EXCEPT ![f] = answer]
         /\ Success(s, f, answer).isLoading = [s.isLoading EXCEPT ![f] = FALSE]
<1> DEFINE loading == [s.isLoading EXCEPT ![f] = FALSE]
           lists == [s.lists EXCEPT ![f] = answer]
           known == s.byId \cup answer.ids
           errors == s.errors \ {f}
<1>1. /\ loading \in [Filters -> BOOLEAN] /\ lists \in [Filters -> Answers \cup {None}]
      /\ known \in SUBSET Entities /\ errors \in SUBSET Filters
  BY DEF Stores, Answers
<1>2. Success(s, f, answer) =
        [s EXCEPT !.isLoading = loading, !.errors = errors, !.lists = lists, !.byId = known]
  BY DEF Success
<1> HIDE DEF loading, lists, known, errors
<1>3. [s EXCEPT !.isLoading = loading, !.errors = errors, !.lists = lists, !.byId = known]
        \in Stores
  BY <1>1 DEF Stores
<1>4. Success(s, f, answer).lists = lists /\ Success(s, f, answer).isLoading = loading
  BY <1>2 DEF Stores
<1> QED
  BY <1>2, <1>3, <1>4 DEF lists, loading

LEMMA FailureType ==
  ASSUME NEW s \in Stores, NEW f \in Filters, NEW isError \in BOOLEAN
  PROVE  /\ Failure(s, f, isError) \in Stores
         /\ Failure(s, f, isError).lists = s.lists
         /\ Failure(s, f, isError).isLoading = [s.isLoading EXCEPT ![f] = FALSE]
<1> DEFINE loading == [s.isLoading EXCEPT ![f] = FALSE]
           errors == IF isError THEN s.errors \cup {f} ELSE s.errors
<1>1. loading \in [Filters -> BOOLEAN] /\ errors \in SUBSET Filters
  BY DEF Stores
<1>2. Failure(s, f, isError) = [s EXCEPT !.isLoading = loading, !.errors = errors]
  BY DEF Failure
<1> HIDE DEF loading, errors
<1>3. [s EXCEPT !.isLoading = loading, !.errors = errors] \in Stores
  BY <1>1 DEF Stores
<1>4. Failure(s, f, isError).lists = s.lists /\ Failure(s, f, isError).isLoading = loading
  BY <1>2 DEF Stores
<1> QED
  BY <1>2, <1>3, <1>4 DEF loading

LEMMA DeletedType ==
  ASSUME NEW s \in Stores, NEW e
  PROVE  /\ Deleted(s, e) \in Stores /\ Deleted(s, e).lists = s.lists
         /\ Deleted(s, e).isLoading = s.isLoading
  BY DEF Deleted, Stores

(* When the one request of a filter is gone, the filter is not loading.    *)
LEMMA RequestGone ==
  ASSUME NEW a, a \in Apps, Loads(a), NEW r \in a.requests, NEW b, b \in Apps,
         b.requests = a.requests \ {r},
         b.store.isLoading = [a.store.isLoading EXCEPT ![r.filter] = FALSE]
  PROVE  Loads(b)
<1>1. a.store.isLoading \in [Filters -> BOOLEAN] /\ a.requests \subseteq Requests
  BY DEF Apps, Stores
<1>2. r.filter \in Filters
  BY <1>1 DEF Requests
<1> SUFFICES ASSUME NEW f \in Filters
    PROVE  /\ \A p, q \in b.requests : p.filter = f /\ q.filter = f => p = q
           /\ b.store.isLoading[f] <=> \E q \in b.requests : q.filter = f
  BY DEF Loads
<1>3. \A p, q \in a.requests : p.filter = f /\ q.filter = f => p = q
  BY DEF Loads
<1>4. a.store.isLoading[f] <=> \E q \in a.requests : q.filter = f
  BY DEF Loads
<1>5. CASE f = r.filter
  <2>1. ~ b.store.isLoading[f]
    BY <1>1, <1>5
  <2>2. \A q \in b.requests : q.filter # f
    BY <1>3, <1>5
  <2> QED
    BY <2>1, <2>2, <1>3
<1>6. CASE f # r.filter
  <2>1. b.store.isLoading[f] = a.store.isLoading[f]
    BY <1>1, <1>6
  <2> QED
    BY <2>1, <1>3, <1>4, <1>6
<1> QED
  BY <1>5, <1>6

LEMMA GoodLater ==
  ASSUME NEW a, NEW now \in Nat, NEW later \in Nat, now <= later, Good(a, now)
  PROVE  Good(a, later)
<1>1. a.store.lists \in [Filters -> Answers \cup {None}] /\ a.requests \subseteq Requests
  BY DEF Good, Apps, Stores
<1>2. \A f \in Filters : a.store.lists[f] # None => a.store.lists[f].at \in Nat
  BY <1>1 DEF Answers
<1>3. \A r \in a.requests : r.answer # None => r.answer.at \in Nat
  BY <1>1 DEF Requests, Answers
<1> QED
  BY <1>2, <1>3 DEF Good, Ordered

-----------------------------------------------------------------------------
(* One step.                                                               *)

InOrder(a, b) ==
  \A f \in Filters :
    a.store.lists[f] # None =>
      b.store.lists[f] # None /\ b.store.lists[f].at >= a.store.lists[f].at

LEMMA SameInOrder ==
  ASSUME NEW a \in Apps, NEW b, b.store.lists = a.store.lists
  PROVE  InOrder(a, b)
<1>1. a.store.lists \in [Filters -> Answers \cup {None}]
  BY DEF Apps, Stores
<1>2. \A f \in Filters : a.store.lists[f] # None => a.store.lists[f].at \in Nat
  BY <1>1 DEF Answers
<1> QED
  BY <1>2 DEF InOrder

Kept == IInv' /\ InOrder(app, app')

\* A step of the browser that leaves the server and the commands alone.
LEMMA BrowserStep ==
  ASSUME IInv, NEW b, app' = b, Good(b, changes), Alive(b), Shows(b),
         b.store.lists = app.store.lists,
         UNCHANGED <<server, commands, changes, failures>>
  PROVE  Kept
<1>1. TypeOK'
  BY DEF IInv, TypeOK, Good
<1>2. InOrder(app, app')
  BY SameInOrder DEF IInv, Good
<1> QED
  BY <1>1, <1>2 DEF Kept, IInv

LEMMA OpenKeeps ==
  ASSUME IInv, NEW u \in Filters \cup {None}, Open(u)
  PROVE  Kept
<1> DEFINE page == IF u # None THEN u ELSE PageFilter(app)
           a == [app EXCEPT !.isRunning = TRUE, !.pageFilter = page]
           f == PageFilter(a)
           b == Render(a) c == Load(b, f)
<1>1. app \in Apps /\ changes \in Nat /\ page \in Filters
  BY FilterTypes DEF IInv, TypeOK
<1> HIDE DEF page
<1>2. a \in Apps /\ a.store = app.store /\ a.requests = app.requests
  BY <1>1 DEF Apps
<1>3. Good(a, changes)
  BY <1>2 DEF IInv, Good, Loads, Ordered
<1>4. f \in Filters
  BY <1>2, FilterTypes
<1>5. app' = IF isLoadingEntities(a.store, f) THEN c ELSE Updated(c)
  BY DEF Open, page
<1> HIDE DEF a
<1>6. Good(b, changes) /\ SameData(a, b) /\ Shows(b)
  BY <1>1, <1>3, RenderKeeps
<1> HIDE DEF b, f
<1>7. Good(c, changes) /\ SameData(b, c) /\ Alive(c) /\ Shows(c)
  BY <1>1, <1>4, <1>6, LoadKeeps
<1> HIDE DEF c
<1>8. /\ Good(Updated(c), changes) /\ SameData(c, Updated(c))
      /\ Alive(Updated(c)) /\ Shows(Updated(c))
  BY <1>1, <1>7, UpdatedKeeps
<1>9. UNCHANGED <<server, commands, changes, failures>>
  BY DEF Open
<1>10. CASE app' = c
  BY <1>2, <1>6, <1>7, <1>9, <1>10, BrowserStep DEF SameData
<1>11. CASE app' = Updated(c)
  BY <1>2, <1>6, <1>7, <1>8, <1>9, <1>11, BrowserStep DEF SameData
<1> QED
  BY <1>5, <1>10, <1>11

LEMMA CloseKeeps ==
  ASSUME IInv, Close
  PROVE  Kept
<1> DEFINE rs == {[r EXCEPT !.own = FALSE] : r \in app.requests}
           b == [app EXCEPT !.isRunning = FALSE, !.timer = FALSE, !.requests = rs,
                            !.entities = {}, !.counts = None, !.loadedFilter = DefaultFilter]
<1>1. app \in Apps /\ app.requests \subseteq Requests
  BY DEF IInv, TypeOK, Apps
<1>2. \A q \in rs : q \in Requests /\ \E r \in app.requests :
        /\ q = [r EXCEPT !.own = FALSE]
        /\ q.filter = r.filter /\ q.answer = r.answer
  BY <1>1 DEF Requests
<1>3. \A r \in app.requests : \E q \in rs : q.filter = r.filter
  <2> TAKE r \in app.requests
  <2>1. [r EXCEPT !.own = FALSE] \in rs /\ [r EXCEPT !.own = FALSE].filter = r.filter
    BY <1>1 DEF Requests
  <2> QED
    BY <2>1
<1>4. app' = b /\ UNCHANGED <<server, changes, failures>>
  BY DEF Close
<1> HIDE DEF rs
<1>5. /\ b \in Apps /\ b.store = app.store /\ b.requests = rs /\ b.isRunning = FALSE
  BY <1>1, <1>2, FilterTypes DEF Apps
<1> HIDE DEF b
<1>6. Loads(b)
  <2> SUFFICES ASSUME NEW f \in Filters
      PROVE  /\ \A p, q \in rs : p.filter = f /\ q.filter = f => p = q
             /\ app.store.isLoading[f] <=> \E q \in rs : q.filter = f
    BY <1>5 DEF Loads
  <2>1. \A p, q \in app.requests : p.filter = f /\ q.filter = f => p = q
    BY DEF IInv, Good, Loads
  <2>2. app.store.isLoading[f] <=> \E q \in app.requests : q.filter = f
    BY DEF IInv, Good, Loads
  <2>3. \A p, q \in rs : p.filter = f /\ q.filter = f => p = q
    <3> SUFFICES ASSUME NEW p \in rs, NEW q \in rs, p.filter = f, q.filter = f
        PROVE  p = q
      OBVIOUS
    <3>1. PICK r \in app.requests : p = [r EXCEPT !.own = FALSE] /\ p.filter = r.filter
      BY <1>2
    <3>2. PICK t \in app.requests : q = [t EXCEPT !.own = FALSE] /\ q.filter = t.filter
      BY <1>2
    <3> QED
      BY <2>1, <3>1, <3>2
  <2> QED
    BY <1>2, <1>3, <2>2, <2>3
<1>7. Ordered(b, changes)
  BY <1>2, <1>5 DEF IInv, Good, Ordered
<1>8. Good(b, changes) /\ Alive(b) /\ Shows(b)
  BY <1>5, <1>6, <1>7 DEF Good, Alive, Shows
<1>9. commands' \subseteq [kind : {"delete", "create"}, entity : Entities,
                           done : BOOLEAN, own : BOOLEAN]
  BY DEF IInv, TypeOK, Close
<1>10. TypeOK'
  BY <1>4, <1>5, <1>9 DEF IInv, TypeOK
<1>11. InOrder(app, app')
  BY <1>1, <1>4, <1>5, SameInOrder
<1> QED
  BY <1>4, <1>8, <1>10, <1>11 DEF Kept, IInv

LEMMA TimerKeeps ==
  ASSUME IInv, handleTimer
  PROVE  Kept
<1> DEFINE b == [app EXCEPT !.timer = FALSE]
<1>1. /\ b \in Apps /\ b.store = app.store /\ b.requests = app.requests
      /\ b.isRunning = app.isRunning /\ b.pageFilter = app.pageFilter
      /\ b.loadedFilter = app.loadedFilter /\ b.entities = app.entities
  BY DEF IInv, TypeOK, Apps
<1>2. Good(b, changes) /\ Shows(b) /\ changes \in Nat
  BY <1>1 DEF IInv, TypeOK, Good, Loads, Ordered, Shows, PageFilter
<1>3. app' = Reload(b) /\ UNCHANGED <<server, commands, changes, failures>>
  BY DEF handleTimer
<1> HIDE DEF b
<1>4. /\ Good(Reload(b), changes) /\ SameData(b, Reload(b))
      /\ Alive(Reload(b)) /\ Shows(Reload(b))
  BY <1>2, ReloadKeeps
<1> QED
  BY <1>1, <1>3, <1>4, BrowserStep DEF SameData

LEMMA GoToKeeps ==
  ASSUME IInv, NEW f, GoTo(f)
  PROVE  Kept
<1> DEFINE b == UpdateFilter(app, f)
<1>1. /\ f \in Filters /\ app' = Updated(b) /\ changes \in Nat
      /\ UNCHANGED <<server, commands, changes, failures>>
  BY DEF GoTo, ChangeFilter, IInv, TypeOK
<1>2. Good(b, changes) /\ SameData(app, b) /\ Alive(b) /\ Shows(b)
  BY <1>1, UpdateFilterKeeps DEF IInv
<1> HIDE DEF b
<1>3. /\ Good(Updated(b), changes) /\ SameData(b, Updated(b))
      /\ Alive(Updated(b)) /\ Shows(Updated(b))
  BY <1>1, <1>2, UpdatedKeeps
<1> QED
  BY <1>1, <1>2, <1>3, BrowserStep DEF SameData

LEMMA ResetKeeps ==
  ASSUME IInv, handleFilterReset
  PROVE  Kept
<1> DEFINE a == [app EXCEPT !.pageFilter = None]
           f == PageFilter(app)
           b == Load(a, f)
<1>1. /\ a \in Apps /\ a.store = app.store /\ a.requests = app.requests
      /\ f \in Filters /\ changes \in Nat
  BY FilterTypes DEF IInv, TypeOK, Apps
<1>2. Good(a, changes)
  BY <1>1 DEF IInv, Good, Loads, Ordered
<1>3. app' = Updated(b) /\ UNCHANGED <<server, commands, changes, failures>>
  BY DEF handleFilterReset
<1> HIDE DEF a, f
<1>4. Good(b, changes) /\ SameData(a, b) /\ Alive(b)
  BY <1>1, <1>2, LoadKeeps
<1> HIDE DEF b
<1>5. /\ Good(Updated(b), changes) /\ SameData(b, Updated(b))
      /\ Alive(Updated(b)) /\ Shows(Updated(b))
  BY <1>1, <1>4, UpdatedKeeps
<1> QED
  BY <1>1, <1>3, <1>4, <1>5, BrowserStep DEF SameData

-----------------------------------------------------------------------------
(* The requests.                                                           *)

LEMMA AnswerType ==
  ASSUME IInv, NEW f \in Filters
  PROVE  Answer(f) \in Answers /\ Answer(f).at = changes
<1>1. server \subseteq Entities /\ changes \in Nat
  BY DEF IInv, TypeOK
<1>2. IsFiniteSet(Matching(f))
  BY <1>1, EntitiesAssumption, FS_Subset DEF Matching
<1>3. Cardinality(Matching(f)) \in Nat
  BY <1>2, FS_CardinalityType
<1>4. PageOf(f) \subseteq Entities
  BY <1>1 DEF PageOf, Matching
<1>5. f.first \in Nat
  BY FiltersAssumption
<1> QED
  BY <1>1, <1>3, <1>4, <1>5 DEF Answer, Answers

LEMMA ServeRequestKeeps ==
  ASSUME IInv, NEW r \in app.requests, ServeRequest(r)
  PROVE  Kept
<1> DEFINE new == [r EXCEPT !.answer = Answer(r.filter)]
           rs == (app.requests \ {r}) \cup {new}
           b == [app EXCEPT !.requests = rs]
<1>1. app \in Apps /\ app.requests \subseteq Requests /\ r \in Requests
  BY DEF IInv, TypeOK, Apps
<1>2. r.filter \in Filters
  BY <1>1 DEF Requests
<1>3. Answer(r.filter) \in Answers /\ Answer(r.filter).at = changes
  BY <1>2, AnswerType
<1>4. /\ new \in Requests /\ new.filter = r.filter /\ new.own = r.own
      /\ new.answer = Answer(r.filter)
  BY <1>1, <1>3 DEF Requests
<1>5. app' = b /\ UNCHANGED <<server, commands, changes, failures>>
  BY DEF ServeRequest
<1> HIDE DEF new
<1>6. rs \in SUBSET Requests
  BY <1>1, <1>4
<1>7. /\ b \in Apps /\ b.store = app.store /\ b.requests = rs
      /\ b.isRunning = app.isRunning /\ b.timer = app.timer
      /\ b.pageFilter = app.pageFilter /\ b.loadedFilter = app.loadedFilter
      /\ b.entities = app.entities
  BY <1>1, <1>6 DEF Apps
<1> HIDE DEF b
<1>8. Loads(b)
  <2> SUFFICES ASSUME NEW f \in Filters
      PROVE  /\ \A p, q \in rs : p.filter = f /\ q.filter = f => p = q
             /\ app.store.isLoading[f] <=> \E q \in rs : q.filter = f
    BY <1>7 DEF Loads
  <2>1. \A p, q \in app.requests : p.filter = f /\ q.filter = f => p = q
    BY DEF IInv, Good, Loads
  <2>2. app.store.isLoading[f] <=> \E q \in app.requests : q.filter = f
    BY DEF IInv, Good, Loads
  <2> QED
    BY <1>4, <2>1, <2>2
<1>9. Ordered(b, changes)
  <2>1. /\ \A f \in Filters : app.store.lists[f] # None => app.store.lists[f].at <= changes
        /\ \A q \in app.requests : q.answer # None =>
             /\ q.answer.at <= changes
             /\ app.store.lists[q.filter] # None =>
                  app.store.lists[q.filter].at <= q.answer.at
    BY DEF IInv, Good, Ordered
  <2>2. changes \in Nat
    BY DEF IInv, TypeOK
  <2>3. \A q \in rs : q.answer # None =>
          /\ q.answer.at <= changes
          /\ app.store.lists[q.filter] # None => app.store.lists[q.filter].at <= q.answer.at
    <3> TAKE q \in rs
    <3>1. CASE q = new
      BY <1>2, <1>3, <1>4, <2>1, <2>2, <3>1
    <3>2. CASE q # new
      BY <2>1, <3>2
    <3> QED
      BY <3>1, <3>2
  <2> QED
    BY <1>7, <2>1, <2>3 DEF Ordered
<1>10. Good(b, changes)
  BY <1>7, <1>8, <1>9 DEF Good
<1>11. Alive(b)
  BY <1>4, <1>7 DEF IInv, Alive
<1>12. Shows(b)
  BY <1>7 DEF IInv, Shows, PageFilter
<1> QED
  BY <1>5, <1>7, <1>10, <1>11, <1>12, BrowserStep

(* A request ends: the store has changed for its filter, the page is       *)
(* rendered, and the Reload that waits for it starts its timer.            *)
LEMMA EndKeeps ==
  ASSUME IInv, NEW r \in app.requests, NEW b, Good(b, changes),
         b.requests = app.requests \ {r},
         b.isRunning = app.isRunning, b.timer = app.timer
  PROVE  LET c == Resolved(Updated(b), r.own)
         IN  /\ Good(c, changes) /\ Alive(c) /\ Shows(c)
             /\ c.store.lists = b.store.lists
<1> DEFINE u == Updated(b)
<1>1. changes \in Nat /\ app \in Apps
  BY DEF IInv, TypeOK
<1>2. Good(u, changes) /\ SameData(b, u) /\ Shows(u) /\ (Alive(b) => Alive(u))
  BY <1>1, UpdatedKeeps
<1> HIDE DEF u
<1>3. CASE r.own
  BY <1>1, <1>2, <1>3, StartTimerKeeps DEF Resolved, SameData, u
<1>4. CASE ~r.own
  <2>1. Alive(b)
    BY <1>4 DEF IInv, Alive
  <2> QED
    BY <1>2, <1>4, <2>1 DEF Resolved, SameData, u
<1> QED
  BY <1>3, <1>4

LEMMA LoadingSuccessKeeps ==
  ASSUME IInv, NEW r \in app.requests, LoadingSuccess(r)
  PROVE  Kept
<1> DEFINE s == Success(app.store, r.filter, r.answer)
           rs == app.requests \ {r}
           b == [app EXCEPT !.requests = rs, !.store = s]
           c == Resolved(Updated(b), r.own)
<1>1. /\ app \in Apps /\ app.store \in Stores /\ app.requests \subseteq Requests
      /\ r \in Requests /\ changes \in Nat
  BY DEF IInv, TypeOK, Apps
<1>2. r.answer # None /\ app' = c /\ UNCHANGED <<server, commands, changes, failures>>
  BY DEF LoadingSuccess
<1>3. r.filter \in Filters /\ r.answer \in Answers
  BY <1>1, <1>2 DEF Requests
<1>4. /\ s \in Stores /\ s.lists = [app.store.lists EXCEPT ![r.filter] = r.answer]
      /\ s.isLoading = [app.store.isLoading EXCEPT ![r.filter] = FALSE]
  BY <1>1, <1>3, SuccessType
<1> HIDE DEF s
<1>5. /\ b \in Apps /\ b.store = s /\ b.requests = rs
      /\ b.isRunning = app.isRunning /\ b.timer = app.timer
  <2>1. rs \in SUBSET Requests
    BY <1>1
  <2>2. b = [app EXCEPT !.requests = rs, !.store = s]
    OBVIOUS
  <2>3. s \in Stores /\ app \in Apps
    BY <1>1, <1>4
  <2> HIDE DEF rs, b
  <2> QED
    BY <2>1, <2>2, <2>3 DEF Apps
<1> HIDE DEF b
<1>6. Loads(b)
  BY <1>1, <1>4, <1>5, RequestGone DEF IInv, Good
<1>7. app.store.lists \in [Filters -> Answers \cup {None}]
  BY <1>1 DEF Stores
<1>8. /\ \A f \in Filters : app.store.lists[f] # None => app.store.lists[f].at <= changes
      /\ \A q \in app.requests : q.answer # None =>
           /\ q.answer.at <= changes
           /\ app.store.lists[q.filter] # None =>
                app.store.lists[q.filter].at <= q.answer.at
  BY DEF IInv, Good, Ordered
<1>9. \A q \in rs : q.filter # r.filter
  BY <1>3 DEF IInv, Good, Loads
<1>10. Ordered(b, changes)
  <2>1. \A f \in Filters : s.lists[f] # None => s.lists[f].at <= changes
    BY <1>2, <1>4, <1>7, <1>8
  <2>2. \A q \in rs : q.answer # None =>
          q.answer.at <= changes /\ (s.lists[q.filter] # None => s.lists[q.filter].at <= q.answer.at)
    <3> SUFFICES ASSUME NEW q \in rs, q.answer # None
        PROVE  q.answer.at <= changes
               /\ (s.lists[q.filter] # None => s.lists[q.filter].at <= q.answer.at)
      OBVIOUS
    <3>1. q.filter \in Filters
      BY <1>1 DEF Requests
    <3>2. s.lists[q.filter] = app.store.lists[q.filter]
      BY <1>4, <1>7, <1>9, <3>1
    <3> QED
      BY <1>8, <3>2
  <2> QED
    BY <1>5, <2>1, <2>2 DEF Ordered
<1>11. Good(b, changes)
  BY <1>5, <1>6, <1>10 DEF Good
<1>12. Good(c, changes) /\ Alive(c) /\ Shows(c) /\ c.store.lists = s.lists
  BY <1>5, <1>11, EndKeeps
<1>13. InOrder(app, app')
  <2> SUFFICES ASSUME NEW f \in Filters, app.store.lists[f] # None
      PROVE  s.lists[f] # None /\ s.lists[f].at >= app.store.lists[f].at
    BY <1>2, <1>12 DEF InOrder
  <2>1. CASE f = r.filter
    <3>1. s.lists[f] = r.answer
      BY <1>4, <1>7, <2>1
    <3>2. r.answer.at \in Nat /\ app.store.lists[f].at \in Nat
      BY <1>3, <1>7 DEF Answers
    <3>3. app.store.lists[f].at <= r.answer.at
      BY <1>2, <1>8, <2>1
    <3> QED
      BY <1>2, <3>1, <3>2, <3>3
  <2>2. CASE f # r.filter
    <3>1. s.lists[f] = app.store.lists[f] /\ app.store.lists[f].at \in Nat
      BY <1>4, <1>7, <2>2 DEF Answers
    <3> QED
      BY <3>1
  <2> QED
    BY <2>1, <2>2
<1> HIDE DEF c
<1>14. TypeOK'
  BY <1>2, <1>12 DEF IInv, TypeOK, Good
<1> QED
  BY <1>2, <1>12, <1>13, <1>14 DEF Kept, IInv

LEMMA LoadingErrorKeeps ==
  ASSUME IInv, NEW r \in app.requests, NEW isError \in BOOLEAN, LoadingError(r, isError)
  PROVE  Kept
<1> DEFINE s == Failure(app.store, r.filter, isError)
           rs == app.requests \ {r}
           b == [app EXCEPT !.requests = rs, !.store = s]
           c == Resolved(Updated(b), r.own)
<1>1. /\ app \in Apps /\ app.store \in Stores /\ app.requests \subseteq Requests
      /\ r \in Requests /\ changes \in Nat /\ failures \in Nat
  BY DEF IInv, TypeOK, Apps
<1>2. app' = c /\ UNCHANGED <<server, commands, changes>> /\ failures' = failures + 1
  BY DEF LoadingError
<1>3. r.filter \in Filters
  BY <1>1 DEF Requests
<1>4. /\ s \in Stores /\ s.lists = app.store.lists
      /\ s.isLoading = [app.store.isLoading EXCEPT ![r.filter] = FALSE]
  BY <1>1, <1>3, FailureType
<1> HIDE DEF s
<1>5. /\ b \in Apps /\ b.store = s /\ b.requests = rs
      /\ b.isRunning = app.isRunning /\ b.timer = app.timer
  <2>1. rs \in SUBSET Requests
    BY <1>1
  <2>2. b = [app EXCEPT !.requests = rs, !.store = s]
    OBVIOUS
  <2>3. s \in Stores /\ app \in Apps
    BY <1>1, <1>4
  <2> HIDE DEF rs, b
  <2> QED
    BY <2>1, <2>2, <2>3 DEF Apps
<1> HIDE DEF b
<1>6. Loads(b)
  BY <1>1, <1>4, <1>5, RequestGone DEF IInv, Good
<1>7. Good(b, changes)
  BY <1>4, <1>5, <1>6 DEF IInv, Good, Ordered
<1>8. Good(c, changes) /\ Alive(c) /\ Shows(c) /\ c.store.lists = app.store.lists
  BY <1>4, <1>5, <1>7, EndKeeps
<1> HIDE DEF c
<1>9. TypeOK'
  BY <1>1, <1>2, <1>8 DEF IInv, TypeOK, Good
<1>10. InOrder(app, app')
  BY <1>1, <1>2, <1>8, SameInOrder
<1> QED
  BY <1>2, <1>8, <1>9, <1>10 DEF Kept, IInv

-----------------------------------------------------------------------------
(* The commands, and the changes of others.                                *)

Commands == [kind : {"delete", "create"}, entity : Entities,
             done : BOOLEAN, own : BOOLEAN]

(* A step that the browser takes no part in.                               *)
LEMMA ServerStep ==
  ASSUME IInv, UNCHANGED app, server' \subseteq Entities, commands' \subseteq Commands,
         changes' \in Nat, failures' \in Nat, changes <= changes'
  PROVE  Kept
<1>1. changes \in Nat /\ app \in Apps
  BY DEF IInv, TypeOK
<1>2. Good(app, changes')
  BY <1>1, GoodLater DEF IInv
<1>3. TypeOK'
  BY DEF IInv, TypeOK, Commands
<1>4. InOrder(app, app')
  BY <1>1, SameInOrder
<1> QED
  BY <1>2, <1>3, <1>4 DEF Kept, IInv

LEMMA SendKeeps ==
  ASSUME IInv, NEW kind \in {"delete", "create"}, NEW e \in Entities, Send(kind, e)
  PROVE  Kept
<1>1. /\ server \subseteq Entities /\ commands \subseteq Commands
      /\ changes \in Nat /\ failures \in Nat
  BY DEF IInv, TypeOK, Commands
<1>2. [kind |-> kind, entity |-> e, done |-> FALSE, own |-> TRUE] \in Commands
  BY DEF Commands
<1>3. /\ commands' = commands \cup {[kind |-> kind, entity |-> e, done |-> FALSE, own |-> TRUE]}
      /\ UNCHANGED <<server, app, changes, failures>>
  BY DEF Send
<1>4. server' \subseteq Entities /\ commands' \subseteq Commands
  BY <1>1, <1>2, <1>3
<1>5. changes' \in Nat /\ changes <= changes' /\ failures' \in Nat
  BY <1>1, <1>3
<1> QED
  BY <1>3, <1>4, <1>5, ServerStep

LEMMA ServeCommandKeeps ==
  ASSUME IInv, NEW c \in commands, ServeCommand(c)
  PROVE  Kept
<1>1. /\ server \subseteq Entities /\ commands \subseteq Commands
      /\ changes \in Nat /\ failures \in Nat
  BY DEF IInv, TypeOK, Commands
<1>2. c.entity \in Entities /\ [c EXCEPT !.done = TRUE] \in Commands
  BY <1>1 DEF Commands
<1>3. /\ server' \subseteq server \cup {c.entity} /\ changes' = changes + 1
      /\ commands' = (commands \ {c}) \cup {[c EXCEPT !.done = TRUE]}
      /\ UNCHANGED <<app, failures>>
  BY DEF ServeCommand, Change
<1>4. server' \subseteq Entities /\ commands' \subseteq Commands
  BY <1>1, <1>2, <1>3
<1>5. changes' \in Nat /\ changes <= changes' /\ failures' \in Nat
  BY <1>1, <1>3
<1> QED
  BY <1>3, <1>4, <1>5, ServerStep

LEMMA OthersChangeKeeps ==
  ASSUME IInv, NEW e \in Entities, OthersChange(e)
  PROVE  Kept
<1>1. /\ server \subseteq Entities /\ commands \subseteq Commands
      /\ changes \in Nat /\ failures \in Nat
  BY DEF IInv, TypeOK, Commands
<1>2. /\ server' \subseteq server \cup {e} /\ changes' = changes + 1
      /\ UNCHANGED <<app, commands, failures>>
  BY DEF OthersChange, Change
<1>3. server' \subseteq Entities /\ commands' \subseteq Commands
  BY <1>1, <1>2
<1>4. changes' \in Nat /\ changes <= changes' /\ failures' \in Nat
  BY <1>1, <1>2
<1> QED
  BY <1>2, <1>3, <1>4, ServerStep

LEMMA CommandFailedKeeps ==
  ASSUME IInv, NEW c \in commands, CommandFailed(c)
  PROVE  Kept
<1>1. /\ server \subseteq Entities /\ commands \subseteq Commands
      /\ changes \in Nat /\ failures \in Nat
  BY DEF IInv, TypeOK, Commands
<1>2. /\ failures' = failures + 1 /\ commands' = commands \ {c}
      /\ UNCHANGED <<server, app, changes>>
  BY DEF CommandFailed
<1> QED
  BY <1>1, <1>2, ServerStep

(* A deletion that is done leaves the lists, then the page is rendered.    *)
LEMMA DeletedKeeps ==
  ASSUME IInv, NEW e
  PROVE  LET a == Updated([app EXCEPT !.store = Deleted(@, e)])
         IN  /\ Good(a, changes) /\ Alive(a) /\ Shows(a)
             /\ a.store.lists = app.store.lists
<1> DEFINE s == Deleted(app.store, e)
           b == [app EXCEPT !.store = s]
<1>1. changes \in Nat /\ app \in Apps /\ app.store \in Stores
  BY DEF IInv, TypeOK, Apps
<1>2. /\ s \in Stores /\ s.lists = app.store.lists
      /\ s.isLoading = app.store.isLoading
  BY <1>1, DeletedType
<1>3. b = [app EXCEPT !.store = Deleted(@, e)]
  OBVIOUS
<1> HIDE DEF s
<1>4. /\ b \in Apps /\ b.store = s /\ b.requests = app.requests
      /\ b.isRunning = app.isRunning /\ b.timer = app.timer
  BY <1>1, <1>2 DEF Apps
<1> HIDE DEF b
<1>5. Good(b, changes) /\ Alive(b)
  BY <1>2, <1>4 DEF IInv, Good, Loads, Ordered, Alive
<1>6. /\ Good(Updated(b), changes) /\ SameData(b, Updated(b))
      /\ Alive(Updated(b)) /\ Shows(Updated(b))
  BY <1>1, <1>5, UpdatedKeeps
<1> QED
  BY <1>2, <1>3, <1>4, <1>6 DEF SameData

LEMMA CommandDoneKeeps ==
  ASSUME IInv, NEW c \in commands, CommandDone(c)
  PROVE  Kept
<1> DEFINE a == IF c.kind = "delete"
                THEN Updated([app EXCEPT !.store = Deleted(@, c.entity)]) ELSE app
           b == IF c.own THEN Reload(a) ELSE a
<1>1. /\ app \in Apps /\ server \subseteq Entities /\ commands \subseteq Commands
      /\ changes \in Nat /\ failures \in Nat
  BY DEF IInv, TypeOK, Commands
<1>2. /\ Good(a, changes) /\ Alive(a) /\ Shows(a)
      /\ a.store.lists = app.store.lists
  BY DeletedKeeps DEF IInv
<1>3. /\ app' = b /\ commands' = commands \ {c}
      /\ UNCHANGED <<server, changes, failures>>
  BY DEF CommandDone
<1> HIDE DEF a
<1>4. /\ Good(b, changes) /\ Alive(b) /\ Shows(b)
      /\ b.store.lists = app.store.lists
  BY <1>1, <1>2, ReloadKeeps DEF SameData
<1> HIDE DEF b
<1>5. TypeOK'
  BY <1>1, <1>3, <1>4 DEF TypeOK, Good, Commands
<1>6. InOrder(app, app')
  BY <1>1, <1>3, <1>4, SameInOrder
<1> QED
  BY <1>3, <1>4, <1>5, <1>6 DEF Kept, IInv

-----------------------------------------------------------------------------
(* The whole page.                                                         *)

LEMMA InitHolds ==
  ASSUME Init
  PROVE  IInv
<1>1. /\ app \in Apps /\ app.requests = {} /\ app.store = initialState
      /\ app.isRunning = FALSE
  BY InitialStore, FilterTypes DEF Init, Apps
<1>2. TypeOK
  BY <1>1 DEF Init, TypeOK
<1>3. \A f \in Filters : initialState.lists[f] = None /\ initialState.isLoading[f] = FALSE
  BY DEF initialState
<1>4. Good(app, changes) /\ Alive(app) /\ Shows(app)
  BY <1>1, <1>3 DEF Good, Loads, Ordered, Alive, Shows
<1> QED
  BY <1>2, <1>4 DEF IInv

LEMMA UserStepKeeps ==
  ASSUME IInv, UserStep
  PROVE  Kept
<1>1. CASE \E u \in Filters \cup {None} : Open(u)
  BY <1>1, OpenKeeps
<1>2. CASE Close
  BY <1>2, CloseKeeps
<1>3. CASE handleFirst \/ handleNext \/ handlePrevious \/ handleLast
  BY <1>3, GoToKeeps DEF handleFirst, handleNext, handlePrevious, handleLast, GoToItem
<1>4. CASE \E narrow \in BOOLEAN : handleFilterChanged(narrow)
  BY <1>4, GoToKeeps DEF handleFilterChanged
<1>5. CASE handleFilterRemoved
  BY <1>5, GoToKeeps DEF handleFilterRemoved
<1>6. CASE handleFilterReset
  BY <1>6, ResetKeeps
<1>7. CASE \E e \in Entities : handleDelete(e) \/ SaveDialog(e)
  BY <1>7, SendKeeps DEF handleDelete, SaveDialog
<1> QED
  BY <1>1, <1>2, <1>3, <1>4, <1>5, <1>6, <1>7 DEF UserStep

LEMMA NextKeeps ==
  ASSUME IInv, [Next]_vars
  PROVE  Kept
<1>1. CASE UserStep
  BY <1>1, UserStepKeeps
<1>2. CASE handleTimer
  BY <1>2, TimerKeeps
<1>3. CASE RequestStep
  BY <1>3, ServeRequestKeeps, LoadingSuccessKeeps, LoadingErrorKeeps DEF RequestStep
<1>4. CASE CommandStep
  BY <1>4, ServeCommandKeeps, CommandDoneKeeps, CommandFailedKeeps DEF CommandStep
<1>5. CASE \E e \in Entities : OthersChange(e)
  BY <1>5, OthersChangeKeeps
<1>6. CASE UNCHANGED vars
  <2>1. /\ UNCHANGED <<server, app, commands, changes, failures>>
        /\ changes \in Nat /\ failures \in Nat
        /\ server \subseteq Entities /\ commands \subseteq Commands
    BY <1>6 DEF vars, IInv, TypeOK, Commands
  <2> QED
    BY <2>1, ServerStep
<1> QED
  BY <1>1, <1>2, <1>3, <1>4, <1>5, <1>6 DEF Next

LEMMA Invariance == Spec => []IInv
<1>1. IInv /\ [Next]_vars => IInv'
  BY NextKeeps DEF Kept
<1> QED
  BY <1>1, InitHolds, PTL DEF Spec

(* The page, the store and the requests keep their types, and every filter *)
(* in them is one that the page can ask for (usePageFilter, reducers.js).  *)
THEOREM PageTypeCorrect == Spec => []TypeOK
<1>1. IInv => TypeOK
  BY DEF IInv
<1> QED
  BY <1>1, Invariance, PTL

(* A filter is loading exactly while its one request is under way, through *)
(* all changes of filters, closed pages and failures (createLoadEntities). *)
THEOREM FlagsMatchRequests == Spec => []LoadingIffRequested
<1>1. IInv => LoadingIffRequested
  BY DEF IInv, Good, Loads, LoadingIffRequested
<1> QED
  BY <1>1, Invariance, PTL

(* An open page never stops reloading (Reload: startTimer, internalLoad).  *)
THEOREM ReloadingNeverStops == Spec => []ReloadAlive
<1>1. IInv => ReloadAlive
  BY DEF IInv, Alive, ReloadAlive
<1> QED
  BY <1>1, Invariance, PTL

(* What a page shows under a filter that has been loaded is what the store *)
(* holds for it (getDerivedStateFromProps).                                *)
THEOREM ShownIsLoaded == Spec => []ShowsLoadedFilter
<1>1. IInv => ShowsLoadedFilter
  BY DEF IInv, Shows, ShowsLoadedFilter
<1> QED
  BY <1>1, Invariance, PTL

(* The list of a filter is never replaced by an older answer               *)
(* (createLoadEntities and the reducers).                                  *)
THEOREM AnswersStayInOrder == Spec => AnswersInOrder
<1>1. IInv /\ [Next]_vars =>
        [\A f \in Filters :
           LET old == app.store.lists[f] new == app'.store.lists[f]
           IN  old # None => new # None /\ new.at >= old.at]_vars
  BY NextKeeps DEF Kept, InOrder
<1> QED
  BY <1>1, Invariance, PTL DEF Spec, AnswersInOrder

=============================================================================
