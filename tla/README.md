# gsa and gsad: a verification project

TLA+ models, TLC runs and TLAPS proofs for the Greenbone Security Assistant.
`gsad` (C, `src/gsad/src`) is the HTTP daemon: it keeps user sessions, translates
HTTP requests into commands of the Greenbone Management Protocol and sends them
to the manager `gvmd`. `gsa` (JavaScript, `src/gsa/src`) is the web application
that runs in the browser and talks to `gsad`.

## 1. Inventory

### gsad

| component | code | state it keeps | operations |
|---|---|---|---|
| session database | `gsad_session.c` | `users`, a `GPtrArray` of `user_t`; one mutex | get by id, get by name, add (replace), remove, remove others |
| users and sessions | `gsad_user.c`, `gsad_credentials.c` | none of its own: private copies of `user_t` | `user_add`, `user_find`, `user_logout`, renew, expired, setters |
| request handlers | `gsad_http_handler.c`, `gsad.c` (`exec_gmp_get`, `exec_gmp_post`) | per request: copy of the session, parameters, connection to the manager | chain: validate, route by method and URL, find the user, make credentials, run a command |
| session-changing commands | `gsad_gmp.c` (`login`, `authenticate_gmp`, `manager_connect`, `renew_session_gmp`, `save_my_settings_gmp`, `save_user_gmp`) | the copy in the credentials | see section 3 |
| connection watcher | `gsad.c` (`watch_client_connection`, start and end of `exec_gmp_get`) | `connection_watcher_data_t`, its mutex, a thread | wake, look at the client, close the connection to the manager |
| other GMP commands | `gsad_gmp.c` | none | parameters to commands, answers to XML |
| parameters and uploads | `gsad.c` (`params_append_mhd`, `params_mhd_add`), `validator.c` | `params_t` of a request, filled chunk by chunk | append, validate |
| responses and environment | `gsad_http.c`, `gsad_base.c`, `gsad_i18n.c` | `TZ` and the locale of the process, shared by all threads | attach and remove the cookie, set the timezone |
| daemon | `gsad.c` (`main`), `gsad_settings.c` | options | start, stop |

Every request runs in a thread of its own (`MHD_USE_THREAD_PER_CONNECTION`).
Threads meet in four places: the session database (calls under one mutex, but
read, check and write back are separate calls), the descriptor table of the
process (a closed number is given to whoever opens next), the environment of
the process (`TZ`, locale), and gvmd (one account, many sessions). What is
hard: copies of a session that are written back late; a password change that
has to end sessions other threads work on; the watcher closing a connection
under its handler; failures between two steps that belong together.

What makes each part correct:

- session database: each call is atomic; no two entries under one token; the
  removing loop misses nobody and ends.
- users, handlers, commands: a closed session stays closed; an expired one is
  not accepted; a renewal is not lost; after a password change only sessions
  that know it reach the manager; a reply says what was done.
- watcher: nothing closed twice, nothing leaked, nothing used after it was
  freed; an abandoned request is ended; a finished one is answered; a handler
  talks on its own connection only.
- parameters: what is validated is what is used. Environment: times are in the
  timezone of the user they are shown to. Connections of POSTs and logins:
  closed once, on every path.

### gsa

| component | code | state | operations |
|---|---|---|---|
| HTTP client and session of the browser | `gmp/gmp.js`, `gmp/http/http.js`, `web/app.js`, `web/authorized.js`, `web/pages/login/loginpage.js`, `web/components/menu/usermenu.js`, `web/components/observer/sessionobserver.js` | token in the local storage, cookie, `isLoggedIn` and the page of each tab, requests | login at two servers, logout, request, 401, the query of `Authorized`, session timer |
| entities store | `web/store/entities/utils/` | entities by id, lists by filter, loading flags, errors | request, success, error, delete |
| reloading | `web/components/loading/reload.js` | timer, running, visible | load, reload, timer, visibility, unmount |
| list pages | `web/entities/container.js`, `web/entities/page.js`, `web/utils/usePageFilter.js` | entities shown, loaded filter, counts, filter of the page | open, leave, filter, page, delete, create |
| selection and bulk actions | `web/entities/container.js`, `selection.js`, `actions.js`, `gmp/commands/entities.js`; `bulk_delete_gmp` in gsad | kind of selection, objects selected, boxes ticked | tick, untick, change the kind, delete, tag, export |
| dashboards | `web/store/dashboard/settings/`, `web/components/dashboard/`, `web/components/sortable/grid.js`, `gmp/commands/dashboards.js` | settings, defaults, loading, error, dialog | load, optimistic save, drag, add, remove, reset |
| filters and filter widgets | `gmp/models/filter.js`, `gmp/models/filter/`, `web/components/powerfilter/` | a filter (terms, id), a text, a dialog | set, delete, merge, parse, page, sort, compare, save |
| models, commands, parsers | `gmp/models`, `gmp/commands`, `gmp/parser.js` | none that matters here | conversion |
| pages, dialogs, charts | `web/pages`, `web/components` | what is typed into a form | rendering |

How they interact: the pages call the loaders of the store, which call the
HTTP client; answers change the store, and every change of the store renders
the page, whose `componentDidUpdate` may load again. A 401 to any request calls
the listeners in `app.js`, which clear the store and lead to the login page.
Tabs share the local storage and the cookies and nothing else.

What is hard here: answers that arrive late, in another order, or after the
page was left; loads that overlap and skip one another; timers against answers;
two tabs and two servers with one session; state shown before it is saved;
objects remembered while new ones for the same entity arrive; filters changed
in place.

What makes each part correct:

- session of the browser: a session that the daemon does not accept is noticed;
  nobody waits for an answer that was never asked for.
- store, reloading, list pages: a loading flag says what is under way;
  reloading goes on; what is shown belongs to the filter shown, is not replaced
  by something older, and is in the end what the server has.
- selection: what is marked, and only that, is what a bulk action works on; what
  is reported as deleted is gone.
- dashboards: no display is lost, doubled, or put in an empty row; what is
  loading comes to an end.
- filters: the name, the text and the terms of a filter agree; paging and
  sorting are undone by their opposites; what is saved takes effect.

## 2. Plan

Done, in this order (the first carries the core promise of the daemon):

1. `SessionDb`, `GsadSessions` - the life of sessions. Proofs:
`GsadSessionsProofs`. 2. `SessionStore` (abstract), `SessionArray` (detailed,
implements it) - discharges the atomicity that `GsadSessions` takes for granted.
Proofs: `SessionArrayProofs`. 3. `ConnectionWatcher` - handler, watcher and
descriptor numbers. Proofs: `ConnectionWatcherProofs`. 4. `EntitiesStore`,
`EntitiesPage` - the store, reloading and a list page, composed. Proofs:
`EntitiesPageProofs`. 5. `BrowserSession` - tabs, token, cookie and two servers.
Proofs: `BrowserSessionProofs`. 6. `Subsequences` (what the filter of an array
keeps), `Dashboard` - its settings store, its rows, its loads and saves. Proofs:
`DashboardProofs`. 7. `FilterTerms`, `PowerFilter` - the algebra of filters, and
the widgets that change the filter of a page. Proofs: `PowerFilterProofs`. 8.
`BulkActions` - selection, deletion by ids and by filter, the loop in gsad.
Proofs: `BulkActionsProofs`.

Left, most important first:

- Connections of POST requests and logins: `manager_connect`,
  `authenticate_gmp` and the error paths of `save_my_settings_gmp` on the
  descriptor table of `ConnectionWatcher`; a connection is closed once on every
  path.
- The pages that use hooks (`useReload`, `useTiming`, `useSelection`, the
  GraphQL queries) instead of `Reload` and `EntitiesContainer`.
- Bulk tagging and export, which use the selection of `BulkActions`.
- Environment of the process: `TZ` and the locale as variables shared by
  threads (`exec_gmp_get`, `exec_gmp_post`, `attach_sid`).
- Parameters: assembly of fields from chunks, validation.
- The session timer of the browser, and `BrowserSession` on top of
  `GsadSessions` in place of its own abstraction of gsad.

## 3. The models

### SessionDb, GsadSessions

`SessionDb` has the session database as a set of records and one operator per
function of `gsad_session.c`. A record has the token, the owner, `secret` and
the time of the last renewal. `secret` stands for the stored password: the
number of times the account's credentials had been changed when they were
right. So a changed password is one that no session opened earlier knows; that
somebody changes a password back to an older one is outside the model.

`GsadSessions` has one action per critical section of the database or per
exchange with gvmd, because other threads can run between any two of them:

| action | code |
|---|---|
| `LoginAuthenticated`, `LoginRefused`, `UserAddLookup`, `UserAddRemoveExpired`, `UserAdd` | `login`, `authenticate_gmp`, `user_add` |
| `UserFindUnknown`, `UserFindExpired`, `UserFindMismatch`, `UserFindOk`, `UserFindRemove`, `UserFindAdd` | `get_user_from_connection`, `user_find` |
| `LogoutLookup`, `LogoutRemove` | `handle_get_user`, `handle_logout`, `user_logout` |
| `ManagerConnect`, `ManagerRefused`, `RunGet`, `PostRenew`, `RunPost`, `RenewSession` | `manager_connect`, `exec_gmp_get`, `exec_gmp_post`, `renew_session_gmp` |
| `KeepPassword`, `ChangePassword`, `ChangePasswordUnanswered`, `CloseOthers`, `OtherSettings`, `WriteBack` | `save_my_settings_gmp` |
| `SaveUserOnly`, `ModifyUser`, `UserLookup`, `UserClose` | `save_user_gmp` |
| `Tick` | the clock |

`copy` is the copy in the credentials. A POST has a second one, used only to
renew the session (`PostRenew`): the model keeps the difference by not updating
`copy` there. So a POST that saves settings stores the older copy and loses its
own renewal (`gsad_gmp.c:11646`), against `gsad.c:1459` "always renew session
for http post". `renewed` and `entitled` are history: when each session was last
renewed on purpose, and which sessions presented or set the current password.
`issued` makes tokens fresh, as `gvm_uuid_make` does. `user_find` treats cookie
and address as one outcome, `UserFindMismatch`. `user_find` stores the session
again without renewing it, against its comment (`gsad_user.c:346`, run
`user_find`); only logins, POSTs and `renew_session` renew. A logout is answered
200 whatever happened.

Abstracted: parameters and their validation, texts, the other members of
`user_t`. In `save_user_gmp` every accepted change of name, password or
authentication counts as a change of credentials; one that gvmd accepts and that
leaves the credentials as they were is not modelled. Saving the own account is
answered 401 "Authentication method changed" also when nothing of the
authentication changes (`OwnAccountReply`, `gsad_gmp.c:14559`). gvmd does not
let users rename themselves (comment at `gsad_gmp.c:14409`).

### SessionStore, SessionArray

`SessionStore` is the specification of `gsad_session.c` as its callers see it:
a thread asks, later the call takes effect and returns in one step.
`SessionArray` is the code: the array as a sequence, the mutex, one action per
loop iteration (`FindNext`, `FindRemove`, `ScanNext`, `SweepNext`,
`SweepRemove`, ...), the functions as paths through the loops (`Loop`,
`AfterFind`). The refinement maps the abstract database to the array while the
mutex is free and to the array as it was when the mutex was taken otherwise
(`Stored`), so a call takes effect when it unlocks. The array starts at 1.

### ConnectionWatcher

The handler (`Connect`, `Send`, `Read`, `CommandDone`, then either
`CloseUnwatched` or `LockForClose`, `CloseAndUnlock`, `Cancel`, `Join`) and the
watcher (`WatchWake`, `WatchCancelled`, `WatchLock`, `WatchHandlerDone`,
`WatchAgain`, `WatchClose`, `WatchByeDone`) of each GET request. `tls` and
`watch` are the options of the daemon and chosen once. `owner` is the part of
the kernel's descriptor table that matters: whose connection a number denotes;
`LowestFree` is how the kernel hands numbers out. `sock` keeps its number after
a close, as `gvm_connection_t` does. External, modelled from their use here:
closing a connection, sending and reading, the client, gvmd. A thread can be
cancelled only while it sleeps, because the code disables cancellation
everywhere else. The manager may answer, or never answer, or leave. The contents
of commands are not modelled, only how many answers a connection has waiting.
With TLS the watcher does not close the socket but calls `gnutls_bye` with
`GNUTLS_SHUT_RDWR` (`gsad.c:1791`), which waits until the manager has ended the
session too, with the mutex locked: `WatchClose` goes to `bye`, `WatchByeDone`
comes only when the manager has left, and `AnswerDropped` is `gnutls_bye`
throwing away an answer it reads on the way. Three behaviours of the model are
worth knowing: a manager that never ends the session keeps the watcher, and the
handler with it, for ever, also if the reply is ready; without TLS the watcher
closes the socket while the handler still uses its number, another request may
get the number, and the first then talks on the second's connection
(`gsad.c:1795`); and a client that sends its next request early is taken for one
that went away (`gsad.c:1779`).

### EntitiesStore, EntitiesPage

`EntitiesStore` has the reducers and selectors of one type of entity as
operators on a record. `EntitiesPage` composes them with a page: a step is one
task of the event loop with its microtasks and the rendering it causes, so an
event handler, a timer, or the arrival of an answer. The operators of its first
part map one state `app` of the browser to the next and are composed in the
order of the code: `Render` is `getDerivedStateFromProps`, `Updated` adds
`componentDidUpdate`, `Load` is `internalLoad` with `loadEntities`,
`UpdateFilter` and `Reload` are the ways in which the container asks for a
load. The actions: `Open`, `Close`, `handleTimer`; `handleFirst`, `handleNext`,
`handlePrevious`, `handleLast`, `handleFilterChanged`, `handleFilterRemoved`,
`handleFilterReset`; `ServeRequest`, `LoadingSuccess`, `LoadingError`;
`handleDelete`, `SaveDialog`, `ServeCommand`, `CommandDone`, `CommandFailed`,
`OthersChange`. An answer is taken at the server in one step and arrives in a
later one; it can arrive after the page was left (`own` of the request).

A filter is a criterion and a first item; the number of rows is fixed. Times
are counted in changes at the server. A page of a list has its place in the
order of the ids. The length of the reload interval is left out; it is
positive, that is, reloading is not switched off in the settings.

Two behaviours of the model that no property speaks of: a page that is opened
at one of its later pages with nothing loaded goes to the first page before the
server was asked (`container.js:152`, "goto first page if first exceeds the
last page", is also true while nothing is loaded); and `handleFilterReset` loads
the filter that is being left, so the default filter waits for the timer.

### BrowserSession

Tabs that share the token (local storage) and the cookies, gsad and the
GraphQL server. A tab is at the login page, in Authorized waiting for its query
(`asking`), in the application, or at the login page before its effect has run
(`entering`). Actions of the user: `LoadPage`, `login`, `handleLogout`; of the
pages: `LoginPageEffect`, `Load`; of the servers: `Serve`, `Fail`,
`SessionEnds`; answers: `GmpAnswered`, `LoginAnswered`, `Login2Answered`,
`LogoutAnswered`, `Logout2Answered`, `IsAuthenticatedAnswered`. gsad is
abstracted to its live sessions and to what `GsadSessions` has in detail: a
request is accepted when its token is live and belongs to its cookie, a refusal
removes the cookie. A token is the number of the login that got it. The GraphQL
server may answer 401, which logs the tab out as one of gsad does (`logoutLink`
in `app.js`; `Refused`). The query of `Authorized` may fail any number of times,
other requests within `Bounds`.

That of what the user does, and of what the pages load, a tab has one request
under way at a time is a bound (`Room`), not a rule of the code: the form can be
submitted twice before an answer comes. Not modelled: the session timer, which
asks once more whether the session is authenticated; cancelled requests; an
installation without the GraphQL server.

### Dashboard

The stored rows (`server`), what the store has (`settings`, `defaults`,
`isLoading`, `error`) and the requests under way. `Mount` loads the settings
unless a load is under way; the changes of the user (`handleItemsChange` for a
drag, `handleUpdateDisplay`, `handleRemoveDisplay`, `handleNewDisplay`,
`handleResetClick`) all go through `saveSettings`, which changes the store at
once and sends the rows; loads and saves are answered in any order and may fail.
What is stored may be no JSON (`Unparsable`): `getSetting` then returns nothing,
the handler of the load throws, and the load ends without an action
(`LoadUnparsable`, `dashboards.js:96`, `actions.js:127`). `unread` is history:
it says that this has happened. A drag is one step from its start to its end;
that an answer to a load replaces the rows during a drag is left out. Requests
under way are bounded (`Room`). The operations on rows (`move`, `removeDisplay`,
`addDisplay`, `filterDisplays`) are functions on sequences of sequences.
`Select` of `Subsequences` is the `filter` of an array: the elements at a set of
places, in their order, stated by those places and not by a recursion. A change
of a display's filter or state, or of a row's height, keeps the rows
(`handleUpdateDisplay`).

Behaviours of the model that nothing in the repository speaks of: after a stored
value that is no JSON the mark of the load stays until the page is loaded anew,
so that later loads are skipped, with "we are already loading data"
(`actions.js:120`), and neither rows nor an error are shown unless something is
saved; a display that is added before the settings are loaded, or after their
load failed, is saved as the only one of the dashboard; a drag saves the rows
without the displays the user may not see; an answer to an older load replaces
what a save has put in the store; saves may reach the server in the wrong order;
a failed save leaves the store as if it had succeeded.

### FilterTerms, PowerFilter

`FilterTerms` has the operations of `gmp/models/filter.js` as operators on a
sequence of terms and an id. `PowerFilter` has the places in which a filter is
changed: the text field and its buttons (`handleValueChange`,
`handleUpdateFilter`, `handleNamedFilterChange`, `handleRemoveClick`,
`handleResetClick`), the table (`handleFirst`, `handleNext`, `handlePrevious`,
`handleSortChange`), a chart (`handleDataClick`) and the dialog (`onEditClick`,
`onFilterStringChange`, `onFilterValueChange`, `onSortByChange`,
`onSortOrderChange`, `handleSave`, `SaveFails`, `createFilter`,
`onCloseClick`). `Change` is the rendering that follows: `WithRows` of
`usePageFilter`, and `DeriveText`, the `getDerivedStateFromProps` of the text
field.

A text is the sequence of terms it is parsed to: parsing and printing are left
out. `Terms` are what the constructor of a term and `convert` can make: a first
item of 1 or more, any whole number of rows, a field or none for a sort order,
and `Criteria`. The two merges of the code are loops that add to the filter
they look at; the model says at once which terms come to be added (`IsNew`),
and `MergesAreLoops` compares both for all pairs of filters of up to three
terms.

What the properties need beside a change of the filter: `PagesReturn` is about
filters with a first item and a number of rows that is not negative (`-1`
stands for all rows); `SaveTakesEffect` and `TextTellsFilter` except filters
with a keyword twice where `equals` decides, because it only asks whether each
term is among those of the other filter with its keyword: it takes
`name=a name=a` for the same as `name=a name=b`. `TextTellsFilter` is about a
filter with another id or other terms: one with the same terms in another order
leaves the text as it is, also one that was typed and not yet entered.

What the code does and the reader may not expect: `next` of a filter
without `first` stays on the first page; `delete` removes the first term of a
keyword, though its comment says all; `mergeKeywords`, which the dialog uses
for its text, adds only terms with a keyword the filter does not have yet, so
that a word or a changed criterion typed there is dropped without a message,
and can add a second sort order; a save that fails leaves the typed terms
merged in the dialog; `handleSortChange` and `usePageFilter` change filter
objects that others may hold, which the model, whose filters are values, does
not show.

### BulkActions

The selection of `EntitiesContainer` and bulk deletion. An object is an entity
with the number of the load that brought it, since the `Set` of the selection
tells objects apart, not ids. `ticked` are the boxes that show a mark: a box is
part of its row, which is kept as long as the id stays in the table
(`Rendered`), and all boxes are replaced when the kind of selection changes.
`handleSelected` and `handleDeselected` work on the object the row has now.
`handleDeleteBulk` sends the ids selected, or asks for what the filter finds
(`Listed`) and sends those. gsad goes through the ids one after the other
(`DeleteOne`, `Refuse`, `Abort`), in any order, since they come from a hash
table; `Succeed` is `handleChanged`, `Fail` is `handleError`.

Abstracted: a load is answered with what the server has when the answer arrives;
a filter is the set of entities that meet its criterion, and pages beyond the
first are `EntitiesPage`'s; an id is not used twice, and nothing comes back from
the trashcan. gsad takes every status that begins with 2 for a success
(`gsad_gmp.c:15375`), "request submitted" (202) included; the model takes the
entity for gone then, which is an assumption about gvmd. Tagging and export are
not modelled, nor are the pages that use `useSelection`.

Behaviours of the model that no property speaks of: "page contents" deletes
what the filter finds when the deletion starts, not what was shown; objects
that were deleted stay selected, so that the next deletion of the selection
asks for them again and is reported as failed; when the connection to gvmd
breaks after some entities were deleted, the answer says that none were.

## 4. The runs

| run | specification, properties | instance |
|---|---|---|
| `sessions` | `TypeOK`, `UniqueTokens`, `ClosedForGood`, `OnlyEntitledConnect`, `AcceptedWhileFresh` | 2 threads, 2 tokens, 2 users, timeout 0, clock 0..1, 1 password change per account; threads, tokens and users are symmetric (328,101 states) |
| `array` | fair; `TypeOK`, `ImplementsStore`, `MutexReleased` | 2 threads, 4 sessions of 2 users (880,509 states) |
| `watcher` | fair; `TypeOK`, `NoLeak`, `DataOutlivesWatcher`, `ClosedByOwner`, `OwnConnectionWithTls`, `AbandonedIsNoticed`, `ReadyIsSent` | 2 requests, 2 numbers, 1 command each, all four combinations of options (318,828 states) |
| `entities_page` | fair; `TypeOK`, `LoadingIffRequested`, `ReloadAlive`, `ShowsLoadedFilter`, `AnswersInOrder`, `EventuallyCurrent` | 2 entities, 3 filters (two pages of everything, one page of a criterion), 1 row per page, 1 command, 1 disturbance (about 922,000 states) |
| `browser_session` | fair; `TypeOK`, `AskingQueried`, `EndedSessionNoticed`, `AskingEnds` | 2 tabs; 2 logins, or 1 login with a load of a tab and a disturbance, or 1 login and 2 loads (about 305,000 states) |
| `dashboard` | fair; `TypeOK`, `SoundRows`, `LoadingIffRequested`, `DragMovesOne`, `EventuallyShown` | rows `<<1,2>>, <<3>>` of which 3 is hidden, 2 more displays, 3 per row, 2 rows, 2 requests, 1 disturbance; what is stored is sound or cannot be parsed (about 675,000 states) |
| `filters` | `TypeOK`, `IdMeansTerms`, `PagesReturn`, `TextTellsFilter`, `OneSortOrder`, `SaveTakesEffect` | 1 saved filter and 1 to save, 2 fields, 2 texts, 1 chart term, 2 edits, first item up to 2, 6 terms (about 112,000 states) |
| `bulk_actions` | `TypeOK`, `TickedIsSelected`, `SuccessMeansGone` | 3 entities, 2 rows, 2 filters, 1 deletion under way, 2 loads, 1 disturbance (973,827 states) |
| `password_change` | `PasswordChangeIsFinal`, violated | 2 threads, 2 tokens, 1 user |
| `user_find` | `UserFindRenews`, violated | 1 thread, 1 token, 1 user, timeout 1, clock 0..1 |
| `login_page` | fair; `LoginPageAfterError`, violated | 1 tab, 1 login, 1 disturbance |
| `selection_bulk` | `UntickedIsSpared`, violated | as `bulk_actions`, without disturbances |

Why the bounds are enough to be interesting.

- `sessions`: two threads are one that is late and one that overtakes it; with
  two tokens a session can be closed by the other one of the same user or of
  another user; one password change separates old from new. The timeout is 0,
  so that one tick expires every session. `TokenLeft`, `MaxSecret` and
  `MaxTime` are the bounds in guards: a login starts only while a token is left
  for it.
- `array`: three sessions of one user of which two are neighbours make the
  removing loop remove, move up and go on; one of another user must stay;
  storing a session that is there replaces it.
- `watcher`: with two numbers and two requests a number is reused as soon as it
  is closed, since the kernel takes the lowest.
- `entities_page`: with one row per page two entities make two pages, the
  second of which is empty once one of them is deleted. `MaxDisturbances`
  bounds changes at the server and failures together: one change is what makes
  an answer older than another.
- `browser_session`: `Bounds` is a set of alternatives, each of which gives one
  way to get into trouble its full length: two logins that cross, a failure
  beside a second tab, tabs loaded anew in the middle. The query of `Authorized`
  fails without a bound, so that a property cannot hold because the failures
  run out.
- `dashboard`: two of three places in the first row are taken, so a drag can
  fill a row, empty one, or make a new one; two requests overlap, and a third
  would only wait.
- `filters`: a page forward and back, a text and a value in the dialog, an id
  given up and given anew. No text has a keyword twice; the proofs cover those
  that do. `MaxFirst`, `MaxTerms` and `MaxEdits` bound the
  guards.
- `bulk_actions`: of three entities two are on the page; a second load makes
  new objects; one disturbance is enough to make one command of a loop fail.
  In the run there is one deletion, and what overlaps it are the deletions of
  others (`OthersChange`); several deletions of the page itself that overlap are
  covered by the proofs only.

`CHECK_DEADLOCK FALSE` is set where the modelled part really may stop:
`ConnectionWatcher` (each request is served once, or waits for a manager that
never answers), `BrowserSession` (all tabs are at the login page and nobody
logs in any more, by the bound), `Dashboard` (the displays are used up and the
page is left).

Fairness.

- `array`: weak fairness of the steps of the thread that holds the mutex (a
  running thread is scheduled); nothing for threads that wait for it.
- `watcher`: weak fairness of each watcher's steps, and strong fairness of the
  steps that end a handler: a handler waiting for the mutex is enabled whenever
  the watcher sleeps, and the watcher sleeps at least a second between two
  rounds, so it gets the mutex. `FairSpec` has it written out as "infinitely
  often stuck, or infinitely often a step". Nothing is assumed of clients or
  gvmd, so `AbandonedIsNoticed` holds though the manager never answers, and
  `ReadyIsSent` has to except the watcher that waits for the manager in
  `gnutls_bye`.
- `entities_page`: the timer of the browser runs out; a request for entities
  is answered and the answer is handled, filter by filter. Nothing is assumed
  of the user; that a request fails is bounded, not excluded.
- `browser_session`, `login_page`: each tab goes on - what it shows is loaded
  again (`Background`, the pages' reloading), its effects run, its other
  requests are answered (`Foreground`); HTTP requests have a timeout, so an
  answer or an error comes.
  The query of `Authorized` may still fail each time, so `AskingEnds` excepts a
  query that fails: then a tab that takes itself for logged in goes to and fro
  (`login_page`).
- `dashboard`: loads are answered, with a value that can be parsed or not;
  nothing is assumed of saves or of the user.

### What the violated runs show

- `password_change`: a request under way when a password is changed stores its
  session again after `session_remove_other_sessions` removed it. It is then of
  no use (`OnlyEntitledConnect` holds), but it is in the database until it
  expires.
- `user_find`: the comment of `user_find` says that a session it returns is
  renewed; it is stored with the time it had. So a session that is only read
  expires a timeout after its login, its last POST or its last `renew_session`.
  `AcceptedWhileFresh` is about these renewals.
- `login_page`: when the query of `Authorized` fails in a tab that is logged in,
  the tab goes to the login page, which finds `isLoggedIn` and goes back, and
  so on for as long as the query fails: the comment in `authorized.js` promises
  the login page.
- `selection_bulk`: a box is ticked, the list is loaded anew (by the timer, or
  after any change), the box is unticked: the `Set` of the selection keeps the
  object of before the reload, and "Move selection to trashcan" deletes an
  entity whose box is empty.

## 5. The proofs

For every number of threads, tokens, users, requests, descriptors, tabs,
logins, entities and filters. The assumptions are those named in the modules:
`None` differs from the values it is used beside, bounds are natural numbers,
descriptor numbers are numbers, filters are closed under what the page makes of
them, criteria have no keyword of the view, the default filter is among those
saved, and what a dashboard has stored in the beginning is sound.

`GsadSessionsProofs`. `TypeInv` is `TypeOK` with what each value of `pc` says
of the local variables (a thread in `find_ok` has a copy of a session, one in
`login_lookup` has none yet). `SoundInv` adds what links sessions to history:
tokens stored or held are issued, no time is later than the last renewal, a
secret is never newer than the account's, and a session whose secret is current
is entitled. It is inductive because every write to the database is one of
three shapes (a copy under its own token, a removal, a fresh token), which the
lemmas on `AddUser` and `RemoveUser` treat once. From it follow
`RequestsAreFresh` and `OnlyEntitledReachManager`.
`ClosedSessionsStayClosed` rests on where tokens can come from in a step (the
database, a copy, or outside `issued`); `TokensAreUnique` on `AddUser` removing
before it adds.

`SessionArrayProofs`. The invariant says that the array has no two entries with
one token, that at most the holder of the mutex is inside a critical section,
and, for the holder, how far its loop has come: what lies behind the loop
variable does not match, and the array is `before` with exactly the matching
elements behind the loop variable taken out. `MutualExclusion` and the
refinement `ArrayImplementsStore` follow; the lemmas on `RemoveAt` and `Append`
connect sequences with sets.

`ConnectionWatcherProofs`. `Local` is what the two threads of a request know of
each other (who holds the mutex, when the connection is closed, when there is a
watcher); `Owns` says that a number denotes a request's connection exactly
while the request has it open, that is, until either thread closed it, or until
the handler did if TLS is used. `NoLeak` alone is not inductive: it needs `Owns`
at every earlier point, and `Owns` needs `Local`. `OthersKeep` does the
requests that do not step, `CloseOwn` every close. The action properties
`ClosedByOwner` and `OwnConnectionWithTls` follow from the invariant before the
step.

`EntitiesPageProofs`. The actions of a page compose operators on `app`, so the
invariant is one of that record and there is a lemma for each operator: `Good`
(the type, `Loads` for the flags, `Ordered` for the times of answers under way
and stored), `Alive` and `Shows`. `Ordered` is the strengthening that
`AnswersInOrder` needs: no answer on its way is older than what is stored for
its filter, which holds because `Loads` allows one request per filter.
`PageTypeCorrect`, `FlagsMatchRequests`, `ReloadingNeverStops`, `ShownIsLoaded`
and `AnswersStayInOrder` follow.

`BrowserSessionProofs`. The invariant is `TypeOK`, `AskingQueried` and that the
requests for a login carry its number, which a successful login turns into a
token. One lemma for each action, over `StepKeeps`: a tab that asks afterwards
asked before and kept a query, or has a new one. `BrowserTypeCorrect` and
`NoTabWaitsForNothing` follow.

`BulkActionsProofs`. `TypeOK` and `TickedIsSelected` are inductive together
with `DoneIsGone`: of a deletion without a failure so far, what the loop has
passed is gone. It survives the deletions of others because what is gone stays
gone (`GoneStays`), and a step of one deletion leaves the others alone
(`OneClick`). `BulkTypeCorrect`, `NothingTickedIsLeftOut` and
`SuccessIsComplete` follow, the last from the invariant before the step.

`DashboardProofs`. `NthProperties` and `SelectProperties` say what a selection
returns, in which order and from where; from them follows that selecting,
appending, removing and inserting keep rows without an empty one and without a
display twice (`Sound`). `SoundRows` alone is not inductive: a display that is
added could be there already. The invariant adds that all displays in the
store, at the server and in the requests are among those created so far
(`GoodRows`), and that requests are finite in number, so that a new one gets a
number of its own. A stored answer, a save that arrives late, a reset all move
rows that are good from one place to another. `DragMovesOne` follows from the
rows being sound before the step: removing one item and inserting it elsewhere
keeps the order of all others (`Before`). `LoadingMarkIsTrue` is about what the
code's comment takes for granted, that a mark means a load under way: it needs
that there is never a second load and that a mark which outlives its load comes
from a value that could not be parsed, after which no load is sent any more
(`NoLoadAfter`). The results are `DashboardTypeCorrect`,
`RowsStaySound`, `LoadingMarkIsTrue` and `DragMovesOnlyOne`.

`PowerFilterProofs`. First the lemmas on the operations of a filter, with no
state: each takes a filter to a filter, tells what becomes of the id, and never
adds a second sort order (`DeleteProperties`, `SetTermProperties`,
`SetProperties`, `MergeExtraProperties`, `AndProperties`;
`MergeKeywordsProperties` is the exception, and it says when). `SetInPlace` and
`GoToProperties` give `PagesProperties`: a page forward and back is an exchange
of two values in their places. `EqualsMatches` turns `equals`, of a filter
without a keyword twice, into a bijection between the places of the two, and
`SameTimes` turns a bijection into equal numbers of each term; `TextProperties`
finds the bijection between a filter and its text read again. Then the steps.
The invariant is `TypeOK`, `IdMeansTerms`, that no saved filter goes, and that
the filter of the page is still the one the dialog was opened with; without the
last a save that changes nothing could leave the page with another filter. One
lemma for each step gives it and `OneSortOrder` together. `TextTellsFilter`
needs one more invariant, that the text was last made for a filter that equals
the one of the page (`PrevInv`), and `EqualsTwice`, because `equals` is neither
symmetric nor transitive for filters that have a keyword twice. The results are
`FilterTypeCorrect`, `IdsMeanTerms`, `PagesAlwaysReturn`, `OneSortOrderAtATime`,
`SavesTakeEffect` and `TextAlwaysTells`.

With these, every invariant and every action property that a passing run checks
is a theorem, and so is the refinement.

Only model-checked: the liveness properties `MutexReleased`,
`AbandonedIsNoticed`, `ReadyIsSent`, `EventuallyCurrent`, `EndedSessionNoticed`,
`AskingEnds` and `EventuallyShown`, since the prover does not do fairness; and
`MergesAreLoops`, since what a loop along a sequence computes is an induction
over data.

## 6. Not modelled

Section 1 lists the components, `PROJECT.json` gives each its reason.

Most lines of gsa are markup, forms and conversions: a page, a dialog and a
model for each type of entity, icons and charts. They keep no state beyond what
is typed into them, and what happens between them and the server is the pattern
of `EntitiesPage`; a model of them would repeat their text. So the models cover
a small share of the lines, those that decide what happens.

- Translation of requests into commands and of answers into XML, rendering and
  parsing have no state; start-up is system calls.
- The hook-based pages. Reading them beside `reload.js` shows two differences
  that are worth a model of their own: `useTiming` keeps the handle of a timer
  while its load is under way, so a tab that becomes visible during a load
  starts a second one (`useTiming.js:52`), and a load that ends after the page
  was left starts a timer that nothing stops; and it takes an interval of 0 as
  one, where `Reload` takes it as no reloading (`reload.js:29`).
- `useSelection` empties a selection when an object is deselected that is not
  in it (`useSelection.js:44`), and objects of GraphQL pages are new with each
  rendering.
- GnuTLS sessions are modelled as far as that each side ends them and that
  `gnutls_bye` waits for the other, not their internal state, which `gnutls_bye`
  in one thread and a read in another may access together.
- The parts under "Left" in section 2.
