----------------------------- MODULE Dashboard -----------------------------
(* A dashboard of gsa: its displays in rows, which the user drags, removes    *)
(* and adds, the redux state of its settings, and the requests that load and  *)
(* save them at the server. A change is shown and sent at once; what is       *)
(* loaded replaces what is shown.                                             *)
(*                                                                            *)
(* A row is the sequence of its displays, a display the id it got when it was *)
(* created. The height of a row, the filter and the state of a display and    *)
(* the ids of rows are left out.                                              *)
EXTENDS Subsequences, SequencesExt

CONSTANTS
  None,
  Saved,           \* the rows the server has in the beginning, or None
  Unparsable,      \* a stored value that is no JSON
  Hidden,          \* displays the user is not permitted to see, or unknown ones
  maxItemsPerRow, maxRows,
  MaxDisplays,     \* bound: displays that are created
  MaxRequests,     \* bound: requests under way
  MaxDisturbances  \* bound: requests that fail, and pages that are left

Displays == 1 .. MaxDisplays

ASSUME LimitsAssumption ==
  {maxItemsPerRow, maxRows, MaxDisplays, MaxRequests, MaxDisturbances} \subseteq Nat

VARIABLES
  server,    \* the rows that are stored
  unread,    \* history: a load has ended with a value that cannot be parsed
  settings,  \* store: byId[id], or None
  defaults,  \* store: defaults[id]
  isLoading,
  error,
  mounted,   \* the page with the dashboard is open
  dialog,    \* the dialog that adds a display is open
  requests,
  created,   \* displays created so far
  disturbances

vars == <<server, unread, settings, defaults, isLoading, error, mounted, dialog, requests,
          created, disturbances>>

Rows == Seq(Seq(Displays))

\* The limits come with the defaults when settings have been loaded.
Settings == [rows : Rows, limited : BOOLEAN]

\* A load knows the defaults of the page that sent it; both have the rows that
\* come or go with them, if the value can be parsed. Requests are numbered to
\* tell them apart.
Requests == [kind : {"load", "save"}, id : Nat, rows : Rows, parsed : BOOLEAN, done : BOOLEAN]

\* The displays in rows, and which of two of them comes first.
Items(rows) == UNION {ToSet(rows[r]) : r \in DOMAIN rows}

Before(rows, a, b) ==
  \E r, s \in DOMAIN rows : \E i \in DOMAIN rows[r], j \in DOMAIN rows[s] :
    /\ rows[r][i] = a /\ rows[s][j] = b
    /\ r < s \/ (r = s /\ i < j)

\* No row is empty and no display is there twice.
Sound(rows) ==
  /\ \A r \in DOMAIN rows : rows[r] # <<>>
  /\ \A d \in Items(rows) : ~Before(rows, d, d)

\* The server has what a dashboard has saved there, with the first displays.
SavedDisplays == IF Saved = None THEN 0 ELSE Cardinality(Items(Saved))

ASSUME SavedAssumption ==
  Saved # None => Saved \in Rows /\ Sound(Saved) /\ Items(Saved) = 1 .. SavedDisplays

TypeOK ==
  /\ server \in Rows \cup {None, Unparsable}
  /\ settings \in Settings \cup {None}
  /\ defaults \in Rows
  /\ {isLoading, error, mounted, dialog, unread} \subseteq BOOLEAN
  /\ requests \subseteq Requests
  /\ created \in 0 .. MaxDisplays /\ disturbances \in Nat

Init ==
  /\ server \in {Saved, Unparsable} /\ settings = None /\ defaults = <<>>
  /\ isLoading = FALSE /\ error = FALSE /\ mounted = FALSE /\ dialog = FALSE
  /\ requests = {} /\ created = SavedDisplays /\ disturbances = 0 /\ unread = FALSE

-----------------------------------------------------------------------------
(* The operations on rows.                                                   *)

NonEmpty(rows) == Select(rows, {r \in DOMAIN rows : rows[r] # <<>>})

isAllowed(d) == d \notin Hidden

filterDisplays(rows) ==
  [r \in DOMAIN rows |-> Select(rows[r], {i \in DOMAIN rows[r] : isAllowed(rows[r][i])})]

\* A removal that leaves the row behind.
removeOnly(rows, d) ==
  [r \in DOMAIN rows |-> Select(rows[r], {i \in DOMAIN rows[r] : rows[r][i] # d})]

removeDisplay(rows, d) ==
  NonEmpty([r \in DOMAIN rows |-> Select(rows[r], {i \in DOMAIN rows[r] : rows[r][i] # d})])

canAddDisplay(s) ==
  (s # None /\ s.limited /\ s.rows # <<>>) =>
     Len(Last(s.rows)) < maxItemsPerRow \/ Len(s.rows) < maxRows

\* A display that gets no id of its own.
addUnnamed(s, d) ==
  IF s = None THEN << <<0>> >> ELSE Append(s.rows, <<0>>)

\* A display goes to the last row, or to a new one if that is full.
addDisplay(s, d) ==
  LET rows == IF s = None THEN <<>> ELSE s.rows IN
  IF rows = <<>> THEN << <<d>> >>
  ELSE IF s.limited /\ Len(Last(rows)) >= maxItemsPerRow
  THEN Append(rows, <<d>>)
  ELSE [rows EXCEPT ![Len(rows)] = Append(Last(rows), d)]

\* A move that swaps two displays of a row.
moveSwaps(g, src, i, dst, j) ==
  LET item == g[src][i] IN
  NonEmpty([r \in DOMAIN g |->
              CASE dst = src /\ r = src -> [g[r] EXCEPT ![i] = g[r][j], ![j] = item]
                [] dst # src /\ r = src -> RemoveAt(g[r], i)
                [] dst # src /\ r = dst -> InsertAt(g[r], j, item)
                [] OTHER -> g[r]])

\* handleDragEnd: the item i of row src goes to place j of row dst; the row
\* behind the last one stands for the empty row below the grid.
move(g, src, i, dst, j) ==
  LET item == g[src][i]
      rest == [g EXCEPT ![src] = RemoveAt(g[src], i)]
  IN  NonEmpty(IF dst > Len(g) THEN Append(rest, <<item>>)
               ELSE [rest EXCEPT ![dst] = InsertAt(rest[dst], j, item)])

-----------------------------------------------------------------------------
(* Requests and the actions of the store.                                    *)

\* Bound.
Room == Cardinality(requests) < MaxRequests

NewId == CHOOSE n \in 0 .. Cardinality(requests) : \A r \in requests : r.id # n

Request(kind, rows) == [kind |-> kind, id |-> NewId, rows |-> rows, parsed |-> TRUE,
                        done |-> FALSE]

Disturb == disturbances < MaxDisturbances /\ disturbances' = disturbances + 1

\* saveSettings: the store has the new rows before the server has.
saveSettings(rows) ==
  /\ Room
  /\ settings' = [rows |-> rows, limited |-> settings # None /\ settings.limited]
  /\ requests' = requests \cup {Request("save", rows)}

-----------------------------------------------------------------------------
(* The page. The defaults are made of new displays each time it is opened;   *)
(* here they are one display.                                                *)

Mount ==
  /\ ~mounted /\ Room /\ created < MaxDisplays
  /\ mounted' = TRUE
  /\ created' = created + 1
  /\ defaults' = << <<created'>> >>
  /\ IF isLoading
     THEN UNCHANGED <<isLoading, error, requests>>
     ELSE /\ isLoading' = TRUE /\ error' = FALSE
          /\ requests' = requests \cup {Request("load", defaults')}
  /\ UNCHANGED <<server, unread, settings, dialog, disturbances>>

Unmount ==
  /\ mounted /\ Disturb
  /\ mounted' = FALSE /\ dialog' = FALSE
  /\ UNCHANGED <<server, unread, settings, defaults, isLoading, error, requests, created>>

\* The grid is there, and not the placeholder for an error or the loading.
GridShown == mounted /\ ~dialog /\ settings # None
grid == filterDisplays(settings.rows)

\* A drag, from its start to its end in one step: that an answer to a load
\* replaces the rows while it lasts is left out.
handleItemsChange ==
  LET g == grid IN
  /\ GridShown
  /\ UNCHANGED <<server, unread, defaults, isLoading, error, mounted, dialog, created, disturbances>>
  /\ \E src \in DOMAIN g, dst \in 1 .. maxRows :
       /\ dst <= IF Len(g) < maxRows THEN Len(g) + 1 ELSE Len(g)
       /\ dst \in DOMAIN g \ {src} => Len(g[dst]) < maxItemsPerRow
       /\ \E i \in DOMAIN g[src], j \in 1 .. maxItemsPerRow :
            /\ j <= CASE dst = src -> Len(g[src])
                      [] dst > Len(g) -> 1
                      [] OTHER -> Len(g[dst]) + 1
            /\ saveSettings(move(g, src, i, dst, j))

\* The filter of a display, its state or the height of its row is changed.
handleUpdateDisplay ==
  /\ GridShown /\ Items(grid) # {}
  /\ saveSettings(settings.rows)
  /\ UNCHANGED <<server, unread, defaults, isLoading, error, mounted, dialog, created, disturbances>>

handleRemoveDisplay(d) ==
  /\ GridShown /\ d \in Items(grid)
  /\ saveSettings(removeDisplay(settings.rows, d))
  /\ UNCHANGED <<server, unread, defaults, isLoading, error, mounted, dialog, created, disturbances>>

\* The controls are there whatever the dashboard shows.
handleNewClick ==
  /\ mounted /\ ~dialog
  /\ canAddDisplay(settings) = TRUE
  /\ dialog' = TRUE
  /\ UNCHANGED <<server, unread, settings, defaults, isLoading, error, mounted, requests, created,
                 disturbances>>

\* The dialog is done: with the settings there are now.
handleNewDisplay ==
  /\ dialog /\ created < MaxDisplays
  /\ dialog' = FALSE
  /\ created' = created + 1
  /\ saveSettings(addDisplay(settings, created'))
  /\ UNCHANGED <<server, unread, defaults, isLoading, error, mounted, disturbances>>

handleNewDialogClose ==
  /\ dialog /\ dialog' = FALSE
  /\ UNCHANGED <<server, unread, settings, defaults, isLoading, error, mounted, requests, created,
                 disturbances>>

handleResetClick ==
  /\ mounted /\ ~dialog
  /\ saveSettings(defaults)
  /\ UNCHANGED <<server, unread, defaults, isLoading, error, mounted, dialog, created, disturbances>>

-----------------------------------------------------------------------------
(* The server and its answers.                                               *)

Served(r, rows, parsed) ==
  requests' = (requests \ {r})
                \cup {[r EXCEPT !.rows = rows, !.parsed = parsed, !.done = TRUE]}

\* Without a stored setting the answer is empty and the defaults count.
ServeLoad(r) ==
  /\ r.kind = "load" /\ ~r.done
  /\ Served(r, IF server \in {None, Unparsable} THEN r.rows ELSE server,
            server # Unparsable)
  /\ UNCHANGED <<server, unread, settings, defaults, isLoading, error, mounted, dialog, created,
                 disturbances>>

ServeSave(r) ==
  /\ r.kind = "save" /\ ~r.done
  /\ server' = r.rows
  /\ Served(r, r.rows, TRUE)
  /\ UNCHANGED <<unread, settings, defaults, isLoading, error, mounted, dialog, created,
                 disturbances>>

LoadSuccess(r) ==
  /\ r.kind = "load" /\ r.done /\ r.parsed
  /\ settings' = [rows |-> r.rows, limited |-> TRUE]
  /\ isLoading' = FALSE /\ error' = FALSE
  /\ requests' = requests \ {r}
  /\ UNCHANGED <<server, unread, defaults, mounted, dialog, created, disturbances>>

\* getSetting returns nothing for a value that it cannot parse, and the handler
\* throws when it takes the data out of that: the load ends without an action.
LoadUnparsable(r) ==
  /\ r.kind = "load" /\ r.done /\ ~r.parsed
  /\ unread' = TRUE
  /\ requests' = requests \ {r}
  /\ UNCHANGED <<server, settings, defaults, isLoading, error, mounted, dialog, created,
                 disturbances>>

\* A load that fails and leaves its mark.
LoadErrorKeepsLoading(r) ==
  /\ r.kind = "load" /\ Disturb
  /\ error' = TRUE
  /\ requests' = requests \ {r}
  /\ UNCHANGED <<server, unread, settings, defaults, isLoading, mounted, dialog, created>>

\* A load that fails without a word.
LoadErrorUnseen(r) ==
  /\ r.kind = "load" /\ Disturb
  /\ isLoading' = FALSE
  /\ requests' = requests \ {r}
  /\ UNCHANGED <<server, unread, settings, defaults, error, mounted, dialog, created>>

LoadError(r) ==
  /\ r.kind = "load" /\ Disturb
  /\ isLoading' = FALSE /\ error' = TRUE
  /\ requests' = requests \ {r}
  /\ UNCHANGED <<server, unread, settings, defaults, mounted, dialog, created>>

\* No reducer listens to the end of a save.
SaveSuccess(r) ==
  /\ r.kind = "save" /\ r.done
  /\ requests' = requests \ {r}
  /\ UNCHANGED <<server, unread, settings, defaults, isLoading, error, mounted, dialog, created,
                 disturbances>>

SaveError(r) ==
  /\ r.kind = "save" /\ Disturb
  /\ requests' = requests \ {r}
  /\ UNCHANGED <<server, unread, settings, defaults, isLoading, error, mounted, dialog, created>>

-----------------------------------------------------------------------------
Next ==
  \/ Mount \/ Unmount
  \/ handleItemsChange \/ handleUpdateDisplay
  \/ \E d \in Displays : handleRemoveDisplay(d)
  \/ handleNewClick \/ handleNewDisplay \/ handleNewDialogClose \/ handleResetClick
  \/ \E r \in requests :
       \/ ServeLoad(r) \/ ServeSave(r)
       \/ LoadSuccess(r) \/ LoadUnparsable(r) \/ LoadError(r)
       \/ SaveSuccess(r) \/ SaveError(r)

Spec == Init /\ [][Next]_vars

\* Every request is answered.
Fairness ==
  WF_vars(\E r \in requests : ServeLoad(r) \/ LoadSuccess(r) \/ LoadUnparsable(r))

FairSpec == Spec /\ Fairness

-----------------------------------------------------------------------------
AllRows == {rows \in {server} \cup {r.rows : r \in requests} : rows \notin {None, Unparsable}}
             \cup (IF settings = None THEN {} ELSE {settings.rows})

\* However dragging, removing, adding, resetting and loading follow each other,
\* no display is there twice and no row is empty, in the store, at the server
\* and in what is under way (convertGridItemsToDisplays finds displays by their
\* id, and the row of a display by search).
SoundRows == \A rows \in AllRows : Sound(rows)

\* One load at a time, and the mark of it exactly as long as it takes, with one
\* exception: a load whose value could not be parsed leaves its mark for ever,
\* although "we are already loading data" (actions.js:120) is then not true.
LoadingIffRequested ==
  LET loads == {r \in requests : r.kind = "load"} IN
  /\ \A r, q \in loads : r = q
  /\ isLoading <=> loads # {} \/ unread

\* A drag takes one display to another place: no other display that is shown
\* is lost or changes its place among the others (handleDragEnd), and no row
\* or grid that is within the limits comes out of them.
Within(rows) ==
  Len(rows) <= maxRows /\ \A r \in DOMAIN rows : Len(rows[r]) <= maxItemsPerRow

DragMovesOne ==
  [][settings' # settings /\ handleItemsChange =>
       /\ Items(settings'.rows) = Items(grid)
       /\ \E d \in Items(grid) : \A a, b \in Items(grid) \ {d} :
            Before(settings'.rows, a, b) <=> Before(grid, a, b)
       /\ Within(settings.rows) => Within(settings'.rows)]_vars

\* An open dashboard does not show for ever that it is loading: it gets its
\* rows, or an error is shown. That is so as long as no stored value was met
\* that cannot be parsed: then neither comes, and later loads are skipped.
EventuallyShown ==
  mounted ~> (settings # None \/ error \/ ~mounted \/ unread)

=============================================================================
