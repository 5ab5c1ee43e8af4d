-------------------------- MODULE ConnectionWatcher --------------------------
(***************************************************************************)
(* exec_gmp_get and the thread that watches its client.  The handler of a  *)
(* GET request talks to the manager; beside it a watcher thread looks every*)
(* few seconds whether the client is gone and then closes the connection   *)
(* to the manager under the handler.  Both share connection_watcher_data_t *)
(* and its mutex; the handlers of all requests share the descriptor        *)
(* numbers of the process.                                                 *)
(***************************************************************************)
EXTENDS Integers, FiniteSets

CONSTANTS
  Requests,   \* GET requests, each with a handler thread
  Fds,        \* descriptor numbers: the kernel hands out the lowest free one
  Rounds,     \* bound: commands a request sends to the manager
  None

ASSUME FdsAssumption == Fds \subseteq Nat /\ None \notin Fds
ASSUME RoundsAssumption == Rounds \in Nat
ASSUME NoneAssumption == None \notin Requests \cup {"handler", "watcher"}

VARIABLES
  tls,        \* manager_use_tls, set when the daemon starts
  watch,      \* client_watch_interval is not 0, likewise
  owner,      \* kernel: the request whose manager connection a number denotes
  sock,       \* gvm_connection_t.socket; keeps its number after a close
  talking,    \* the manager's end of each connection is up
  asked,      \* commands on each connection whose answer nobody has read
  rounds,     \* commands each handler may still send
  hpc,        \* handler: where exec_gmp_get is
  wpc,        \* watcher: where watch_client_connection is
  mutex,      \* watcher_data->mutex
  closed,     \* watcher_data->connection_closed
  cancelled,  \* pthread_cancel was called
  freed,      \* g_free (watcher_data)
  client      \* the client's end: waiting, closed, or sending more

kernel   == <<owner, talking, asked>>
options  == <<tls, watch>>
watching == <<wpc, mutex, closed, cancelled, freed>>
vars == <<options, kernel, sock, rounds, hpc, watching, client>>

HandlerPCs == {"idle", "send", "read", "lock", "close", "cancel", "join", "done"}
WatcherPCs == {"none", "sleep", "lock", "check", "bye", "end"}

HGoto(r, from, to) == hpc[r] = from /\ hpc' = [hpc EXCEPT ![r] = to]
WGoto(r, from, to) == wpc[r] = from /\ wpc' = [wpc EXCEPT ![r] = to]

Set(f, x, v) == [f EXCEPT ![x] = v]

\* gvm_connection_close: whatever the number denotes by now is closed.
GvmConnectionClose(r) ==
  /\ owner' = Set(owner, sock[r], None)
  /\ talking' = IF owner[sock[r]] = None THEN talking ELSE Set(talking, owner[sock[r]], FALSE)
  /\ UNCHANGED asked

-----------------------------------------------------------------------------
(* exec_gmp_get.                                                           *)

LowestFree(f) == owner[f] = None /\ \A g \in Fds : owner[g] = None => f <= g

\* manager_connect succeeds and the watcher, if wanted, is started.
Connect(r) ==
  /\ HGoto(r, "idle", "send")
  /\ \E f \in Fds :
       /\ LowestFree(f)
       /\ owner' = Set(owner, f, r)
       /\ sock'  = Set(sock, r, f)
  /\ talking' = Set(talking, r, TRUE)
  /\ wpc' = Set(wpc, r, IF watch THEN "sleep" ELSE "none")
  /\ UNCHANGED <<options, asked, rounds, mutex, closed, cancelled, freed, client>>

\* A broken reader that takes for granted that an answer is due.
DueAnyway(q) == q # None

\* The number denotes a connection whose other end is up; an answer is due.
Up(q) == q # None /\ talking[q]
Due(q) == q # None /\ asked[q] > 0

\* gvm_connection_sendf: to whoever is at the other end of the number.
Send(r) ==
  LET q == owner[sock[r]] IN
  /\ hpc[r] = "send" /\ rounds[r] > 0
  /\ rounds' = Set(rounds, r, rounds[r] - 1)
  /\ \/ /\ Up(q)
        /\ asked' = Set(asked, q, asked[q] + 1)
        /\ hpc'   = Set(hpc, r, "read")
     \/ /\ ~Up(q)
        /\ hpc' = Set(hpc, r, "lock")
        /\ UNCHANGED asked
  /\ UNCHANGED <<options, owner, talking, sock, watching, client>>

\* read_entity_and_text_c: blocks until the manager answers, if it ever does,
\* or the connection ends.
Read(r) ==
  LET q == owner[sock[r]] IN
  /\ hpc[r] = "read"
  /\ \/ /\ Due(q)
        /\ asked' = Set(asked, q, asked[q] - 1)
        /\ hpc'   = Set(hpc, r, "send")
     \/ /\ ~Up(q)
        /\ hpc' = Set(hpc, r, "lock")
        /\ UNCHANGED asked
  /\ UNCHANGED <<options, owner, talking, sock, rounds, watching, client>>

\* The command function returns; the reply is ready.
CommandDone(r) ==
  /\ HGoto(r, "send", "lock")
  /\ UNCHANGED <<options, kernel, sock, rounds, watching, client>>

CloseUnwatched(r) ==
  /\ HGoto(r, "lock", "done")
  /\ ~watch
  /\ GvmConnectionClose(r)
  /\ UNCHANGED <<options, sock, rounds, watching, client>>

LockForClose(r) ==
  /\ HGoto(r, "lock", "close")
  /\ watch
  /\ mutex[r] = None
  /\ mutex' = Set(mutex, r, "handler")
  /\ UNCHANGED <<options, kernel, sock, rounds, wpc, closed, cancelled, freed, client>>

\* A broken handler that closes a second time after the watcher did, and one
\* that leaves a TLS connection to the watcher's gnutls_bye.
MustCloseAlways(r) == closed[r] \in BOOLEAN
MustCloseFirst(r) == ~closed[r]

\* A watcher that ended a TLS session has left the socket to the handler.
MustClose(r) == ~closed[r] \/ tls

CloseAndUnlock(r) ==
  /\ HGoto(r, "close", "cancel")
  /\ IF MustClose(r) THEN GvmConnectionClose(r) ELSE UNCHANGED kernel
  /\ closed' = Set(closed, r, TRUE)
  /\ mutex'  = Set(mutex, r, None)
  /\ UNCHANGED <<options, sock, rounds, wpc, cancelled, freed, client>>

Cancel(r) ==
  /\ HGoto(r, "cancel", "join")
  /\ cancelled' = Set(cancelled, r, TRUE)
  /\ UNCHANGED <<options, kernel, sock, rounds, wpc, mutex, closed, freed, client>>

\* A broken ending that frees the shared data without waiting.
JoinAtOnce(r) ==
  /\ HGoto(r, "join", "done")
  /\ freed' = Set(freed, r, TRUE)
  /\ UNCHANGED <<options, kernel, sock, rounds, wpc, mutex, closed, cancelled, client>>

\* pthread_join returns, the shared data is freed, the reply is sent.
Join(r) ==
  /\ HGoto(r, "join", "done")
  /\ wpc[r] = "end"
  /\ freed' = Set(freed, r, TRUE)
  /\ UNCHANGED <<options, kernel, sock, rounds, wpc, mutex, closed, cancelled, client>>

-----------------------------------------------------------------------------
(* watch_client_connection.                                                *)

WatcherOnly == UNCHANGED <<options, sock, rounds, hpc, cancelled, freed, client>>

\* The thread can be cancelled in sleep and nowhere else.
WatchWake(r) ==
  /\ WGoto(r, "sleep", "lock")
  /\ ~cancelled[r]
  /\ UNCHANGED <<kernel, mutex, closed>> /\ WatcherOnly

WatchCancelled(r) ==
  /\ WGoto(r, "sleep", "end")
  /\ cancelled[r]
  /\ UNCHANGED <<kernel, mutex, closed>> /\ WatcherOnly

WatchLock(r) ==
  /\ WGoto(r, "lock", "check")
  /\ mutex[r] = None
  /\ mutex' = Set(mutex, r, "watcher")
  /\ UNCHANGED <<kernel, closed>> /\ WatcherOnly

WatchHandlerDone(r) ==
  /\ WGoto(r, "check", "end")
  /\ closed[r]
  /\ mutex' = Set(mutex, r, None)
  /\ UNCHANGED <<kernel, closed>> /\ WatcherOnly

\* A broken peek that takes the end of the stream for an error.
PeekHasData(r) == client[r] = "sending"

\* recv (MSG_PEEK) on the client's socket: 0 at its end, 1 if there are data,
\* -1 if there is nothing yet.
PeekSucceeds(r) == client[r] \in {"closed", "sending"}

\* A broken loop that goes back to sleep without unlocking.
WatchAgainLocked(r) ==
  /\ WGoto(r, "check", "sleep")
  /\ ~closed[r] /\ ~PeekSucceeds(r)
  /\ UNCHANGED <<kernel, mutex, closed>> /\ WatcherOnly

WatchAgain(r) ==
  /\ WGoto(r, "check", "sleep")
  /\ ~closed[r] /\ ~PeekSucceeds(r)
  /\ mutex' = Set(mutex, r, None)
  /\ UNCHANGED <<kernel, closed>> /\ WatcherOnly

\* A broken watcher that closes the socket of a TLS session too.
WatchCloseSocket(r) ==
  /\ WGoto(r, "check", "end")
  /\ ~closed[r] /\ PeekSucceeds(r)
  /\ GvmConnectionClose(r)
  /\ closed' = Set(closed, r, TRUE)
  /\ mutex'  = Set(mutex, r, None)
  /\ WatcherOnly

\* A plain socket is closed. With TLS gnutls_bye tells the manager that the
\* session ends and, with GNUTLS_SHUT_RDWR, waits for the manager to say the
\* same; the mutex stays locked as long as it does.
WatchClose(r) ==
  /\ ~closed[r] /\ PeekSucceeds(r)
  /\ \/ ~tls /\ WGoto(r, "check", "end") /\ GvmConnectionClose(r)
          /\ mutex' = Set(mutex, r, None)
     \/ tls /\ WGoto(r, "check", "bye") /\ UNCHANGED <<kernel, mutex>>
  /\ closed' = Set(closed, r, TRUE)
  /\ WatcherOnly

\* gnutls_bye returns: the manager has ended the session, too.
WatchByeDone(r) ==
  /\ WGoto(r, "bye", "end")
  /\ ~talking[r]
  /\ mutex' = Set(mutex, r, None)
  /\ UNCHANGED <<kernel, closed>> /\ WatcherOnly

-----------------------------------------------------------------------------
(* The client and the manager.                                             *)

\* The client goes away, or sends its next request without waiting.  Nobody
\* looks at what it does once the connection to the manager is closed.
ClientActs(r) ==
  /\ hpc[r] \in {"send", "read", "lock"} /\ ~closed[r] /\ client[r] = "waiting"
  /\ \E what \in {"closed", "sending"} : client' = Set(client, r, what)
  /\ UNCHANGED <<options, kernel, sock, rounds, hpc, watching>>

\* The manager closes its end; the handler learns it when it talks to it, the
\* watcher when it waits for it.
ManagerLeaves(r) ==
  /\ hpc[r] \in {"send", "read"} \/ wpc[r] = "bye"
  /\ talking[r]
  /\ talking' = Set(talking, r, FALSE)
  /\ UNCHANGED <<options, owner, asked, sock, rounds, hpc, watching, client>>

\* gnutls_bye throws away what arrives before the manager's end of the session:
\* it may take the answer a handler is waiting for.
AnswerDropped(r) ==
  /\ wpc[r] = "bye" /\ talking[r] /\ asked[r] > 0
  /\ asked' = Set(asked, r, asked[r] - 1)
  /\ UNCHANGED <<options, owner, talking, sock, rounds, hpc, watching, client>>

Init ==
  /\ tls \in BOOLEAN /\ watch \in BOOLEAN
  /\ owner     = [f \in Fds |-> None]
  /\ sock      = [r \in Requests |-> None]
  /\ talking   = [r \in Requests |-> FALSE]
  /\ asked     = [r \in Requests |-> 0]
  /\ rounds    = [r \in Requests |-> Rounds]
  /\ hpc       = [r \in Requests |-> "idle"]
  /\ wpc       = [r \in Requests |-> "none"]
  /\ mutex     = [r \in Requests |-> None]
  /\ closed    = [r \in Requests |-> FALSE]
  /\ cancelled = [r \in Requests |-> FALSE]
  /\ freed     = [r \in Requests |-> FALSE]
  /\ client    = [r \in Requests |-> "waiting"]

Ending(r) == CloseUnwatched(r) \/ LockForClose(r) \/ CloseAndUnlock(r) \/ Cancel(r) \/ Join(r)

Handler(r) == Connect(r) \/ Send(r) \/ Read(r) \/ CommandDone(r) \/ Ending(r)

Watcher(r) ==
  \/ WatchWake(r) \/ WatchCancelled(r) \/ WatchLock(r)
  \/ WatchHandlerDone(r) \/ WatchAgain(r) \/ WatchClose(r) \/ WatchByeDone(r)

Next ==
  \E r \in Requests :
    \/ Handler(r)
    \/ Watcher(r)
    \/ ClientActs(r)
    \/ ManagerLeaves(r)
    \/ AnswerDropped(r)

Spec == Init /\ [][Next]_vars

\* The handler has its reply ready; it can go on; it does (Ending).
Ready(r) == hpc[r] \in {"lock", "close", "cancel", "join"}
CanEnd(r) ==
  /\ Ready(r)
  /\ hpc[r] = "lock" => ~watch \/ mutex[r] = None
  /\ hpc[r] = "join" => wpc[r] = "end"
Ends(r) == Ready(r) /\ hpc'[r] # hpc[r]

\* The watcher can go on; it does (Watcher).
CanWatch(r) ==
  /\ wpc[r] \in {"sleep", "lock", "check", "bye"}
  /\ wpc[r] = "lock" => mutex[r] = None
  /\ wpc[r] = "bye" => ~talking[r]
Watches(r) == wpc[r] # "none" /\ wpc'[r] # wpc[r]

\* Threads are scheduled, and a handler that waits for the mutex gets it while
\* the watcher sleeps: SF_vars(Ending(r)) /\ WF_vars(Watcher(r)), written out.
\* Nothing is assumed of clients and of the manager.
FairSpec ==
  /\ Spec
  /\ \A r \in Requests :
       /\ <>[]~CanEnd(r) \/ []<><<Ends(r)>>_vars
       /\ []<>~CanWatch(r) \/ []<><<Watches(r)>>_vars

-----------------------------------------------------------------------------

(* Every variable has its type.                                            *)
TypeOK ==
  /\ tls \in BOOLEAN /\ watch \in BOOLEAN
  /\ owner \in [Fds -> Requests \cup {None}]
  /\ sock \in [Requests -> Fds \cup {None}]
  /\ talking \in [Requests -> BOOLEAN]
  /\ asked \in [Requests -> Nat]
  /\ rounds \in [Requests -> 0..Rounds]
  /\ hpc \in [Requests -> HandlerPCs] /\ wpc \in [Requests -> WatcherPCs]
  /\ mutex \in [Requests -> {"handler", "watcher", None}]
  /\ closed \in [Requests -> BOOLEAN] /\ cancelled \in [Requests -> BOOLEAN]
  /\ freed \in [Requests -> BOOLEAN]
  /\ client \in [Requests -> {"waiting", "closed", "sending"}]

\* The step closes the connection of q on behalf of q.
ClosingOwn(q) ==
  \/ hpc[q] \in {"lock", "close"} /\ hpc'[q] \in {"done", "cancel"}
  \/ wpc[q] = "check" /\ wpc'[q] = "end"

(* A descriptor number is closed by the handler or the watcher of the      *)
(* request whose connection it denotes: never twice, which would hit the   *)
(* connection of the request that got the number next.                     *)
ClosedByOwner ==
  [][\A f \in Fds :
       owner[f] # None /\ owner'[f] = None => ClosingOwn(owner[f])]_vars

(* A request that is answered has left no connection to the manager open.  *)
NoLeak ==
  \A r \in Requests : hpc[r] = "done" => \A f \in Fds : owner[f] # r

(* The watcher never works on data the handler has freed.                  *)
DataOutlivesWatcher ==
  \A r \in Requests : freed[r] => wpc[r] = "end"

(* With TLS a handler is never left with another request's connection: the *)
(* watcher ends the session and leaves the number to the handler.          *)
OwnConnectionWithTls ==
  [][\A r \in Requests :
       /\ tls
       /\ rounds'[r] < rounds[r] \/ (hpc[r] = "read" /\ hpc'[r] # "read")
       => owner[sock[r]] = r]_vars

(* A client that went away is noticed, though the manager never answers    *)
(* and the handler waits for it for ever: the connection is shut down.     *)
AbandonedIsNoticed ==
  \A r \in Requests :
    (wpc[r] # "none" /\ client[r] # "waiting") ~> closed[r]

(* A handler that has its reply ready sends it: neither the mutex nor the  *)
(* join keeps it for ever, but for one case. With TLS, when the client is  *)
(* gone, the watcher holds the mutex until the manager ends the session    *)
(* (gnutls_bye), and nothing is assumed of the manager. A reply that is    *)
(* never sent leads again and again to "bye", which a watcher enters once: *)
(* it is in there for ever.                                                *)
ReadyIsSent ==
  \A r \in Requests : Ready(r) ~> (hpc[r] = "done" \/ wpc[r] = "bye")

=============================================================================
