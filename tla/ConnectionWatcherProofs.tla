----------------------- MODULE ConnectionWatcherProofs -----------------------
(***************************************************************************)
(* The handler and the watcher of a request never close a connection twice,*)
(* never leave one open and never share freed data, for any number of      *)
(* requests, with TLS and without, watched or not.                         *)
(***************************************************************************)
EXTENDS ConnectionWatcher, TLAPS

\* The handler may still use its connection to the manager.
Busy == {"send", "read", "lock", "close"}

\* Neither thread has given the descriptor back.
Open(r) == hpc[r] \in Busy /\ (~closed[r] \/ tls)

(* What the two threads of a request know of each other.                   *)
Local(r) ==
  /\ sock[r] = None <=> hpc[r] = "idle"
  /\ wpc[r] = "none" <=> ~watch \/ hpc[r] = "idle"
  /\ mutex[r] = "handler" <=> hpc[r] = "close"
  /\ mutex[r] = "watcher" <=> wpc[r] \in {"check", "bye"}
  /\ hpc[r] = "close" => watch
  /\ closed[r] => watch /\ hpc[r] # "idle"
  /\ watch /\ hpc[r] \in {"cancel", "join", "done"} => closed[r]
  /\ hpc[r] \in {"cancel", "join"} => watch
  /\ freed[r] => wpc[r] = "end"

(* A descriptor number denotes the connection of a request exactly while   *)
(* the request has it open.                                                *)
Owns(r) == \A f \in Fds : owner[f] = r <=> sock[r] = f /\ Open(r)

IInv == TypeOK /\ \A r \in Requests : Local(r) /\ Owns(r)

-----------------------------------------------------------------------------

(* A step of one request leaves alone what is said of the others, as long  *)
(* as it takes or gives back no number but its own.                        *)
LEMMA OthersKeep ==
  ASSUME IInv, NEW r \in Requests, UNCHANGED options,
         \A x \in Requests \ {r} :
           /\ sock'[x] = sock[x] /\ hpc'[x] = hpc[x] /\ wpc'[x] = wpc[x]
           /\ mutex'[x] = mutex[x] /\ closed'[x] = closed[x] /\ freed'[x] = freed[x],
         \A f \in Fds : owner'[f] = owner[f] \/ {owner[f], owner'[f]} \subseteq {r, None}
  PROVE  \A x \in Requests \ {r} : Local(x)' /\ Owns(x)'
<1> TAKE x \in Requests \ {r}
<1>1. Local(x)'
  BY DEF IInv, Local, options
<1>2. \A f \in Fds : owner'[f] = x <=> owner[f] = x
  BY NoneAssumption
<1>3. Owns(x)'
  BY <1>2 DEF IInv, Owns, Open, options
<1> QED
  BY <1>1, <1>3

(* Closing the socket of a request that has its connection open closes     *)
(* that connection, and nothing when it has not.                           *)
LEMMA CloseOwn ==
  ASSUME IInv, NEW r \in Requests, Open(r), GvmConnectionClose(r)
  PROVE  /\ sock[r] \in Fds /\ owner[sock[r]] = r
         /\ owner' = [owner EXCEPT ![sock[r]] = None]
         /\ owner' \in [Fds -> Requests \cup {None}]
         /\ \A f \in Fds : owner'[f] # r
         /\ talking' \in [Requests -> BOOLEAN] /\ asked' = asked
<1>1. sock[r] \in Fds
  BY DEF IInv, TypeOK, Local, Open, Busy
<1>2. owner[sock[r]] = r
  BY <1>1 DEF IInv, Owns
<1>3. owner' = [owner EXCEPT ![sock[r]] = None]
  BY DEF GvmConnectionClose, Set
<1>4. \A f \in Fds : f # sock[r] => owner[f] # r
  BY DEF IInv, Owns
<1>5. owner' \in [Fds -> Requests \cup {None}] /\ \A f \in Fds : owner'[f] # r
  BY <1>1, <1>3, <1>4, NoneAssumption DEF IInv, TypeOK
<1>6. talking' \in [Requests -> BOOLEAN] /\ asked' = asked
  BY <1>2, NoneAssumption DEF GvmConnectionClose, Set, IInv, TypeOK
<1> QED
  BY <1>1, <1>2, <1>3, <1>5, <1>6

-----------------------------------------------------------------------------
(* The steps of the handler.                                               *)

LEMMA ConnectInv ==
  ASSUME IInv, NEW r \in Requests, Connect(r)
  PROVE  IInv'
<1>1. PICK f \in Fds : /\ owner[f] = None /\ owner' = [owner EXCEPT ![f] = r]
                       /\ sock' = [sock EXCEPT ![r] = f]
  BY DEF Connect, LowestFree, Set
<1>2. /\ hpc[r] = "idle" /\ hpc' = [hpc EXCEPT ![r] = "send"]
      /\ wpc' = [wpc EXCEPT ![r] = IF watch THEN "sleep" ELSE "none"]
      /\ talking' = [talking EXCEPT ![r] = TRUE]
      /\ UNCHANGED <<tls, watch, asked, rounds, mutex, closed, cancelled, freed, client>>
  BY DEF Connect, HGoto, Set, options
<1>3. TypeOK'
  BY <1>1, <1>2 DEF IInv, TypeOK, HandlerPCs, WatcherPCs
<1>4. Local(r)'
  BY <1>1, <1>2, FdsAssumption DEF IInv, TypeOK, Local
<1>5. Owns(r)'
  <2>1. \A g \in Fds : owner[g] # r
    BY <1>2 DEF IInv, Owns, Open, Busy
  <2>2. \A g \in Fds : owner'[g] = r <=> g = f
    BY <1>1, <2>1, NoneAssumption DEF IInv, TypeOK
  <2>3. sock'[r] = f /\ Open(r)'
    BY <1>1, <1>2 DEF IInv, TypeOK, Local, Open, Busy
  <2> QED
    BY <2>2, <2>3 DEF Owns
<1>6. \A x \in Requests \ {r} : Local(x)' /\ Owns(x)'
  <2>1. \A g \in Fds : owner'[g] = owner[g] \/ {owner[g], owner'[g]} \subseteq {r, None}
    BY <1>1 DEF IInv, TypeOK
  <2>2. \A x \in Requests \ {r} :
          /\ sock'[x] = sock[x] /\ hpc'[x] = hpc[x] /\ wpc'[x] = wpc[x]
          /\ mutex'[x] = mutex[x] /\ closed'[x] = closed[x] /\ freed'[x] = freed[x]
    BY <1>1, <1>2 DEF IInv, TypeOK
  <2> QED
    BY <1>2, <2>1, <2>2, OthersKeep DEF options
<1> QED
  BY <1>3, <1>4, <1>5, <1>6 DEF IInv

\* The handler uses its connection or has its reply ready.
LEMMA TalkInv ==
  ASSUME IInv, NEW r \in Requests, Send(r) \/ Read(r) \/ CommandDone(r)
  PROVE  IInv'
<1>1. /\ hpc[r] \in {"send", "read"}
      /\ \E to \in {"send", "read", "lock"} : hpc' = [hpc EXCEPT ![r] = to]
      /\ UNCHANGED <<tls, watch, owner, sock, talking, wpc, mutex, closed, cancelled, freed, client>>
  BY DEF Send, Read, CommandDone, HGoto, Set, options, kernel, watching
<1>2. asked' \in [Requests -> Nat]
  <2>1. CASE Send(r)
    BY <2>1 DEF Send, Up, Set, IInv, TypeOK
  <2>2. CASE Read(r)
    BY <2>2 DEF Read, Due, Set, IInv, TypeOK
  <2>3. CASE CommandDone(r)
    BY <2>3 DEF CommandDone, kernel, IInv, TypeOK
  <2> QED
    BY <2>1, <2>2, <2>3
<1>3. rounds' \in [Requests -> 0..Rounds]
  BY RoundsAssumption DEF Send, Read, CommandDone, Set, IInv, TypeOK
<1>4. TypeOK'
  BY <1>1, <1>2, <1>3 DEF IInv, TypeOK, HandlerPCs
<1>5. Local(r)' /\ Owns(r)'
  BY <1>1 DEF IInv, TypeOK, Local, Owns, Open, Busy
<1>6. \A x \in Requests \ {r} : Local(x)' /\ Owns(x)'
  BY <1>1, OthersKeep DEF IInv, TypeOK, options
<1> QED
  BY <1>4, <1>5, <1>6 DEF IInv

LEMMA CloseUnwatchedInv ==
  ASSUME IInv, NEW r \in Requests, CloseUnwatched(r)
  PROVE  IInv'
<1>1. /\ hpc[r] = "lock" /\ hpc' = [hpc EXCEPT ![r] = "done"] /\ ~watch
      /\ GvmConnectionClose(r)
      /\ UNCHANGED <<tls, watch, sock, rounds, wpc, mutex, closed, cancelled, freed, client>>
  BY DEF CloseUnwatched, HGoto, options, watching
<1>2. Open(r)
  BY <1>1 DEF IInv, Local, Open, Busy
<1>3. /\ owner' = [owner EXCEPT ![sock[r]] = None] /\ owner[sock[r]] = r /\ sock[r] \in Fds
      /\ owner' \in [Fds -> Requests \cup {None}] /\ \A f \in Fds : owner'[f] # r
      /\ talking' \in [Requests -> BOOLEAN] /\ asked' = asked
  BY <1>1, <1>2, CloseOwn
<1>4. TypeOK'
  BY <1>1, <1>3 DEF IInv, TypeOK, HandlerPCs
<1>5. Local(r)' /\ Owns(r)'
  BY <1>1, <1>3 DEF IInv, TypeOK, Local, Owns, Open, Busy
<1>6. \A x \in Requests \ {r} : Local(x)' /\ Owns(x)'
  BY <1>1, <1>3, OthersKeep DEF IInv, TypeOK, options
<1> QED
  BY <1>4, <1>5, <1>6 DEF IInv

LEMMA CloseAndUnlockInv ==
  ASSUME IInv, NEW r \in Requests, CloseAndUnlock(r)
  PROVE  IInv'
<1>1. /\ hpc[r] = "close" /\ hpc' = [hpc EXCEPT ![r] = "cancel"]
      /\ closed' = [closed EXCEPT ![r] = TRUE] /\ mutex' = [mutex EXCEPT ![r] = None]
      /\ UNCHANGED <<tls, watch, sock, rounds, wpc, cancelled, freed, client>>
  BY DEF CloseAndUnlock, HGoto, Set, options
<1>2. Open(r) <=> MustClose(r)
  BY <1>1 DEF MustClose, Open, Busy
<1>3. CASE MustClose(r)
  <2>1. GvmConnectionClose(r)
    BY <1>3 DEF CloseAndUnlock
  <2>2. /\ owner' = [owner EXCEPT ![sock[r]] = None] /\ owner[sock[r]] = r /\ sock[r] \in Fds
        /\ owner' \in [Fds -> Requests \cup {None}] /\ \A f \in Fds : owner'[f] # r
        /\ talking' \in [Requests -> BOOLEAN] /\ asked' = asked
    BY <1>2, <1>3, <2>1, CloseOwn
  <2>3. TypeOK'
    BY <1>1, <2>2 DEF IInv, TypeOK, HandlerPCs
  <2>4. Local(r)' /\ Owns(r)'
    BY <1>1, <2>2, NoneAssumption DEF IInv, TypeOK, Local, Owns, Open, Busy
  <2>5. \A x \in Requests \ {r} : Local(x)' /\ Owns(x)'
    BY <1>1, <2>2, OthersKeep DEF IInv, TypeOK, options
  <2> QED
    BY <2>3, <2>4, <2>5 DEF IInv
<1>4. CASE ~MustClose(r)
  <2>1. UNCHANGED <<owner, talking, asked>>
    BY <1>4 DEF CloseAndUnlock, kernel
  <2>2. TypeOK'
    BY <1>1, <2>1 DEF IInv, TypeOK, HandlerPCs
  <2>3. Local(r)' /\ Owns(r)'
    BY <1>1, <1>2, <1>4, <2>1, NoneAssumption DEF IInv, TypeOK, Local, Owns, Open, Busy
  <2>4. \A x \in Requests \ {r} : Local(x)' /\ Owns(x)'
    BY <1>1, <2>1, OthersKeep DEF IInv, TypeOK, options
  <2> QED
    BY <2>2, <2>3, <2>4 DEF IInv
<1> QED
  BY <1>3, <1>4

\* The steps of the handler that move no connection.
LEMMA EndingInv ==
  ASSUME IInv, NEW r \in Requests, LockForClose(r) \/ Cancel(r) \/ Join(r)
  PROVE  IInv'
<1>1. UNCHANGED <<tls, watch, owner, talking, asked, sock, rounds, wpc, closed, client>>
  BY DEF LockForClose, Cancel, Join, options, kernel
<1>2. CASE LockForClose(r)
  <2>1. /\ hpc[r] = "lock" /\ hpc' = [hpc EXCEPT ![r] = "close"] /\ watch /\ mutex[r] = None
        /\ mutex' = [mutex EXCEPT ![r] = "handler"] /\ UNCHANGED <<cancelled, freed>>
    BY <1>2 DEF LockForClose, HGoto, Set
  <2>2. TypeOK'
    BY <1>1, <2>1 DEF IInv, TypeOK, HandlerPCs
  <2>3. Local(r)' /\ Owns(r)'
    BY <1>1, <2>1, NoneAssumption DEF IInv, TypeOK, Local, Owns, Open, Busy
  <2>4. \A x \in Requests \ {r} : Local(x)' /\ Owns(x)'
    BY <1>1, <2>1, OthersKeep DEF IInv, TypeOK, options
  <2> QED
    BY <2>2, <2>3, <2>4 DEF IInv
<1>3. CASE Cancel(r)
  <2>1. /\ hpc[r] = "cancel" /\ hpc' = [hpc EXCEPT ![r] = "join"]
        /\ cancelled' = [cancelled EXCEPT ![r] = TRUE] /\ UNCHANGED <<mutex, freed>>
    BY <1>3 DEF Cancel, HGoto, Set
  <2>2. TypeOK'
    BY <1>1, <2>1 DEF IInv, TypeOK, HandlerPCs
  <2>3. Local(r)' /\ Owns(r)'
    BY <1>1, <2>1 DEF IInv, TypeOK, Local, Owns, Open, Busy
  <2>4. \A x \in Requests \ {r} : Local(x)' /\ Owns(x)'
    BY <1>1, <2>1, OthersKeep DEF IInv, TypeOK, options
  <2> QED
    BY <2>2, <2>3, <2>4 DEF IInv
<1>4. CASE Join(r)
  <2>1. /\ hpc[r] = "join" /\ hpc' = [hpc EXCEPT ![r] = "done"] /\ wpc[r] = "end"
        /\ freed' = [freed EXCEPT ![r] = TRUE] /\ UNCHANGED <<mutex, cancelled>>
    BY <1>4 DEF Join, HGoto, Set
  <2>2. TypeOK'
    BY <1>1, <2>1 DEF IInv, TypeOK, HandlerPCs
  <2>3. Local(r)' /\ Owns(r)'
    BY <1>1, <2>1 DEF IInv, TypeOK, Local, Owns, Open, Busy
  <2>4. \A x \in Requests \ {r} : Local(x)' /\ Owns(x)'
    BY <1>1, <2>1, OthersKeep DEF IInv, TypeOK, options
  <2> QED
    BY <2>2, <2>3, <2>4 DEF IInv
<1> QED
  BY <1>2, <1>3, <1>4

-----------------------------------------------------------------------------
(* The steps of the watcher, of the client and of the manager.             *)

LEMMA WatchInv ==
  ASSUME IInv, NEW r \in Requests,
         \/ WatchWake(r) \/ WatchCancelled(r) \/ WatchLock(r)
         \/ WatchHandlerDone(r) \/ WatchAgain(r) \/ WatchByeDone(r)
  PROVE  IInv'
<1>1. UNCHANGED <<tls, watch, owner, talking, asked, sock, rounds, hpc, closed, cancelled, freed, client>>
  BY DEF WatchWake, WatchCancelled, WatchLock, WatchHandlerDone, WatchAgain,
         WatchByeDone, WatcherOnly, options, kernel
<1>2. \E from \in {"sleep", "lock", "check", "bye"}, to \in {"sleep", "lock", "check", "end"} :
        /\ wpc[r] = from /\ wpc' = [wpc EXCEPT ![r] = to]
        /\ \/ from \in {"sleep", "lock"} /\ to # "check" /\ mutex' = mutex
           \/ from \in {"sleep", "lock"} /\ to = "check" /\ mutex[r] = None
                /\ mutex' = [mutex EXCEPT ![r] = "watcher"]
           \/ from \in {"check", "bye"} /\ to # "check" /\ mutex' = [mutex EXCEPT ![r] = None]
  BY DEF WatchWake, WatchCancelled, WatchLock, WatchHandlerDone, WatchAgain,
         WatchByeDone, WGoto, Set
<1>3. TypeOK'
  BY <1>1, <1>2 DEF IInv, TypeOK, WatcherPCs
<1>4. Local(r)'
  <2>1. wpc[r] # "end" /\ wpc[r] # "none" /\ wpc'[r] # "none" /\ ~freed[r]
    BY <1>2 DEF IInv, TypeOK, Local
  <2>2. mutex'[r] = "handler" <=> mutex[r] = "handler"
    BY <1>2, NoneAssumption DEF IInv, TypeOK, Local
  <2>3. mutex'[r] = "watcher" <=> wpc'[r] \in {"check", "bye"}
    BY <1>2, NoneAssumption DEF IInv, TypeOK, Local
  <2> QED
    BY <1>1, <2>1, <2>2, <2>3 DEF IInv, Local
<1>5. Owns(r)'
  BY <1>1 DEF IInv, Owns, Open
<1>6. \A x \in Requests \ {r} : Local(x)' /\ Owns(x)'
  BY <1>1, <1>2, OthersKeep DEF IInv, TypeOK, options
<1> QED
  BY <1>3, <1>4, <1>5, <1>6 DEF IInv

LEMMA WatchCloseInv ==
  ASSUME IInv, NEW r \in Requests, WatchClose(r)
  PROVE  IInv'
<1>1. /\ wpc[r] = "check" /\ ~closed[r]
      /\ tls => wpc' = [wpc EXCEPT ![r] = "bye"] /\ mutex' = mutex
      /\ ~tls => wpc' = [wpc EXCEPT ![r] = "end"] /\ mutex' = [mutex EXCEPT ![r] = None]
      /\ closed' = [closed EXCEPT ![r] = TRUE]
      /\ UNCHANGED <<tls, watch, sock, rounds, hpc, cancelled, freed, client>>
  BY DEF WatchClose, WGoto, Set, WatcherOnly, options
<1>2. /\ watch /\ mutex[r] = "watcher" /\ hpc[r] # "close" /\ Open(r)
  BY <1>1 DEF IInv, TypeOK, Local, Open, Busy, HandlerPCs
<1>3. /\ owner' \in [Fds -> Requests \cup {None}]
      /\ talking' \in [Requests -> BOOLEAN] /\ asked' = asked
      /\ tls => owner' = owner
      /\ ~tls => \A f \in Fds : owner'[f] # r
      /\ \A f \in Fds : owner'[f] = owner[f] \/ {owner[f], owner'[f]} \subseteq {r, None}
  <2>1. CASE tls
    BY <2>1 DEF WatchClose, kernel, IInv, TypeOK
  <2>2. CASE ~tls
    <3>1. GvmConnectionClose(r)
      BY <2>2 DEF WatchClose
    <3> QED
      BY <1>2, <2>2, <3>1, CloseOwn DEF IInv, TypeOK
  <2> QED
    BY <2>1, <2>2
<1>4. TypeOK'
  BY <1>1, <1>3 DEF IInv, TypeOK, WatcherPCs
<1>5. Local(r)'
  BY <1>1, <1>2, NoneAssumption DEF IInv, TypeOK, Local
<1>6. Owns(r)'
  <2>1. CASE tls
    BY <1>1, <1>3, <2>1 DEF IInv, Owns, Open
  <2>2. CASE ~tls
    BY <1>1, <1>3, <2>2 DEF IInv, TypeOK, Owns, Open
  <2> QED
    BY <2>1, <2>2
<1>7. \A x \in Requests \ {r} : Local(x)' /\ Owns(x)'
  BY <1>1, <1>3, OthersKeep DEF IInv, TypeOK, options
<1> QED
  BY <1>4, <1>5, <1>6, <1>7 DEF IInv

LEMMA OutsideInv ==
  ASSUME IInv, NEW r \in Requests, ClientActs(r) \/ ManagerLeaves(r) \/ AnswerDropped(r)
  PROVE  IInv'
<1>1. UNCHANGED <<tls, watch, owner, sock, rounds, hpc, wpc, mutex, closed, cancelled, freed>>
  BY DEF ClientActs, ManagerLeaves, AnswerDropped, options, kernel, watching
<1>2. /\ client' \in [Requests -> {"waiting", "closed", "sending"}]
      /\ talking' \in [Requests -> BOOLEAN]
  BY DEF ClientActs, ManagerLeaves, AnswerDropped, Set, kernel, IInv, TypeOK
<1>3. asked' \in [Requests -> Nat]
  <2>1. CASE AnswerDropped(r)
    BY <2>1 DEF AnswerDropped, Set, IInv, TypeOK
  <2>2. CASE ~AnswerDropped(r)
    BY <2>2 DEF ClientActs, ManagerLeaves, kernel, IInv, TypeOK
  <2> QED
    BY <2>1, <2>2
<1>4. TypeOK'
  BY <1>1, <1>2, <1>3 DEF IInv, TypeOK
<1> QED
  BY <1>1, <1>4 DEF IInv, Local, Owns, Open

-----------------------------------------------------------------------------

LEMMA StartInv == Init => IInv
BY RoundsAssumption, NoneAssumption, FdsAssumption
   DEF Init, IInv, TypeOK, Local, Owns, Open, Busy, HandlerPCs, WatcherPCs

LEMMA StepInv == IInv /\ [Next]_vars => IInv'
<1> SUFFICES ASSUME IInv, [Next]_vars PROVE IInv'
  OBVIOUS
<1>1. ASSUME NEW r \in Requests, Handler(r)
      PROVE  IInv'
  BY <1>1, ConnectInv, TalkInv, CloseUnwatchedInv, CloseAndUnlockInv, EndingInv DEF Handler, Ending
<1>2. ASSUME NEW r \in Requests, Watcher(r)
      PROVE  IInv'
  BY <1>2, WatchInv, WatchCloseInv DEF Watcher
<1>3. ASSUME NEW r \in Requests, ClientActs(r) \/ ManagerLeaves(r) \/ AnswerDropped(r)
      PROVE  IInv'
  BY <1>3, OutsideInv
<1>4. CASE UNCHANGED vars
  BY <1>4 DEF vars, options, kernel, watching, IInv, TypeOK, Local, Owns, Open
<1> QED
  BY <1>1, <1>2, <1>3, <1>4 DEF Next

LEMMA AlwaysIInv == Spec => []IInv
BY StartInv, StepInv, PTL DEF Spec

(* The variables of the handlers and the watchers keep their types.        *)
THEOREM WatcherTypeCorrect == Spec => []TypeOK
<1>1. IInv => TypeOK
  BY DEF IInv
<1> QED
  BY <1>1, AlwaysIInv, PTL

(* exec_gmp_get and its watcher leave no connection to the manager open    *)
(* behind an answered request, whichever of them comes to close it.        *)
THEOREM NothingLeaks == Spec => []NoLeak
<1>1. IInv => NoLeak
  BY DEF IInv, NoLeak, Owns, Open, Busy
<1> QED
  BY <1>1, AlwaysIInv, PTL

(* pthread_join comes before the shared data is freed.                     *)
THEOREM FreedAfterWatcher == Spec => []DataOutlivesWatcher
<1>1. IInv => DataOutlivesWatcher
  BY DEF IInv, DataOutlivesWatcher, Local
<1> QED
  BY <1>1, AlwaysIInv, PTL

(* gvm_connection_close never hits a number that another request got after *)
(* the watcher, or the handler, had already given it back.                 *)
THEOREM NumbersClosedByOwner == Spec => ClosedByOwner
<1> DEFINE Step == \A f \in Fds :
                     owner[f] # None /\ owner'[f] = None => ClosingOwn(owner[f])
<1>1. ASSUME IInv, [Next]_vars, NEW f \in Fds, owner[f] # None, owner'[f] = None
      PROVE  ClosingOwn(owner[f])
  <2>1. owner' # owner
    BY <1>1
  <2>2. PICK r \in Requests :
          Connect(r) \/ CloseUnwatched(r) \/ CloseAndUnlock(r) \/ WatchClose(r)
    BY <1>1, <2>1 DEF Next, vars, kernel, Handler, Ending, Watcher, Send, Read, CommandDone,
          LockForClose, Cancel, Join, WatchWake, WatchCancelled, WatchLock, WatchHandlerDone,
          WatchAgain, WatchByeDone, ClientActs, ManagerLeaves, AnswerDropped
  <2>3. ~Connect(r)
    BY <1>1, NoneAssumption DEF Connect, LowestFree, Set, IInv, TypeOK
  <2>4. CASE CloseUnwatched(r)
    <3>1. Open(r) /\ GvmConnectionClose(r)
      BY <1>1, <2>4 DEF CloseUnwatched, HGoto, IInv, Local, Open, Busy
    <3>2. owner[f] = r
      BY <1>1, <3>1, CloseOwn DEF IInv, TypeOK
    <3> QED
      BY <1>1, <2>4, <3>2 DEF ClosingOwn, CloseUnwatched, HGoto, IInv, TypeOK
  <2>5. CASE CloseAndUnlock(r)
    <3>1. MustClose(r) /\ hpc[r] = "close"
      BY <2>1, <2>5 DEF CloseAndUnlock, kernel, HGoto
    <3>2. Open(r) /\ GvmConnectionClose(r)
      BY <2>5, <3>1 DEF CloseAndUnlock, MustClose, Open, Busy
    <3>3. owner[f] = r
      BY <1>1, <3>2, CloseOwn DEF IInv, TypeOK
    <3> QED
      BY <1>1, <2>5, <3>3 DEF ClosingOwn, CloseAndUnlock, HGoto, IInv, TypeOK
  <2>6. CASE WatchClose(r)
    <3>1. GvmConnectionClose(r) /\ wpc[r] = "check" /\ ~closed[r] /\ wpc'[r] = "end"
      BY <1>1, <2>1, <2>6 DEF WatchClose, kernel, WGoto, IInv, TypeOK
    <3>2. Open(r)
      BY <1>1, <3>1 DEF IInv, TypeOK, Local, Open, Busy, HandlerPCs
    <3>3. owner[f] = r
      BY <1>1, <3>1, <3>2, CloseOwn DEF IInv, TypeOK
    <3> QED
      BY <3>1, <3>3 DEF ClosingOwn
  <2> QED
    BY <2>2, <2>3, <2>4, <2>5, <2>6
<1>2. IInv /\ [Next]_vars => [Step]_vars
  BY <1>1
<1> QED
  BY <1>2, AlwaysIInv, PTL DEF Spec, ClosedByOwner

(* With TLS the handler sends and reads on its own connection or on none:  *)
(* its number stays taken until it closes it itself.                       *)
THEOREM TlsKeepsConnection == Spec => OwnConnectionWithTls
<1> DEFINE Step == \A r \in Requests :
                     /\ tls
                     /\ rounds'[r] < rounds[r] \/ (hpc[r] = "read" /\ hpc'[r] # "read")
                     => owner[sock[r]] = r
<1>1. ASSUME IInv, [Next]_vars, NEW r \in Requests, tls,
             rounds'[r] < rounds[r] \/ (hpc[r] = "read" /\ hpc'[r] # "read")
      PROVE  owner[sock[r]] = r
  <2>1. CASE rounds'[r] < rounds[r]
    <3>1. rounds' # rounds
      BY <2>1, <1>1, RoundsAssumption DEF IInv, TypeOK
    <3>2. PICK q \in Requests : Send(q)
      BY <1>1, <3>1 DEF Next, vars, Handler, Ending, Watcher, Connect, Read, CommandDone,
            CloseUnwatched, CloseAndUnlock, LockForClose, Cancel, Join, WatchWake,
            WatchCancelled, WatchLock, WatchHandlerDone, WatchAgain, WatchClose,
            WatchByeDone, WatcherOnly, ClientActs, ManagerLeaves, AnswerDropped
    <3>3. q = r
      <4>1. rounds' = [rounds EXCEPT ![q] = rounds[q] - 1]
        BY <3>2 DEF Send, Set
      <4>2. q # r => rounds'[r] = rounds[r]
        BY <1>1, <4>1 DEF IInv, TypeOK
      <4>3. rounds[r] \in Int
        BY <1>1, RoundsAssumption DEF IInv, TypeOK
      <4> QED
        BY <2>1, <4>2, <4>3
    <3> QED
      BY <1>1, <3>2, <3>3 DEF Send, IInv, TypeOK, Local, Owns, Open, Busy
  <2>2. CASE hpc[r] = "read"
    BY <1>1, <2>2 DEF IInv, TypeOK, Local, Owns, Open, Busy
  <2> QED
    BY <1>1, <2>1, <2>2
<1>2. IInv /\ [Next]_vars => [Step]_vars
  BY <1>1
<1> QED
  BY <1>2, AlwaysIInv, PTL DEF Spec, OwnConnectionWithTls

=============================================================================
