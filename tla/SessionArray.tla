---------------------------- MODULE SessionArray ----------------------------
(***************************************************************************)
(* gsad_session.c as it is written: one GPtrArray of user_t pointers, one  *)
(* mutex, and a loop over the array in every function.  A step is one      *)
(* iteration of a loop.  The array starts at 1 here and at 0 in C.         *)
(***************************************************************************)
EXTENDS SessionDb, SequencesExt

CONSTANTS
  Threads,   \* callers
  Records    \* the sessions they may store or ask for

Ops == {"by_id", "by_name", "add", "remove", "remove_others"}

\* arg stands for all arguments: a token, a name or a whole session.
Calls == [op : Ops, arg : Records]

ASSUME RecordsAssumption == Records \subseteq Session
ASSUME NoneAssumption == None \notin Threads /\ None \notin Calls

VARIABLES
  users,     \* the array
  mutex,     \* the thread that holds it, or None
  pc,        \* where each thread is in its call
  call,      \* the call of each thread
  index,     \* its loop variable
  found,     \* the copy it is going to return, or None
  result,    \* what the last call to return returned
  before     \* history: the sessions stored when the mutex was taken

vars == <<users, mutex, pc, call, index, found, result, before>>

\* Each function is one loop, or session_get_user_by_id_internal's, and what
\* is left to do after it.
Loop == [by_id |-> "find", remove |-> "find", add |-> "find",
         by_name |-> "scan", remove_others |-> "sweep"]

Inside == {"find", "scan", "sweep", "append", "unlock"}
PCs == {"idle", "lock"} \cup Inside

Goto(th, next) == pc' = [pc EXCEPT ![th] = next]

\* The loop condition, the element under the loop variable, the arguments.
More(th) == index[th] <= Len(users)
Item(th) == users[index[th]]
Arg(th) == call[th].arg

Ask(th, c) ==
  /\ pc[th] = "idle"
  /\ Goto(th, "lock")
  /\ call' = [call EXCEPT ![th] = c]
  /\ UNCHANGED <<users, mutex, index, found, result, before>>

Enter(th) ==
  /\ mutex'  = th
  /\ before' = ToSet(users)
  /\ Goto(th, Loop[call[th].op])
  /\ UNCHANGED <<users, call, index, found, result>>

\* A broken g_mutex_lock that does not wait.
LockAnyway(th) == pc[th] = "lock" /\ Enter(th)

Lock(th) ==
  /\ pc[th] = "lock"
  /\ mutex = None
  /\ Enter(th)

\* An iteration that passes over its element.
Advance(th, loop, passed) ==
  /\ pc[th] = loop
  /\ More(th)
  /\ passed
  /\ index' = [index EXCEPT ![th] = @ + 1]
  /\ UNCHANGED <<users, mutex, pc, call, found, result, before>>

\* The loop is over, or broke off with an element to return.
Leave(th, loop, next) ==
  /\ pc[th] = loop
  /\ ~More(th)
  /\ Goto(th, next)
  /\ UNCHANGED <<users, mutex, call, index, found, result, before>>

Return(th, loop, matches) ==
  /\ pc[th] = loop
  /\ More(th)
  /\ matches
  /\ found' = [found EXCEPT ![th] = Item(th)]
  /\ Goto(th, "unlock")
  /\ UNCHANGED <<users, mutex, call, index, result, before>>

-----------------------------------------------------------------------------
(* session_get_user_by_id_internal, alone or on the way to a removal.      *)

IsId(th, s) == s.token = Arg(th).token

AfterFind(th) == IF call[th].op = "add" THEN "append" ELSE "unlock"

FindNext(th) == Advance(th, "find", ~IsId(th, Item(th)))
FindMiss(th) == Leave(th, "find", AfterFind(th))
FindCopy(th) == Return(th, "find", call[th].op = "by_id" /\ IsId(th, Item(th)))

\* session_remove_user_internal: by itself, or the first half of an addition.
FindRemove(th) ==
  /\ pc[th] = "find" /\ call[th].op # "by_id"
  /\ More(th)
  /\ IsId(th, Item(th))
  /\ users' = RemoveAt(users, index[th])
  /\ Goto(th, AfterFind(th))
  /\ UNCHANGED <<mutex, call, index, found, result, before>>

AddAppend(th) ==
  /\ pc[th] = "append"
  /\ users' = Append(users, Arg(th))
  /\ Goto(th, "unlock")
  /\ UNCHANGED <<mutex, call, index, found, result, before>>

-----------------------------------------------------------------------------
(* session_get_user_by_username.                                           *)

IsName(th, s) == s.owner = Arg(th).owner

ScanNext(th) == Advance(th, "scan", ~IsName(th, Item(th)))
ScanMiss(th) == Leave(th, "scan", "unlock")
ScanCopy(th) == Return(th, "scan", IsName(th, Item(th)))

-----------------------------------------------------------------------------
(* session_remove_other_sessions.                                          *)

IsOther(th, s) == IsName(th, s) /\ ~IsId(th, s)

\* A broken loop that decrements its index for every element.
SweepNextStuck(th) ==
  /\ pc[th] = "sweep"
  /\ More(th)
  /\ ~IsOther(th, Item(th))
  /\ UNCHANGED vars

SweepNext(th) == Advance(th, "sweep", ~IsOther(th, Item(th)))

\* A broken loop that forgets index--: it skips the element that moves down.
SweepRemoveSkip(th) ==
  /\ pc[th] = "sweep"
  /\ More(th)
  /\ IsOther(th, Item(th))
  /\ users' = RemoveAt(users, index[th])
  /\ index' = [index EXCEPT ![th] = @ + 1]
  /\ UNCHANGED <<mutex, pc, call, found, result, before>>

\* The element is taken out and the loop variable stays: index--, index++.
SweepRemove(th) ==
  /\ pc[th] = "sweep"
  /\ More(th)
  /\ IsOther(th, Item(th))
  /\ users' = RemoveAt(users, index[th])
  /\ UNCHANGED <<mutex, pc, call, index, found, result, before>>

SweepEnd(th) == Leave(th, "sweep", "unlock")

-----------------------------------------------------------------------------

Unlock(th) ==
  /\ pc[th] = "unlock"
  /\ mutex'  = None
  /\ before' = {}
  /\ result' = found[th]
  /\ call'   = [call EXCEPT ![th] = None]
  /\ index'  = [index EXCEPT ![th] = 1]
  /\ found'  = [found EXCEPT ![th] = None]
  /\ Goto(th, "idle")
  /\ UNCHANGED users

\* session_init.
Init ==
  /\ users  = <<>>
  /\ mutex  = None
  /\ pc     = [th \in Threads |-> "idle"]
  /\ call   = [th \in Threads |-> None]
  /\ index  = [th \in Threads |-> 1]
  /\ found  = [th \in Threads |-> None]
  /\ result = None
  /\ before = {}

FindStep(th) == FindNext(th) \/ FindMiss(th) \/ FindCopy(th) \/ FindRemove(th) \/ AddAppend(th)
ScanStep(th) == ScanNext(th) \/ ScanMiss(th) \/ ScanCopy(th)
SweepStep(th) == SweepNext(th) \/ SweepRemove(th) \/ SweepEnd(th)

\* A step of the thread that holds the mutex.
HolderStep(th) == FindStep(th) \/ ScanStep(th) \/ SweepStep(th) \/ Unlock(th)

Next ==
  \E th \in Threads :
    \/ \E c \in Calls : Ask(th, c)
    \/ Lock(th)
    \/ HolderStep(th)

Spec == Init /\ [][Next]_vars

\* A thread inside a critical section is scheduled again and again.
FairSpec == Spec /\ \A th \in Threads : WF_vars(HolderStep(th))

-----------------------------------------------------------------------------

(* Every variable has its type; no loop runs past the end of the array.    *)
TypeOK ==
  /\ users \in Seq(Session)
  /\ mutex \in Threads \cup {None}
  /\ pc \in [Threads -> PCs]
  /\ call \in [Threads -> Calls \cup {None}]
  /\ index \in [Threads -> Nat \ {0}]
  /\ \A th \in Threads : pc[th] \in {"find", "scan", "sweep"} => index[th] <= Len(users) + 1
  /\ found \in [Threads -> Session \cup {None}]
  /\ result \in Session \cup {None}
  /\ before \subseteq Session

\* To a caller the database changes when the mutex is given back.
Stored == IF mutex = None THEN ToSet(users) ELSE before

Store == INSTANCE SessionStore WITH db <- Stored

(* Every call takes effect at once, as SessionStore says, whatever the     *)
(* loops and the other threads do in between.                              *)
ImplementsStore == Store!StoreSpec

(* Every critical section ends: no loop runs on for ever.                  *)
MutexReleased ==
  \A th \in Threads : (mutex = th) ~> (mutex # th)

=============================================================================
