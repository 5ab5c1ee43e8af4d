---------------------------- MODULE SessionStore ----------------------------
(***************************************************************************)
(* What gsad_session.c promises its callers: a database of sessions on     *)
(* which every call of any thread takes effect at once, as the operators   *)
(* of SessionDb say.  GsadSessions is built on these operations.           *)
(***************************************************************************)
EXTENDS SessionDb

CONSTANTS
  Threads,   \* callers
  Records    \* the sessions they may store or ask for

VARIABLES
  db,        \* the sessions stored
  call,      \* the call each thread has made and waits for, or None
  result     \* what the last call to return returned

Ops == {"by_id", "by_name", "add", "remove", "remove_others"}

\* arg stands for all arguments: a token, a name or a whole session.
Calls == [op : Ops, arg : Records]

\* A copy of one of the records, or NULL.
OneOf(records) == IF records = {} THEN {None} ELSE records

Ask(th, c) ==
  /\ call[th] = None
  /\ call' = [call EXCEPT ![th] = c]
  /\ UNCHANGED <<db, result>>

Effect(c) ==
  CASE c.op = "add"           -> AddUser(db, c.arg)
    [] c.op = "remove"        -> RemoveUser(db, c.arg.token)
    [] c.op = "remove_others" -> RemoveOtherSessions(db, c.arg.token, c.arg.owner)
    [] OTHER                  -> db

Results(c) ==
  CASE c.op = "by_id"   -> OneOf(GetById(db, c.arg.token))
    [] c.op = "by_name" -> OneOf(GetByName(db, c.arg.owner))
    [] OTHER            -> {None}

Answer(th) ==
  /\ call[th] # None
  /\ db' = Effect(call[th])
  /\ result' \in Results(call[th])
  /\ call' = [call EXCEPT ![th] = None]

StoreInit ==
  /\ db = {}
  /\ call = [th \in Threads |-> None]
  /\ result = None

StoreNext ==
  \E th \in Threads : (\E c \in Calls : Ask(th, c)) \/ Answer(th)

StoreSpec == StoreInit /\ [][StoreNext]_<<db, call, result>>

=============================================================================
