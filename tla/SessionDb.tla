----------------------------- MODULE SessionDb -----------------------------
(***************************************************************************)
(* The session "database" of gsad (gsad_session.c) as a set of session     *)
(* records.  Every function of that file holds one mutex from its first    *)
(* to its last access to the array, so each operator below is what one     *)
(* critical section returns or leaves behind.  SessionArray models the     *)
(* array and the loops themselves and implements these operators.          *)
(***************************************************************************)
EXTENDS Naturals

CONSTANTS
  Tokens,   \* session tokens a gvm_uuid_make can return
  Users,    \* user names
  None      \* no token, no copy, no user

(***************************************************************************)
(* A user_t: the token that identifies the session, the login name, the    *)
(* password stored for later connections to the manager (here the number   *)
(* of times the account's password had been changed when it was the right  *)
(* one) and the time the session was renewed last.  Cookie and client      *)
(* address never change and are tied to the token; role, capabilities,     *)
(* timezone and language travel with the copy and are not told apart.      *)
(***************************************************************************)
Session == [token : Tokens, owner : Users, secret : Nat, time : Nat]

\* session_get_user_by_id: a copy of the session with this token, if any.
GetById(db, id) == {s \in db : s.token = id}

\* session_get_user_by_username: the first of these in array order.
GetByName(db, name) == {s \in db : s.owner = name}

\* session_remove_user.
RemoveUser(db, id) == {s \in db : s.token # id}

\* A broken session_add_user that stores without looking for the token.
AddUserTwice(db, s) == db \cup {s}

\* session_add_user: replace whatever is stored under the token.
AddUser(db, s) == RemoveUser(db, s.token) \cup {s}

\* session_remove_other_sessions: every session of name but the one with id.
RemoveOtherSessions(db, id, name) ==
  {s \in db : s.owner # name \/ s.token = id}

TokensOf(db) == {s.token : s \in db}

=============================================================================
