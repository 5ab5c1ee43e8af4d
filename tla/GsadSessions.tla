---------------------------- MODULE GsadSessions ----------------------------
(***************************************************************************)
(* The life of user sessions in the gsad daemon.  libmicrohttpd runs every *)
(* request in a thread of its own; a request reads a session from the      *)
(* database, works on its private copy and writes the whole copy back, one *)
(* or more times, while the threads of other requests do the same.  A step *)
(* of this model is one critical section of gsad_session.c, or one         *)
(* exchange with the manager (gvmd) that decides how the request goes on.  *)
(***************************************************************************)
EXTENDS SessionDb, FiniteSets

CONSTANTS
  Threads,     \* threads libmicrohttpd may run at the same time
  Timeout,     \* session timeout, in clock ticks
  MaxTime,     \* bound: the clock stops here
  MaxSecret    \* bound: password changes per account

ASSUME TimeoutAssumption == Timeout \in Nat
ASSUME MaxTimeAssumption == MaxTime \in Nat
ASSUME MaxSecretAssumption == MaxSecret \in Nat
ASSUME NoneAssumption == None \notin Tokens /\ None \notin Users

VARIABLES
  now,        \* time (NULL)
  secret,     \* gvmd: how often the password of each account was changed
  sessions,   \* the session database
  issued,     \* tokens handed out so far (gvm_uuid_make never repeats one)
  pc,         \* where the handler of each thread is
  method,     \* the route of the request: GET, POST or LOGOUT
  copy,       \* the copy of the session the handler works on
  victim,     \* user_add: the token of the expired session it found
  target,     \* save_user: the account whose sessions are to be closed
  reply,      \* the last reply of each thread
  renewed,    \* history: when each session was renewed last
  entitled    \* history: sessions that presented or set the current password

local == <<pc, method, copy, victim, target, reply>>
vars  == <<now, secret, sessions, issued, local, renewed, entitled>>

Methods == {"GET", "POST", "LOGOUT"}

PCs == {"idle",
        "login_lookup", "login_expired", "login_add",
        "find_expired", "find_ok",
        "logout_lookup", "logout_remove",
        "connect", "run", "renew", "command",
        "close_others", "settings", "settings_changed", "write_back",
        "user_lookup", "user_close"}

Replies == {"none", "ok", "expired", "mismatch", "login_failed", "error",
            "auth_changed"}

\* A login works on a user_t without a token until user_new_with_data.
LoginData == [token : {None}, owner : Users, secret : Nat, time : {0}]

-----------------------------------------------------------------------------
(* What the operators of gsad_user.c and the handlers share.               *)

\* A broken user_session_expired, one tick late.
ExpiredLate(s) == now > s.time + Timeout + 1

\* user_session_expired: strictly more than the timeout has passed.
Expired(s) == now > s.time + Timeout

Goto(th, from, to) ==
  /\ pc[th] = from
  /\ pc' = [pc EXCEPT ![th] = to]

\* The handler sends its reply and frees its copies of the user.
Finish(th, code) ==
  /\ pc'     = [pc EXCEPT ![th] = "idle"]
  /\ method' = [method EXCEPT ![th] = None]
  /\ copy'   = [copy EXCEPT ![th] = None]
  /\ victim' = [victim EXCEPT ![th] = None]
  /\ target' = [target EXCEPT ![th] = None]
  /\ reply'  = [reply EXCEPT ![th] = code]

\* A logout is answered with 200 whether or not it found its session.
Refusal(m, code) == IF m = "LOGOUT" THEN "ok" ELSE code

\* A new password makes every session that does not know it useless.
ChangeSecret(u, knowing) ==
  /\ secret[u] < MaxSecret
  /\ secret'   = [secret EXCEPT ![u] = @ + 1]
  /\ entitled' = [entitled EXCEPT ![u] = knowing]

history == <<renewed, entitled>>

-----------------------------------------------------------------------------
(* login: authenticate_gmp, then user_add.                                 *)

\* Bound: a login starts only while a fresh token is left for it.
TokenLeft ==
  Cardinality({x \in Threads : pc[x] \in {"login_lookup", "login_expired", "login_add"}})
    < Cardinality(Tokens \ issued)

LoginAuthenticated(th, u) ==
  /\ Goto(th, "idle", "login_lookup")
  /\ TokenLeft
  /\ copy'  = [copy EXCEPT ![th] = [token |-> None, owner |-> u,
                                    secret |-> secret[u], time |-> 0]]
  /\ reply' = [reply EXCEPT ![th] = "none"]
  /\ UNCHANGED <<now, secret, sessions, issued, method, victim, target, history>>

\* Wrong password, or the manager is down.
LoginRefused(th) ==
  /\ pc[th] = "idle"
  /\ Finish(th, "login_failed")
  /\ UNCHANGED <<now, secret, sessions, issued, history>>

\* user_add looks at one session of that user, the first in the array.
UserAddLookup(th) ==
  LET mine == GetByName(sessions, copy[th].owner) IN
  /\ pc[th] = "login_lookup"
  /\ \/ /\ mine = {} \/ \E s \in mine : ~Expired(s)
        /\ pc' = [pc EXCEPT ![th] = "login_add"]
        /\ UNCHANGED victim
     \/ \E s \in mine :
          /\ Expired(s)
          /\ pc'     = [pc EXCEPT ![th] = "login_expired"]
          /\ victim' = [victim EXCEPT ![th] = s.token]
  /\ UNCHANGED <<now, secret, sessions, issued, method, copy, target, reply, history>>

UserAddRemoveExpired(th) ==
  /\ Goto(th, "login_expired", "login_add")
  /\ sessions' = RemoveUser(sessions, victim[th])
  /\ victim'   = [victim EXCEPT ![th] = None]
  /\ UNCHANGED <<now, secret, issued, method, copy, target, reply, history>>

\* A broken user_new_with_data that forgets to make a token.
UserNewWithoutToken(th, t) == [copy[th] EXCEPT !.time = now]

\* user_new_with_data and session_add_user: a session under a fresh token.
UserNewWithData(th, t) == [token |-> t, owner |-> copy[th].owner,
                           secret |-> copy[th].secret, time |-> now]

NewSession(th, t) ==
  /\ issued'   = issued \cup {t}
  /\ sessions' = AddUser(sessions, UserNewWithData(th, t))
  /\ renewed'  = [renewed EXCEPT ![t] = now]
  /\ entitled' = IF copy[th].secret = secret[copy[th].owner]
                   THEN [entitled EXCEPT ![copy[th].owner] = @ \cup {t}]
                   ELSE entitled

\* A broken user_add that hands out a token a second time.
UserAddReused(th, t) ==
  /\ pc[th] = "login_add"
  /\ NewSession(th, t)
  /\ Finish(th, "ok")
  /\ UNCHANGED <<now, secret>>

UserAdd(th, t) ==
  /\ pc[th] = "login_add"
  /\ t \notin issued
  /\ NewSession(th, t)
  /\ Finish(th, "ok")
  /\ UNCHANGED <<now, secret>>

-----------------------------------------------------------------------------
(* user_find: look a session up by token, check it, write the copy back.   *)

\* No such token: also what a session closed elsewhere looks like.
UserFindUnknown(th, m, id) ==
  /\ pc[th] = "idle"
  /\ GetById(sessions, id) = {}
  /\ Finish(th, Refusal(m, "expired"))
  /\ UNCHANGED <<now, secret, sessions, issued, history>>

\* The copy is expired; the session is removed in a later critical section.
UserFindExpired(th, m, id) ==
  \E s \in GetById(sessions, id) :
    /\ Goto(th, "idle", "find_expired")
    /\ Expired(s)
    /\ copy'   = [copy EXCEPT ![th] = s]
    /\ method' = [method EXCEPT ![th] = m]
    /\ reply'  = [reply EXCEPT ![th] = "none"]
    /\ UNCHANGED <<now, secret, sessions, issued, victim, target, history>>

\* The cookie or the address of the client is not that of the session.
UserFindMismatch(th, m, id) ==
  \E s \in GetById(sessions, id) :
    /\ pc[th] = "idle"
    /\ ~Expired(s)
    /\ Finish(th, Refusal(m, "mismatch"))
    /\ UNCHANGED <<now, secret, sessions, issued, history>>

UserFindOk(th, m, id) ==
  \E s \in GetById(sessions, id) :
    /\ Goto(th, "idle", "find_ok")
    /\ ~Expired(s)
    /\ copy'   = [copy EXCEPT ![th] = s]
    /\ method' = [method EXCEPT ![th] = m]
    /\ reply'  = [reply EXCEPT ![th] = "none"]
    /\ UNCHANGED <<now, secret, sessions, issued, victim, target, history>>

UserFindRemove(th) ==
  /\ pc[th] = "find_expired"
  /\ sessions' = RemoveUser(sessions, copy[th].token)
  /\ Finish(th, Refusal(method[th], "expired"))
  /\ UNCHANGED <<now, secret, issued, history>>

\* The copy goes back as it was read: its time is not renewed here.
FoundSession(th) == copy[th]

UserFindAdd(th) ==
  /\ Goto(th, "find_ok", IF method[th] = "LOGOUT" THEN "logout_lookup" ELSE "connect")
  /\ sessions' = AddUser(sessions, FoundSession(th))
  /\ UNCHANGED <<now, secret, issued, method, copy, victim, target, reply, history>>

-----------------------------------------------------------------------------
(* handle_logout: user_logout looks the session up and then removes it.    *)

LogoutLookup(th) ==
  \/ /\ Goto(th, "logout_lookup", "logout_remove")
     /\ GetById(sessions, copy[th].token) # {}
     /\ UNCHANGED <<now, secret, sessions, issued, method, copy, victim, target,
                    reply, history>>
  \/ /\ pc[th] = "logout_lookup"
     /\ GetById(sessions, copy[th].token) = {}
     /\ Finish(th, "ok")
     /\ UNCHANGED <<now, secret, sessions, issued, history>>

LogoutRemove(th) ==
  /\ pc[th] = "logout_remove"
  /\ sessions' = RemoveUser(sessions, copy[th].token)
  /\ Finish(th, "ok")
  /\ UNCHANGED <<now, secret, issued, history>>

-----------------------------------------------------------------------------
(* manager_connect and the two request loops exec_gmp_get, exec_gmp_post.  *)

\* A broken manager_connect that goes on when authentication fails.
AcceptedAnyway(th) == copy[th].owner \in Users

\* The manager accepts the password stored in the copy.
Accepted(th) == copy[th].secret = secret[copy[th].owner]

ManagerConnect(th) ==
  /\ Goto(th, "connect", IF method[th] = "GET" THEN "run" ELSE "renew")
  /\ Accepted(th)
  /\ UNCHANGED <<now, secret, sessions, issued, method, copy, victim, target,
                 reply, history>>

\* Authentication failed, or no connection to the manager.
ManagerRefused(th) ==
  /\ pc[th] = "connect"
  /\ \/ ~Accepted(th) /\ Finish(th, "login_failed")
     \/ Finish(th, "error")
  /\ UNCHANGED <<now, secret, sessions, issued, history>>

RunGet(th) ==
  /\ pc[th] = "run"
  /\ \E code \in {"ok", "error"} : Finish(th, code)
  /\ UNCHANGED <<now, secret, sessions, issued, history>>

\* A POST renews the session through the handler's own copy; the copy in
\* the credentials, which the commands work on, keeps the older time.
Renewed(th) == [copy[th] EXCEPT !.time = now]

PostRenew(th) ==
  /\ Goto(th, "renew", "command")
  /\ sessions' = AddUser(sessions, Renewed(th))
  /\ renewed'  = [renewed EXCEPT ![copy[th].token] = now]
  /\ UNCHANGED <<now, secret, issued, method, copy, victim, target, reply, entitled>>

\* A command that does not touch the session.
RunPost(th) ==
  /\ pc[th] = "command"
  /\ \E code \in {"ok", "error"} : Finish(th, code)
  /\ UNCHANGED <<now, secret, sessions, issued, history>>

\* renew_session_gmp.
RenewSession(th) ==
  /\ pc[th] = "command"
  /\ sessions' = AddUser(sessions, Renewed(th))
  /\ renewed'  = [renewed EXCEPT ![copy[th].token] = now]
  /\ Finish(th, "ok")
  /\ UNCHANGED <<now, secret, issued, entitled>>

-----------------------------------------------------------------------------
(* save_my_settings_gmp.                                                   *)

\* The request does not ask for a new password, or gvmd refuses the new one
\* and the function goes on with the other settings.
KeepPassword(th) ==
  /\ Goto(th, "command", "settings")
  /\ UNCHANGED <<now, secret, sessions, issued, method, copy, victim, target,
                 reply, history>>

\* gvmd takes the new password; the copy learns it if the answer arrives.
ChangePassword(th) ==
  LET s == copy[th] IN
  /\ Goto(th, "command", "close_others")
  /\ ChangeSecret(s.owner, {s.token})
  /\ copy' = [copy EXCEPT ![th].secret = secret[s.owner] + 1]
  /\ UNCHANGED <<now, sessions, issued, method, victim, target, reply, renewed>>

ChangePasswordUnanswered(th) ==
  /\ pc[th] = "command"
  /\ ChangeSecret(copy[th].owner, {copy[th].token})
  /\ Finish(th, "error")
  /\ UNCHANGED <<now, sessions, issued, renewed>>

CloseOthers(th) ==
  /\ Goto(th, "close_others", "settings_changed")
  /\ sessions' = RemoveOtherSessions(sessions, copy[th].token, copy[th].owner)
  /\ UNCHANGED <<now, secret, issued, method, copy, victim, target, reply, history>>

\* Timezone and language are also part of the copy; saving either sets
\* user_changed.  An exchange with gvmd that breaks off returns at once.
OtherSettings(th) ==
  /\ pc[th] \in {"settings", "settings_changed"}
  /\ \/ /\ pc' = [pc EXCEPT ![th] = "write_back"]
        /\ UNCHANGED <<method, copy, victim, target, reply>>
     \/ pc[th] = "settings" /\ Finish(th, "ok")
     \/ Finish(th, "error")
  /\ UNCHANGED <<now, secret, sessions, issued, history>>

WriteBack(th) ==
  /\ pc[th] = "write_back"
  /\ sessions' = AddUser(sessions, copy[th])
  /\ Finish(th, "ok")
  /\ UNCHANGED <<now, secret, issued, history>>

-----------------------------------------------------------------------------
(* save_user_gmp: an account, one's own or another, is modified.           *)

\* The reply when the account is the current user's own: every value of
\* modify_password but "3" is taken for a change of authentication method.
OwnAccountReply(th, u, modify) ==
  IF u = copy[th].owner /\ (modify = "2" \/ modify # "3")
    THEN "auth_changed" ELSE "ok"

\* Neither the name nor the password nor the authentication changes.
SaveUserOnly(th, u) ==
  /\ pc[th] = "command"
  /\ Finish(th, OwnAccountReply(th, u, "0"))
  /\ UNCHANGED <<now, secret, sessions, issued, history>>

\* A new password, another authentication source or a new name: what the
\* sessions of u have stored is no longer accepted.
ModifyUser(th, u) ==
  /\ pc[th] = "command"
  /\ ChangeSecret(u, IF u = copy[th].owner THEN {copy[th].token} ELSE {})
  /\ \/ /\ pc'     = [pc EXCEPT ![th] = "user_lookup"]
        /\ target' = [target EXCEPT ![th] = u]
        /\ UNCHANGED <<method, copy, victim, reply>>
     \/ Finish(th, "error")
  /\ UNCHANGED <<now, sessions, issued, renewed>>

\* The answer once the sessions are dealt with; the name and password set in
\* the credentials' copy are freed with it and never stored.  An account that
\* was renamed is no longer the current user's by then: "ok", as for "3".
ModifyReply(th) ==
  \E modify \in {"1", "2", "3"} : Finish(th, OwnAccountReply(th, target[th], modify))

UserLookup(th) ==
  /\ pc[th] = "user_lookup"
  /\ \/ /\ GetByName(sessions, target[th]) # {}
        /\ pc' = [pc EXCEPT ![th] = "user_close"]
        /\ UNCHANGED <<method, copy, victim, target, reply>>
     \/ /\ GetByName(sessions, target[th]) = {}
        /\ ModifyReply(th)
  /\ UNCHANGED <<now, secret, sessions, issued, history>>

UserClose(th) ==
  /\ pc[th] = "user_close"
  /\ sessions' = RemoveOtherSessions(sessions, copy[th].token, target[th])
  /\ ModifyReply(th)
  /\ UNCHANGED <<now, secret, issued, history>>

-----------------------------------------------------------------------------

Tick ==
  /\ now < MaxTime
  /\ now' = now + 1
  /\ UNCHANGED <<secret, sessions, issued, local, history>>

Init ==
  /\ now      = 0
  /\ secret   = [u \in Users |-> 0]
  /\ sessions = {}
  /\ issued   = {}
  /\ pc       = [th \in Threads |-> "idle"]
  /\ method   = [th \in Threads |-> None]
  /\ copy     = [th \in Threads |-> None]
  /\ victim   = [th \in Threads |-> None]
  /\ target   = [th \in Threads |-> None]
  /\ reply    = [th \in Threads |-> "none"]
  /\ renewed  = [t \in Tokens |-> 0]
  /\ entitled = [u \in Users |-> {}]

LoginStep(th) ==
  \/ \E u \in Users : LoginAuthenticated(th, u)
  \/ LoginRefused(th)
  \/ UserAddLookup(th)
  \/ UserAddRemoveExpired(th)
  \/ \E t \in Tokens : UserAdd(th, t)

FindStep(th) ==
  \/ \E m \in Methods, id \in Tokens :
       \/ UserFindUnknown(th, m, id)
       \/ UserFindExpired(th, m, id)
       \/ UserFindMismatch(th, m, id)
       \/ UserFindOk(th, m, id)
  \/ UserFindRemove(th)
  \/ UserFindAdd(th)

RequestStep(th) ==
  \/ LogoutLookup(th)
  \/ LogoutRemove(th)
  \/ ManagerConnect(th)
  \/ ManagerRefused(th)
  \/ RunGet(th)
  \/ PostRenew(th)
  \/ RunPost(th)
  \/ RenewSession(th)

SettingsStep(th) ==
  \/ KeepPassword(th)
  \/ ChangePassword(th)
  \/ ChangePasswordUnanswered(th)
  \/ CloseOthers(th)
  \/ OtherSettings(th)
  \/ WriteBack(th)

UserStep(th) ==
  \/ \E u \in Users : SaveUserOnly(th, u) \/ ModifyUser(th, u)
  \/ UserLookup(th)
  \/ UserClose(th)

Next ==
  \/ Tick
  \/ \E th \in Threads :
       \/ LoginStep(th)
       \/ FindStep(th)
       \/ RequestStep(th)
       \/ SettingsStep(th)
       \/ UserStep(th)

Spec == Init /\ [][Next]_vars

-----------------------------------------------------------------------------
(* What must hold.                                                         *)

\* The handler is past user_find and works on a copy of a session.
Working == PCs \ {"idle", "login_lookup", "login_expired", "login_add"}

Held == {copy[th].token : th \in {x \in Threads : pc[x] \in Working}}

\* Sessions that were opened, are stored no more, and no request works on.
Dead == issued \ (TokensOf(sessions) \cup Held)

(* Every variable has its type (user_t, the handlers' local state).        *)
TypeOK ==
  /\ now \in Nat
  /\ secret \in [Users -> Nat]
  /\ sessions \subseteq Session
  /\ issued \subseteq Tokens
  /\ pc \in [Threads -> PCs]
  /\ method \in [Threads -> Methods \cup {None}]
  /\ copy \in [Threads -> Session \cup LoginData \cup {None}]
  /\ victim \in [Threads -> Tokens \cup {None}]
  /\ target \in [Threads -> Users \cup {None}]
  /\ reply \in [Threads -> Replies]
  /\ renewed \in [Tokens -> Nat]
  /\ entitled \in [Users -> SUBSET Tokens]

(* No token names two sessions, whatever threads write back (user_logout   *)
(* and session_remove_user take one entry out and rely on it).             *)
UniqueTokens ==
  \A s, r \in sessions : s.token = r.token => s = r

(* A session that was closed (logout, expiry, a password change) while no  *)
(* other request was working on a copy of it never comes back.             *)
ClosedForGood == [][Dead \subseteq Dead']_vars

(* user_find lets a request pass only if its session was renewed within    *)
(* the timeout: by a login, a POST or renew_session. What user_find itself *)
(* does is no renewal (UserFindRenews).                                    *)
AcceptedWhileFresh ==
  [][\A th \in Threads :
       pc[th] = "idle" /\ pc'[th] = "find_ok"
         => now <= renewed[copy'[th].token] + Timeout]_vars

(* After a password was changed, no session but the one that changed it    *)
(* and those logged in later gets a command through to the manager: not    *)
(* those that were missed, nor those a late write-back brought back.       *)
OnlyEntitledConnect ==
  [][\A th \in Threads :
       pc[th] = "connect" /\ pc'[th] \in {"run", "renew"}
         => copy[th].token \in entitled[copy[th].owner]]_vars

(* "Removes all session of the user, except the one with the passed id"    *)
(* (session_remove_other_sessions): a session that is gone and does not     *)
(* know the current password is not stored again.                          *)
PasswordChangeIsFinal ==
  [][\A s \in sessions' :
       s.token \in issued \ TokensOf(sessions) => s.token \in entitled[s.owner]]_vars

(* "If a user is returned, the session of the user is renewed" (user_find): *)
(* when user_find hands out its copy, the stored session has the time of    *)
(* that moment.                                                             *)
UserFindRenews ==
  [][\A th \in Threads :
       pc[th] = "find_ok" /\ pc'[th] # "find_ok"
         => \E s \in sessions' : s.token = copy[th].token /\ s.time = now]_vars

=============================================================================
