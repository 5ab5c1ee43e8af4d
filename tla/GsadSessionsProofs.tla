------------------------- MODULE GsadSessionsProofs -------------------------
(***************************************************************************)
(* The safety properties of GsadSessions for any number of threads, users  *)
(* and tokens and any timeout.                                             *)
(***************************************************************************)
EXTENDS GsadSessions, TLAPS

Logging == {"login_lookup", "login_expired", "login_add"}

(* What a handler has in its hands at each place.                          *)
LocalTypes ==
  \A th \in Threads :
    /\ pc[th] \in Working => copy[th] \in Session
    /\ pc[th] \in Logging => copy[th] \in LoginData

TypeInv == TypeOK /\ LocalTypes

-----------------------------------------------------------------------------

(* AddUser stores exactly one record under the token and keeps the others; *)
(* the other operators only take records out.                              *)
LEMMA AddUserType ==
  ASSUME NEW db \in SUBSET Session, NEW s \in Session
  PROVE  AddUser(db, s) \in SUBSET Session
BY DEF AddUser, RemoveUser

LEMMA RemoveType ==
  ASSUME NEW db \in SUBSET Session
  PROVE  /\ \A id : RemoveUser(db, id) \in SUBSET Session
         /\ \A id, name : RemoveOtherSessions(db, id, name) \in SUBSET Session
BY DEF RemoveUser, RemoveOtherSessions

(* A handler that finishes leaves well-typed local state behind.           *)
LEMMA FinishType ==
  ASSUME TypeInv, NEW th \in Threads, NEW code \in Replies, Finish(th, code)
  PROVE  /\ pc' \in [Threads -> PCs]
         /\ method' \in [Threads -> Methods \cup {None}]
         /\ copy' \in [Threads -> Session \cup LoginData \cup {None}]
         /\ victim' \in [Threads -> Tokens \cup {None}]
         /\ target' \in [Threads -> Users \cup {None}]
         /\ reply' \in [Threads -> Replies]
         /\ LocalTypes'
BY DEF TypeInv, TypeOK, LocalTypes, Finish, PCs, Working, Logging

LEMMA RefusalType ==
  \A m : \A code \in Replies : Refusal(m, code) \in Replies
BY DEF Refusal, Replies

LEMMA LoginType ==
  ASSUME TypeInv, NEW th \in Threads, LoginStep(th)
  PROVE  TypeInv'
<1> USE DEF TypeInv
<1>1. ASSUME NEW u \in Users, LoginAuthenticated(th, u)
      PROVE  TypeInv'
  BY <1>1 DEF TypeOK, LocalTypes, LoginAuthenticated, Goto, LoginData, PCs,
              Working, Logging, Replies, history
<1>2. CASE LoginRefused(th)
  <2>1. "login_failed" \in Replies
    BY DEF Replies
  <2> QED
    BY <1>2, <2>1, FinishType DEF TypeOK, LoginRefused, history
<1>3. CASE UserAddLookup(th)
  BY <1>3 DEF TypeOK, LocalTypes, UserAddLookup, GetByName, Session, PCs, Working,
              Logging, history
<1>4. CASE UserAddRemoveExpired(th)
  BY <1>4, RemoveType DEF TypeOK, LocalTypes, UserAddRemoveExpired, Goto, PCs,
                          Working, Logging, history
<1>5. ASSUME NEW t \in Tokens, UserAdd(th, t)
      PROVE  TypeInv'
  <2>1. UserNewWithData(th, t) \in Session
    BY <1>5 DEF TypeOK, LocalTypes, UserAdd, Logging, LoginData, Session, UserNewWithData
  <2>2. sessions' \subseteq Session /\ issued' \subseteq Tokens
    BY <1>5, <2>1, AddUserType DEF TypeOK, UserAdd, NewSession
  <2>3. renewed' \in [Tokens -> Nat] /\ entitled' \in [Users -> SUBSET Tokens]
    BY <1>5 DEF TypeOK, UserAdd, NewSession
  <2>4. "ok" \in Replies
    BY DEF Replies
  <2> QED
    BY <1>5, <2>2, <2>3, <2>4, FinishType DEF TypeOK, UserAdd
<1> QED
  BY <1>1, <1>2, <1>3, <1>4, <1>5 DEF LoginStep

LEMMA FindType ==
  ASSUME TypeInv, NEW th \in Threads, FindStep(th)
  PROVE  TypeInv'
<1> USE DEF TypeInv
<1>1. ASSUME NEW m \in Methods, NEW id \in Tokens, UserFindUnknown(th, m, id)
      PROVE  TypeInv'
  <2>1. Refusal(m, "expired") \in Replies
    BY RefusalType DEF Replies
  <2> QED
    BY <1>1, <2>1, FinishType DEF TypeOK, UserFindUnknown, history
<1>2. ASSUME NEW m \in Methods, NEW id \in Tokens, UserFindExpired(th, m, id)
      PROVE  TypeInv'
  BY <1>2 DEF TypeOK, LocalTypes, UserFindExpired, Goto, GetById, PCs, Working,
              Logging, Replies, history
<1>3. ASSUME NEW m \in Methods, NEW id \in Tokens, UserFindMismatch(th, m, id)
      PROVE  TypeInv'
  <2>1. Refusal(m, "mismatch") \in Replies
    BY RefusalType DEF Replies
  <2> QED
    BY <1>3, <2>1, FinishType DEF TypeOK, UserFindMismatch, history
<1>4. ASSUME NEW m \in Methods, NEW id \in Tokens, UserFindOk(th, m, id)
      PROVE  TypeInv'
  BY <1>4 DEF TypeOK, LocalTypes, UserFindOk, Goto, GetById, PCs, Working, Logging,
              Replies, history
<1>5. CASE UserFindRemove(th)
  <2>1. Refusal(method[th], "expired") \in Replies
    BY RefusalType DEF Replies
  <2> QED
    BY <1>5, <2>1, FinishType, RemoveType DEF TypeOK, UserFindRemove, history
<1>6. CASE UserFindAdd(th)
  <2>1. copy[th] \in Session
    BY <1>6 DEF LocalTypes, UserFindAdd, Goto, Working, PCs
  <2>2. sessions' \subseteq Session
    BY <1>6, <2>1, AddUserType DEF TypeOK, UserFindAdd, FoundSession
  <2> QED
    BY <1>6, <2>1, <2>2 DEF TypeOK, LocalTypes, UserFindAdd, Goto, PCs, Working,
                            Logging, history
<1> QED
  BY <1>1, <1>2, <1>3, <1>4, <1>5, <1>6 DEF FindStep

LEMMA RequestType ==
  ASSUME TypeInv, NEW th \in Threads, RequestStep(th)
  PROVE  TypeInv'
<1> USE DEF TypeInv
<1> DEFINE Codes == {"ok", "error", "login_failed"}
<1>0. Codes \subseteq Replies
  BY DEF Replies
<1>1. CASE LogoutLookup(th)
  <2>1. CASE Goto(th, "logout_lookup", "logout_remove")
    BY <1>1, <2>1 DEF TypeOK, LocalTypes, LogoutLookup, Goto, Finish, PCs, Working,
                      Logging, history
  <2>2. CASE Finish(th, "ok")
    BY <1>0, <1>1, <2>2, FinishType DEF TypeOK, LogoutLookup, history
  <2> QED
    BY <1>1, <2>1, <2>2 DEF LogoutLookup
<1>2. CASE LogoutRemove(th)
  BY <1>0, <1>2, FinishType, RemoveType DEF TypeOK, LogoutRemove, history
<1>3. CASE ManagerConnect(th)
  BY <1>3 DEF TypeOK, LocalTypes, ManagerConnect, Goto, PCs, Working, Logging, history
<1>4. CASE ManagerRefused(th)
  BY <1>0, <1>4, FinishType DEF TypeOK, ManagerRefused, history
<1>5. CASE RunGet(th)
  BY <1>0, <1>5, FinishType DEF TypeOK, RunGet, history
<1>6. ASSUME pc[th] \in Working
      PROVE  Renewed(th) \in Session /\ copy[th].token \in Tokens
  BY <1>6 DEF TypeOK, LocalTypes, Renewed, Session
<1>7. CASE PostRenew(th)
  <2>1. pc[th] \in Working
    BY <1>7 DEF PostRenew, Goto, Working, PCs
  <2>2. sessions' \subseteq Session /\ renewed' \in [Tokens -> Nat]
    BY <1>6, <1>7, <2>1, AddUserType DEF TypeOK, PostRenew
  <2> QED
    BY <1>7, <2>1, <2>2 DEF TypeOK, LocalTypes, PostRenew, Goto, PCs, Working, Logging
<1>8. CASE RunPost(th)
  BY <1>0, <1>8, FinishType DEF TypeOK, RunPost, history
<1>9. CASE RenewSession(th)
  <2>1. pc[th] \in Working
    BY <1>9 DEF RenewSession, Working, PCs
  <2>2. sessions' \subseteq Session /\ renewed' \in [Tokens -> Nat]
    BY <1>6, <1>9, <2>1, AddUserType DEF TypeOK, RenewSession
  <2> QED
    BY <1>0, <1>9, <2>2, FinishType DEF TypeOK, RenewSession
<1> QED
  BY <1>1, <1>2, <1>3, <1>4, <1>5, <1>7, <1>8, <1>9 DEF RequestStep

(* The manager's counter of password changes stays a number, and the       *)
(* sessions that know the new password are sessions.                       *)
LEMMA ChangeSecretType ==
  ASSUME TypeInv, NEW u \in Users, NEW knowing \in SUBSET Tokens,
         ChangeSecret(u, knowing)
  PROVE  /\ secret' \in [Users -> Nat]
         /\ entitled' \in [Users -> SUBSET Tokens]
BY DEF TypeInv, TypeOK, ChangeSecret

LEMMA SettingsType ==
  ASSUME TypeInv, NEW th \in Threads, SettingsStep(th)
  PROVE  TypeInv'
<1> USE DEF TypeInv
<1>0. {"ok", "error"} \subseteq Replies
  BY DEF Replies
<1>1. ASSUME pc[th] \in Working
      PROVE  /\ copy[th] \in Session
             /\ copy[th].owner \in Users
             /\ {copy[th].token} \in SUBSET Tokens
  BY <1>1 DEF LocalTypes, Session
<1>2. CASE KeepPassword(th)
  BY <1>2 DEF TypeOK, LocalTypes, KeepPassword, Goto, PCs, Working, Logging, history
<1>3. CASE ChangePassword(th)
  <2>1. pc[th] \in Working
    BY <1>3 DEF ChangePassword, Goto, Working, PCs
  <2>2. secret' \in [Users -> Nat] /\ entitled' \in [Users -> SUBSET Tokens]
    BY <1>1, <1>3, <2>1, ChangeSecretType DEF ChangePassword
  <2>3. copy' = [copy EXCEPT ![th] = [copy[th] EXCEPT !.secret = secret[copy[th].owner] + 1]]
    BY <1>3 DEF ChangePassword
  <2>4. [copy[th] EXCEPT !.secret = secret[copy[th].owner] + 1] \in Session
    BY <1>1, <2>1 DEF TypeOK, Session
  <2> QED
    BY <1>3, <2>2, <2>3, <2>4 DEF TypeOK, LocalTypes, ChangePassword, Goto, PCs,
                                  Working, Logging
<1>4. CASE ChangePasswordUnanswered(th)
  <2>1. pc[th] \in Working
    BY <1>4 DEF ChangePasswordUnanswered, Working, PCs
  <2>2. secret' \in [Users -> Nat] /\ entitled' \in [Users -> SUBSET Tokens]
    BY <1>1, <1>4, <2>1, ChangeSecretType DEF ChangePasswordUnanswered
  <2> QED
    BY <1>0, <1>4, <2>2, FinishType DEF TypeOK, ChangePasswordUnanswered
<1>5. CASE CloseOthers(th)
  BY <1>5, RemoveType DEF TypeOK, LocalTypes, CloseOthers, Goto, PCs, Working,
                          Logging, history
<1>6. CASE OtherSettings(th)
  <2>1. CASE pc' = [pc EXCEPT ![th] = "write_back"] /\ UNCHANGED <<method, copy, victim, target, reply>>
    BY <1>6, <2>1 DEF TypeOK, LocalTypes, OtherSettings, PCs, Working, Logging, history
  <2>2. CASE \E code \in {"ok", "error"} : Finish(th, code)
    BY <1>0, <1>6, <2>2, FinishType DEF TypeOK, OtherSettings, history
  <2> QED
    BY <1>6, <2>1, <2>2 DEF OtherSettings
<1>7. CASE WriteBack(th)
  <2>1. pc[th] \in Working
    BY <1>7 DEF WriteBack, Working, PCs
  <2>2. sessions' \subseteq Session
    BY <1>1, <1>7, <2>1, AddUserType DEF TypeOK, WriteBack
  <2> QED
    BY <1>0, <1>7, <2>2, FinishType DEF TypeOK, WriteBack, history
<1> QED
  BY <1>2, <1>3, <1>4, <1>5, <1>6, <1>7 DEF SettingsStep

LEMMA UserType ==
  ASSUME TypeInv, NEW th \in Threads, UserStep(th)
  PROVE  TypeInv'
<1> USE DEF TypeInv
<1>0. "error" \in Replies /\ \A u, modify : OwnAccountReply(th, u, modify) \in Replies
  BY DEF Replies, OwnAccountReply
<1>1. ASSUME NEW u \in Users, SaveUserOnly(th, u)
      PROVE  TypeInv'
  BY <1>0, <1>1, FinishType DEF TypeOK, SaveUserOnly, history
<1>2. ASSUME NEW u \in Users, ModifyUser(th, u)
      PROVE  TypeInv'
  <2>1. copy[th].token \in Tokens
    BY <1>2 DEF LocalTypes, ModifyUser, Working, PCs, Session
  <2>2. secret' \in [Users -> Nat] /\ entitled' \in [Users -> SUBSET Tokens]
    BY <1>2, <2>1, ChangeSecretType DEF ModifyUser
  <2>3. CASE Finish(th, "error")
    BY <1>0, <1>2, <2>2, <2>3, FinishType DEF TypeOK, ModifyUser
  <2>4. CASE /\ pc'     = [pc EXCEPT ![th] = "user_lookup"]
             /\ target' = [target EXCEPT ![th] = u]
             /\ UNCHANGED <<method, copy, victim, reply>>
    BY <1>2, <2>2, <2>4 DEF TypeOK, LocalTypes, ModifyUser, PCs, Working, Logging
  <2> QED
    BY <1>2, <2>3, <2>4 DEF ModifyUser
<1>3. CASE UserLookup(th)
  <2>1. CASE ModifyReply(th)
    BY <1>0, <1>3, <2>1, FinishType DEF TypeOK, UserLookup, ModifyReply, history
  <2>2. CASE pc' = [pc EXCEPT ![th] = "user_close"] /\ UNCHANGED <<method, copy, victim, target, reply>>
    BY <1>3, <2>2 DEF TypeOK, LocalTypes, UserLookup, PCs, Working, Logging, history
  <2> QED
    BY <1>3, <2>1, <2>2 DEF UserLookup
<1>4. CASE UserClose(th)
  BY <1>0, <1>4, FinishType, RemoveType DEF TypeOK, UserClose, ModifyReply, history
<1> QED
  BY <1>1, <1>2, <1>3, <1>4 DEF UserStep

-----------------------------------------------------------------------------

LEMMA TypeStep ==
  TypeInv /\ [Next]_vars => TypeInv'
<1> SUFFICES ASSUME TypeInv, [Next]_vars PROVE TypeInv'
  OBVIOUS
<1>1. CASE Tick
  BY <1>1 DEF TypeInv, TypeOK, LocalTypes, Tick, local, history
<1>2. ASSUME NEW th \in Threads,
             LoginStep(th) \/ FindStep(th) \/ RequestStep(th) \/ SettingsStep(th) \/ UserStep(th)
      PROVE  TypeInv'
  BY <1>2, LoginType, FindType, RequestType, SettingsType, UserType
<1>3. CASE UNCHANGED vars
  BY <1>3 DEF TypeInv, TypeOK, LocalTypes, vars, local
<1> QED
  BY <1>1, <1>2, <1>3 DEF Next

LEMMA TypeInit ==
  Init => TypeInv
BY DEF Init, TypeInv, TypeOK, LocalTypes, PCs, Working, Logging, Replies

(* Every variable always has its type.                                     *)
THEOREM TypeCorrect == Spec => []TypeOK
<1>1. TypeInv => TypeOK
  BY DEF TypeInv
<1> QED
  BY <1>1, TypeInit, TypeStep, PTL DEF Spec

LEMMA TypeInvariant == Spec => []TypeInv
BY TypeInit, TypeStep, PTL DEF Spec

-----------------------------------------------------------------------------
(***************************************************************************)
(* What is true of every record in the database and of every copy a        *)
(* handler works on: its token was issued, it is no younger than the last  *)
(* renewal, and it holds the current password only if the session is       *)
(* entitled to it.  The bound on the password counter keeps the last fact  *)
(* through a change: no record can already hold the next password.         *)
(***************************************************************************)
Sound(s) ==
  /\ s.token \in issued
  /\ s.time <= renewed[s.token]
  /\ s.secret <= secret[s.owner]
  /\ s.secret = secret[s.owner] => s.token \in entitled[s.owner]

SoundInv ==
  /\ \A s \in sessions : Sound(s)
  /\ \A th \in Threads : pc[th] \in Working => Sound(copy[th])
  /\ \A th \in Threads :
       pc[th] \in Logging => copy[th].secret <= secret[copy[th].owner]
  /\ \A t \in Tokens : renewed[t] <= now

(* A step that moves records between the database and the copies and       *)
(* changes nothing in them: most steps of most handlers.                   *)
Shuffle ==
  /\ UNCHANGED <<now, issued, renewed, secret, entitled>>
  /\ \A s \in sessions' :
       s \in sessions \/ \E x \in Threads : pc[x] \in Working /\ s = copy[x]
  /\ \A x \in Threads :
       pc'[x] \in Working => \/ pc[x] \in Working /\ copy'[x] = copy[x]
                             \/ copy'[x] \in sessions
  /\ \A x \in Threads :
       pc'[x] \in Logging => pc[x] \in Logging /\ copy'[x] = copy[x]

LEMMA ShuffleSound ==
  ASSUME SoundInv, Shuffle
  PROVE  SoundInv'
BY DEF SoundInv, Shuffle, Sound

(* A handler that finishes drops its copy and touches no other.            *)
LEMMA FinishLocal ==
  ASSUME TypeInv, NEW th \in Threads, NEW code, Finish(th, code)
  PROVE  /\ \A x \in Threads :
              pc'[x] \in Working => pc[x] \in Working /\ copy'[x] = copy[x]
         /\ \A x \in Threads :
              pc'[x] \in Logging => pc[x] \in Logging /\ copy'[x] = copy[x]
BY DEF TypeInv, TypeOK, Finish, Working, Logging, PCs

(* So does a handler that only moves on.                                   *)
LEMMA MoveLocal ==
  ASSUME TypeInv, NEW th \in Threads, NEW next, UNCHANGED copy,
         pc' = [pc EXCEPT ![th] = next],
         next \in Working => pc[th] \in Working,
         next \in Logging => pc[th] \in Logging
  PROVE  /\ \A x \in Threads :
              pc'[x] \in Working => pc[x] \in Working /\ copy'[x] = copy[x]
         /\ \A x \in Threads :
              pc'[x] \in Logging => pc[x] \in Logging /\ copy'[x] = copy[x]
BY DEF TypeInv, TypeOK

(* Handlers that answer without touching the database.                     *)
LEMMA AnswerShuffles ==
  ASSUME TypeInv, NEW th \in Threads, NEW code, Finish(th, code),
         UNCHANGED <<now, secret, sessions, issued, history>>
  PROVE  Shuffle
BY FinishLocal DEF Shuffle, history

LEMMA LoginShuffles ==
  ASSUME TypeInv, NEW th \in Threads,
         LoginRefused(th) \/ UserAddLookup(th) \/ UserAddRemoveExpired(th)
  PROVE  Shuffle
<1>1. CASE LoginRefused(th)
  BY <1>1, AnswerShuffles DEF LoginRefused
<1>2. CASE UserAddLookup(th)
  <2>1. PICK next \in Logging : pc' = [pc EXCEPT ![th] = next]
    BY <1>2 DEF UserAddLookup, Logging
  <2>2. pc[th] \in Logging /\ next \notin Working /\ UNCHANGED copy
    BY <1>2, <2>1 DEF UserAddLookup, Logging, Working
  <2> QED
    BY <1>2, <2>1, <2>2, MoveLocal DEF UserAddLookup, Shuffle, history
<1>3. CASE UserAddRemoveExpired(th)
  <2>1. pc[th] \in Logging /\ "login_add" \notin Working
    BY <1>3 DEF UserAddRemoveExpired, Goto, Logging, Working
  <2>2. sessions' \subseteq sessions
    BY <1>3 DEF UserAddRemoveExpired, RemoveUser
  <2> QED
    BY <1>3, <2>1, <2>2, MoveLocal DEF UserAddRemoveExpired, Goto, Shuffle, history
<1> QED
  BY <1>1, <1>2, <1>3

LEMMA FindShuffles ==
  ASSUME TypeInv, NEW th \in Threads, FindStep(th)
  PROVE  Shuffle
<1>1. ASSUME NEW m \in Methods, NEW id \in Tokens,
             UserFindUnknown(th, m, id) \/ UserFindMismatch(th, m, id)
      PROVE  Shuffle
  BY <1>1, AnswerShuffles DEF UserFindUnknown, UserFindMismatch
<1>2. ASSUME NEW m \in Methods, NEW id \in Tokens,
             UserFindExpired(th, m, id) \/ UserFindOk(th, m, id)
      PROVE  Shuffle
  <2>1. PICK s \in sessions : copy' = [copy EXCEPT ![th] = s]
    BY <1>2 DEF UserFindExpired, UserFindOk, GetById
  <2>2. \A x \in Threads \ {th} : pc'[x] = pc[x] /\ copy'[x] = copy[x]
    BY <1>2, <2>1 DEF UserFindExpired, UserFindOk, Goto, TypeInv, TypeOK
  <2>3. copy'[th] \in sessions /\ pc'[th] \notin Logging
    BY <1>2, <2>1 DEF UserFindExpired, UserFindOk, Goto, TypeInv, TypeOK, Logging
  <2>4. UNCHANGED <<now, issued, renewed, secret, entitled, sessions>>
    BY <1>2 DEF UserFindExpired, UserFindOk, history
  <2> QED
    BY <2>2, <2>3, <2>4 DEF Shuffle
<1>3. CASE UserFindRemove(th)
  <2>1. sessions' \subseteq sessions
    BY <1>3 DEF UserFindRemove, RemoveUser
  <2> QED
    BY <1>3, <2>1, FinishLocal DEF UserFindRemove, Shuffle, history
<1>4. CASE UserFindAdd(th)
  <2>1. PICK next \in {"logout_lookup", "connect"} : pc' = [pc EXCEPT ![th] = next]
    BY <1>4 DEF UserFindAdd, Goto
  <2>2. pc[th] \in Working /\ next \notin Logging
    BY <1>4, <2>1 DEF UserFindAdd, Goto, Logging, Working, PCs
  <2>3. \A s \in sessions' : s \in sessions \/ s = copy[th]
    BY <1>4 DEF UserFindAdd, AddUser, RemoveUser, FoundSession
  <2> QED
    BY <1>4, <2>1, <2>2, <2>3, MoveLocal DEF UserFindAdd, Shuffle, history
<1> QED
  BY <1>1, <1>2, <1>3, <1>4 DEF FindStep

LEMMA RequestShuffles ==
  ASSUME TypeInv, NEW th \in Threads,
         \/ LogoutLookup(th) \/ LogoutRemove(th) \/ ManagerConnect(th)
         \/ ManagerRefused(th) \/ RunGet(th) \/ RunPost(th)
  PROVE  Shuffle
<1>1. CASE LogoutLookup(th)
  <2>1. CASE Goto(th, "logout_lookup", "logout_remove") /\ UNCHANGED copy
    BY <1>1, <2>1, MoveLocal DEF LogoutLookup, Goto, Shuffle, history, Working, Logging,
                                 PCs, Finish
  <2>2. CASE Finish(th, "ok")
    BY <1>1, <2>2, AnswerShuffles DEF LogoutLookup
  <2> QED
    BY <1>1, <2>1, <2>2 DEF LogoutLookup
<1>2. CASE LogoutRemove(th)
  <2>1. sessions' \subseteq sessions
    BY <1>2 DEF LogoutRemove, RemoveUser
  <2> QED
    BY <1>2, <2>1, FinishLocal DEF LogoutRemove, Shuffle, history
<1>3. CASE ManagerConnect(th)
  <2>1. PICK next \in {"run", "renew"} : pc' = [pc EXCEPT ![th] = next]
    BY <1>3 DEF ManagerConnect, Goto
  <2>2. pc[th] \in Working /\ next \notin Logging
    BY <1>3, <2>1 DEF ManagerConnect, Goto, Logging, Working, PCs
  <2> QED
    BY <1>3, <2>1, <2>2, MoveLocal DEF ManagerConnect, Shuffle, history
<1>4. CASE ManagerRefused(th) \/ RunGet(th) \/ RunPost(th)
  BY <1>4, AnswerShuffles DEF ManagerRefused, RunGet, RunPost
<1> QED
  BY <1>1, <1>2, <1>3, <1>4

LEMMA CommandShuffles ==
  ASSUME TypeInv, NEW th \in Threads,
         \/ KeepPassword(th) \/ CloseOthers(th) \/ OtherSettings(th)
         \/ WriteBack(th) \/ UserLookup(th) \/ UserClose(th)
         \/ \E u \in Users : SaveUserOnly(th, u)
  PROVE  Shuffle
<1>1. CASE KeepPassword(th)
  BY <1>1, MoveLocal DEF KeepPassword, Goto, Shuffle, history, Working, Logging, PCs
<1>2. CASE CloseOthers(th)
  <2>1. sessions' \subseteq sessions
    BY <1>2 DEF CloseOthers, RemoveOtherSessions
  <2> QED
    BY <1>2, <2>1, MoveLocal DEF CloseOthers, Goto, Shuffle, history, Working, Logging, PCs
<1>3. CASE OtherSettings(th)
  <2>1. CASE pc' = [pc EXCEPT ![th] = "write_back"] /\ UNCHANGED copy
    BY <1>3, <2>1, MoveLocal DEF OtherSettings, Shuffle, history, Working, Logging, PCs
  <2>2. CASE \E code : Finish(th, code)
    BY <1>3, <2>2, AnswerShuffles DEF OtherSettings
  <2> QED
    BY <1>3, <2>1, <2>2 DEF OtherSettings
<1>4. CASE WriteBack(th)
  <2>1. pc[th] \in Working
    BY <1>4 DEF WriteBack, Working, PCs
  <2>2. \A s \in sessions' : s \in sessions \/ s = copy[th]
    BY <1>4 DEF WriteBack, AddUser, RemoveUser
  <2> QED
    BY <1>4, <2>1, <2>2, FinishLocal DEF WriteBack, Shuffle, history
<1>5. CASE UserLookup(th)
  <2>1. CASE pc' = [pc EXCEPT ![th] = "user_close"] /\ UNCHANGED copy
    BY <1>5, <2>1, MoveLocal DEF UserLookup, Shuffle, history, Working, Logging, PCs
  <2>2. CASE ModifyReply(th)
    BY <1>5, <2>2, AnswerShuffles DEF UserLookup, ModifyReply
  <2> QED
    BY <1>5, <2>1, <2>2 DEF UserLookup
<1>6. CASE UserClose(th)
  <2>1. sessions' \subseteq sessions
    BY <1>6 DEF UserClose, RemoveOtherSessions
  <2> QED
    BY <1>6, <2>1, FinishLocal DEF UserClose, ModifyReply, Shuffle, history
<1>7. ASSUME NEW u \in Users, SaveUserOnly(th, u)
      PROVE  Shuffle
  BY <1>7, AnswerShuffles DEF SaveUserOnly
<1> QED
  BY <1>1, <1>2, <1>3, <1>4, <1>5, <1>6, <1>7

-----------------------------------------------------------------------------
(* The steps that make or change a record.                                 *)

LEMMA LoginSound ==
  ASSUME TypeInv, SoundInv, NEW th \in Threads, NEW u \in Users,
         LoginAuthenticated(th, u)
  PROVE  SoundInv'
<1>1. /\ copy'[th].secret = secret[u] /\ copy'[th].owner = u /\ pc'[th] \in Logging
      /\ \A x \in Threads \ {th} : copy'[x] = copy[x] /\ pc'[x] = pc[x]
  BY DEF LoginAuthenticated, Goto, TypeInv, TypeOK, Logging
<1>2. UNCHANGED <<now, secret, sessions, issued, renewed, entitled>>
  BY DEF LoginAuthenticated, history
<1>3. pc'[th] \notin Working /\ secret[u] <= secret[u]
  BY <1>1 DEF Logging, Working, TypeInv, TypeOK
<1> QED
  BY <1>1, <1>2, <1>3 DEF SoundInv, Sound

LEMMA UserAddSound ==
  ASSUME TypeInv, SoundInv, NEW th \in Threads, NEW t \in Tokens, UserAdd(th, t)
  PROVE  SoundInv'
<1> DEFINE new == UserNewWithData(th, t)
<1>1. /\ copy[th].owner \in Users /\ copy[th].secret \in Nat
      /\ copy[th].secret <= secret[copy[th].owner]
  BY DEF UserAdd, TypeInv, LocalTypes, SoundInv, Logging, LoginData
<1>2. /\ issued' = issued \cup {t} /\ UNCHANGED <<now, secret>>
      /\ renewed' = [renewed EXCEPT ![t] = now]
  BY DEF UserAdd, NewSession
<1>3. /\ \A v \in Users : entitled[v] \subseteq entitled'[v]
      /\ new.secret = secret[new.owner] => t \in entitled'[new.owner]
  BY <1>1 DEF UserAdd, NewSession, TypeInv, TypeOK, UserNewWithData
<1>4. \A x \in Tokens : renewed[x] <= renewed'[x] /\ renewed'[x] <= now
  BY <1>2 DEF SoundInv, TypeInv, TypeOK
<1>5. /\ t \in issued' /\ now <= renewed'[t]
      /\ new.secret <= secret[new.owner]
      /\ new.token = t /\ new.time = now
  BY <1>1, <1>2 DEF TypeInv, TypeOK, UserNewWithData
<1>6. \A s \in sessions' : s \in sessions \/ s = new
  BY DEF UserAdd, NewSession, AddUser, RemoveUser
<1>7. ASSUME NEW s \in Session, Sound(s)
      PROVE  /\ s.token \in issued'
             /\ s.time <= renewed'[s.token]
             /\ s.secret = secret[s.owner] => s.token \in entitled'[s.owner]
  <2>1. s.token \in Tokens /\ s.owner \in Users /\ s.time \in Nat
    BY DEF Session
  <2>2. renewed[s.token] \in Nat /\ renewed'[s.token] \in Nat
    BY <1>2, <2>1 DEF TypeInv, TypeOK
  <2>3. s.time <= renewed'[s.token]
    BY <1>4, <1>7, <2>1, <2>2 DEF Sound
  <2> QED
    BY <1>2, <1>3, <1>7, <2>1, <2>3 DEF Sound
<1>8. \A s \in sessions' : Sound(s)'
  <2> TAKE s \in sessions'
  <2>1. CASE s \in sessions
    <3>1. s \in Session /\ Sound(s)
      BY <2>1 DEF SoundInv, TypeInv, TypeOK
    <3> QED
      BY <1>2, <1>7, <3>1 DEF Sound
  <2>2. CASE s = new
    BY <1>2, <1>3, <1>5, <2>2 DEF Sound
  <2> QED
    BY <1>6, <2>1, <2>2
<1>9. ASSUME NEW x \in Threads, pc'[x] \in Working
      PROVE  Sound(copy[x])' /\ copy'[x] = copy[x]
  <2>1. pc[x] \in Working /\ copy'[x] = copy[x]
    BY <1>9, FinishLocal DEF UserAdd
  <2>2. copy[x] \in Session /\ Sound(copy[x])
    BY <2>1 DEF TypeInv, LocalTypes, SoundInv
  <2> QED
    BY <1>2, <1>7, <2>1, <2>2 DEF Sound
<1>10. \A x \in Threads : pc'[x] \in Logging => copy'[x].secret <= secret'[copy'[x].owner]
  BY <1>2, FinishLocal DEF UserAdd, SoundInv
<1> QED
  BY <1>2, <1>4, <1>8, <1>9, <1>10 DEF SoundInv

(* A renewal gives the stored record, and the token, the time of now.      *)
LEMMA RenewSound ==
  ASSUME TypeInv, SoundInv, NEW th \in Threads, pc[th] \in Working,
         sessions' = AddUser(sessions, Renewed(th)),
         renewed' = [renewed EXCEPT ![copy[th].token] = now],
         UNCHANGED <<now, secret, issued, entitled>>,
         \A x \in Threads : pc'[x] \in Working => pc[x] \in Working /\ copy'[x] = copy[x],
         \A x \in Threads : pc'[x] \in Logging => pc[x] \in Logging /\ copy'[x] = copy[x]
  PROVE  SoundInv'
<1> DEFINE new == Renewed(th)
<1>1. copy[th] \in Session /\ Sound(copy[th])
  BY DEF TypeInv, LocalTypes, SoundInv
<1>2. \A x \in Tokens : renewed[x] <= renewed'[x] /\ renewed'[x] <= now
  BY DEF SoundInv, TypeInv, TypeOK
<1>3. new \in Session /\ new.token = copy[th].token /\ new.time = now
      /\ new.owner = copy[th].owner /\ new.secret = copy[th].secret
  BY <1>1 DEF TypeInv, TypeOK, Session, Renewed
<1>4. \A s \in sessions' : s \in sessions \/ s = new
  BY DEF AddUser, RemoveUser
<1>5. ASSUME NEW s \in Session, Sound(s)
      PROVE  s.time <= renewed'[s.token]
  <2>1. s.token \in Tokens /\ s.time \in Nat
    BY DEF Session
  <2>2. renewed[s.token] \in Nat /\ renewed'[s.token] \in Nat
    BY <2>1 DEF TypeInv, TypeOK
  <2> QED
    BY <1>2, <1>5, <2>1, <2>2 DEF Sound
<1>6. now <= renewed'[new.token]
  BY <1>1, <1>3 DEF TypeInv, TypeOK, Session
<1>7. \A s \in sessions' : Sound(s)'
  <2> TAKE s \in sessions'
  <2>1. CASE s \in sessions
    <3>1. s \in Session /\ Sound(s)
      BY <2>1 DEF SoundInv, TypeInv, TypeOK
    <3> QED
      BY <1>5, <3>1 DEF Sound
  <2>2. CASE s = new
    BY <1>1, <1>3, <1>6, <2>2 DEF Sound
  <2> QED
    BY <1>4, <2>1, <2>2
<1>8. ASSUME NEW x \in Threads, pc'[x] \in Working
      PROVE  Sound(copy[x])' /\ copy'[x] = copy[x]
  <2>1. copy[x] \in Session /\ Sound(copy[x]) /\ copy'[x] = copy[x]
    BY <1>8 DEF TypeInv, LocalTypes, SoundInv
  <2> QED
    BY <1>5, <2>1 DEF Sound
<1>9. \A x \in Threads : pc'[x] \in Logging => copy'[x].secret <= secret'[copy'[x].owner]
  BY DEF SoundInv
<1> QED
  BY <1>2, <1>7, <1>8, <1>9 DEF SoundInv

(* A password change: no record holds the next password yet, so only the   *)
(* handler that sets it may, and its session is entitled.                  *)
LEMMA ChangeSound ==
  ASSUME TypeInv, SoundInv, NEW th \in Threads, NEW u \in Users,
         NEW knowing \in SUBSET Tokens, ChangeSecret(u, knowing),
         UNCHANGED <<now, sessions, issued, renewed>>,
         \A x \in Threads :
           pc'[x] \in Working =>
             /\ pc[x] \in Working
             /\ \/ copy'[x] = copy[x]
                \/ /\ copy[x].owner = u
                   /\ copy[x].token \in knowing
                   /\ copy'[x] = [copy[x] EXCEPT !.secret = secret[u] + 1],
         \A x \in Threads : pc'[x] \in Logging => pc[x] \in Logging /\ copy'[x] = copy[x]
  PROVE  SoundInv'
<1>1. /\ secret' = [secret EXCEPT ![u] = secret[u] + 1]
      /\ entitled' = [entitled EXCEPT ![u] = knowing]
      /\ secret \in [Users -> Nat] /\ entitled \in [Users -> SUBSET Tokens]
  BY DEF ChangeSecret, TypeInv, TypeOK
<1>2. ASSUME NEW s \in Session, Sound(s)
      PROVE  /\ s.token \in issued' /\ s.time <= renewed'[s.token]
             /\ s.secret <= secret'[s.owner]
             /\ s.secret = secret'[s.owner] => s.token \in entitled'[s.owner]
  <2>1. s.owner \in Users /\ s.secret \in Nat /\ secret[s.owner] \in Nat
    BY <1>1 DEF Session
  <2>2. CASE s.owner = u
    BY <1>1, <1>2, <2>1, <2>2 DEF Sound
  <2>3. CASE s.owner # u
    BY <1>1, <1>2, <2>1, <2>3 DEF Sound
  <2> QED
    BY <2>2, <2>3
<1>3. \A s \in sessions' : Sound(s)'
  <2> TAKE s \in sessions'
  <2>1. s \in Session /\ Sound(s)
    BY DEF SoundInv, TypeInv, TypeOK
  <2> QED
    BY <1>2, <2>1 DEF Sound
<1>4. ASSUME NEW x \in Threads, pc'[x] \in Working
      PROVE  Sound(copy[x])'
  <2>1. copy[x] \in Session /\ Sound(copy[x])
    BY <1>4 DEF SoundInv, TypeInv, LocalTypes
  <2>2. CASE copy'[x] = copy[x]
    BY <1>2, <2>1, <2>2 DEF Sound
  <2>3. CASE /\ copy[x].owner = u
             /\ copy[x].token \in knowing
             /\ copy'[x] = [copy[x] EXCEPT !.secret = secret[u] + 1]
    <3>1. /\ copy'[x].owner = u /\ copy'[x].token = copy[x].token
          /\ copy'[x].time = copy[x].time /\ copy'[x].secret = secret'[u]
      BY <1>1, <2>1, <2>3 DEF Session
    <3>2. secret'[u] \in Nat /\ copy[x].token \in entitled'[u]
      BY <1>1, <2>3
    <3> QED
      BY <2>1, <3>1, <3>2 DEF Sound
  <2> QED
    BY <1>4, <2>2, <2>3
<1>5. ASSUME NEW x \in Threads, pc'[x] \in Logging
      PROVE  copy'[x].secret <= secret'[copy'[x].owner]
  <2>1. /\ copy'[x] = copy[x] /\ copy[x].secret <= secret[copy[x].owner]
        /\ copy[x].owner \in Users /\ copy[x].secret \in Nat
    BY <1>5 DEF SoundInv, TypeInv, LocalTypes, LoginData
  <2> QED
    BY <1>1, <2>1
<1>6. \A t \in Tokens : renewed'[t] <= now'
  BY DEF SoundInv
<1> QED
  BY <1>3, <1>4, <1>5, <1>6 DEF SoundInv

LEMMA RenewingSteps ==
  ASSUME TypeInv, SoundInv, NEW th \in Threads, PostRenew(th) \/ RenewSession(th)
  PROVE  SoundInv'
<1>1. CASE PostRenew(th)
  <2>1. pc[th] \in Working /\ "command" \in Working /\ "command" \notin Logging
    BY <1>1 DEF PostRenew, Goto, Working, Logging, PCs
  <2> QED
    BY <1>1, <2>1, MoveLocal, RenewSound DEF PostRenew, Goto
<1>2. CASE RenewSession(th)
  <2>1. pc[th] \in Working
    BY <1>2 DEF RenewSession, Working, PCs
  <2> QED
    BY <1>2, <2>1, FinishLocal, RenewSound DEF RenewSession
<1> QED
  BY <1>1, <1>2

LEMMA ChangingSteps ==
  ASSUME TypeInv, SoundInv, NEW th \in Threads,
         \/ ChangePassword(th) \/ ChangePasswordUnanswered(th)
         \/ \E u \in Users : ModifyUser(th, u)
  PROVE  SoundInv'
<1>0. pc[th] = "command" /\ pc[th] \in Working
  BY DEF ChangePassword, ChangePasswordUnanswered, ModifyUser, Goto, Working, PCs
<1>1. copy[th] \in Session /\ copy[th].token \in Tokens /\ copy[th].owner \in Users
  BY <1>0 DEF TypeInv, LocalTypes, Session
<1> DEFINE me == copy[th]
<1>2. CASE ChangePassword(th)
  <2>1. /\ pc' = [pc EXCEPT ![th] = "close_others"]
        /\ copy' = [copy EXCEPT ![th] = [me EXCEPT !.secret = secret[me.owner] + 1]]
    BY <1>2 DEF ChangePassword, Goto
  <2>2. \A x \in Threads :
          pc'[x] \in Working =>
            /\ pc[x] \in Working
            /\ \/ copy'[x] = copy[x]
               \/ /\ copy[x].owner = me.owner
                  /\ copy[x].token \in {me.token}
                  /\ copy'[x] = [copy[x] EXCEPT !.secret = secret[me.owner] + 1]
    BY <1>0, <2>1 DEF TypeInv, TypeOK
  <2>3. \A x \in Threads : pc'[x] \in Logging => pc[x] \in Logging /\ copy'[x] = copy[x]
    BY <2>1 DEF TypeInv, TypeOK, Logging
  <2> QED
    BY <1>1, <1>2, <2>2, <2>3, ChangeSound DEF ChangePassword
<1>3. CASE ChangePasswordUnanswered(th)
  BY <1>1, <1>3, FinishLocal, ChangeSound DEF ChangePasswordUnanswered
<1>4. ASSUME NEW u \in Users, ModifyUser(th, u)
      PROVE  SoundInv'
  <2>1. PICK knowing \in SUBSET Tokens : ChangeSecret(u, knowing)
    BY <1>1, <1>4 DEF ModifyUser
  <2>2. CASE Finish(th, "error")
    BY <1>4, <2>1, <2>2, FinishLocal, ChangeSound DEF ModifyUser
  <2>3. CASE pc' = [pc EXCEPT ![th] = "user_lookup"] /\ UNCHANGED copy
    <3>1. "user_lookup" \in Working /\ "user_lookup" \notin Logging
      BY DEF Working, Logging, PCs
    <3> QED
      BY <1>0, <1>4, <2>1, <2>3, <3>1, MoveLocal, ChangeSound DEF ModifyUser
  <2> QED
    BY <1>4, <2>2, <2>3 DEF ModifyUser
<1> QED
  BY <1>2, <1>3, <1>4

LEMMA TickSound ==
  ASSUME TypeInv, SoundInv, Tick
  PROVE  SoundInv'
<1>1. \A t \in Tokens : renewed'[t] <= now'
  BY DEF Tick, SoundInv, TypeInv, TypeOK, history
<1> QED
  BY <1>1 DEF Tick, SoundInv, Sound, local, history

LEMMA SoundStep ==
  TypeInv /\ SoundInv /\ [Next]_vars => SoundInv'
<1> SUFFICES ASSUME TypeInv, SoundInv, [Next]_vars PROVE SoundInv'
  OBVIOUS
<1>1. CASE Tick
  BY <1>1, TickSound
<1>2. ASSUME NEW th \in Threads, LoginStep(th)
      PROVE  SoundInv'
  BY <1>2, LoginSound, UserAddSound, LoginShuffles, ShuffleSound DEF LoginStep
<1>3. ASSUME NEW th \in Threads, FindStep(th)
      PROVE  SoundInv'
  BY <1>3, FindShuffles, ShuffleSound
<1>4. ASSUME NEW th \in Threads, RequestStep(th)
      PROVE  SoundInv'
  BY <1>4, RequestShuffles, ShuffleSound, RenewingSteps DEF RequestStep
<1>5. ASSUME NEW th \in Threads, SettingsStep(th) \/ UserStep(th)
      PROVE  SoundInv'
  BY <1>5, CommandShuffles, ShuffleSound, ChangingSteps DEF SettingsStep, UserStep
<1>6. CASE UNCHANGED vars
  BY <1>6 DEF SoundInv, Sound, vars, local
<1> QED
  BY <1>1, <1>2, <1>3, <1>4, <1>5, <1>6 DEF Next

LEMMA SoundInvariant == Spec => []SoundInv
<1>1. Init => SoundInv
  BY DEF Init, SoundInv, Working, Logging, TypeInv, TypeOK
<1> QED
  BY <1>1, TypeInvariant, SoundStep, PTL DEF Spec

-----------------------------------------------------------------------------
(* Who gets through user_find, and who through manager_connect.            *)

LEMMA Gates ==
  ASSUME TypeInv, Next, NEW x \in Threads
  PROVE  /\ pc[x] = "idle" /\ pc'[x] = "find_ok"
              => \E m \in Methods, id \in Tokens : UserFindOk(x, m, id)
         /\ pc[x] = "connect" /\ pc'[x] \in {"run", "renew"} => ManagerConnect(x)
<1> USE DEF TypeInv, TypeOK, Goto, Finish
<1>1. CASE Tick
  BY <1>1 DEF Tick, local
<1>2. ASSUME NEW th \in Threads, LoginStep(th)
      PROVE  /\ ~ (pc[x] = "idle" /\ pc'[x] = "find_ok")
             /\ ~ (pc[x] = "connect" /\ pc'[x] \in {"run", "renew"})
  BY <1>2 DEF LoginStep, LoginAuthenticated, LoginRefused, UserAddLookup,
              UserAddRemoveExpired, UserAdd
<1>3. ASSUME NEW th \in Threads, FindStep(th)
      PROVE  /\ pc[x] = "idle" /\ pc'[x] = "find_ok"
                  => \E m \in Methods, id \in Tokens : UserFindOk(x, m, id)
             /\ ~ (pc[x] = "connect" /\ pc'[x] \in {"run", "renew"})
  <2>1. ASSUME NEW m \in Methods, NEW id \in Tokens, UserFindOk(th, m, id), x # th
        PROVE  pc'[x] = pc[x]
    BY <2>1 DEF UserFindOk
  <2>2. CASE \E m \in Methods, id \in Tokens : UserFindOk(th, m, id)
    <3>1. pc'[th] = "find_ok"
      BY <2>2 DEF UserFindOk
    <3> QED
      BY <2>1, <2>2, <3>1
  <2>3. CASE \/ UserFindRemove(th) \/ UserFindAdd(th)
             \/ \E m \in Methods, id \in Tokens :
                  \/ UserFindUnknown(th, m, id) \/ UserFindExpired(th, m, id)
                  \/ UserFindMismatch(th, m, id)
    BY <2>3 DEF UserFindRemove, UserFindAdd, UserFindUnknown, UserFindExpired,
                UserFindMismatch
  <2> QED
    BY <1>3, <2>2, <2>3 DEF FindStep
<1>4. ASSUME NEW th \in Threads, RequestStep(th)
      PROVE  /\ ~ (pc[x] = "idle" /\ pc'[x] = "find_ok")
             /\ pc[x] = "connect" /\ pc'[x] \in {"run", "renew"} => ManagerConnect(x)
  <2>1. CASE ManagerConnect(th)
    BY <2>1 DEF ManagerConnect
  <2>2. CASE \/ LogoutLookup(th) \/ LogoutRemove(th) \/ ManagerRefused(th)
             \/ RunGet(th) \/ PostRenew(th) \/ RunPost(th) \/ RenewSession(th)
    BY <2>2 DEF LogoutLookup, LogoutRemove, ManagerRefused, RunGet, PostRenew,
                RunPost, RenewSession
  <2> QED
    BY <1>4, <2>1, <2>2 DEF RequestStep
<1>5. ASSUME NEW th \in Threads, SettingsStep(th) \/ UserStep(th)
      PROVE  /\ ~ (pc[x] = "idle" /\ pc'[x] = "find_ok")
             /\ ~ (pc[x] = "connect" /\ pc'[x] \in {"run", "renew"})
  <2>1. CASE SettingsStep(th)
    BY <2>1 DEF SettingsStep, KeepPassword, ChangePassword, ChangePasswordUnanswered,
                CloseOthers, OtherSettings, WriteBack
  <2>2. CASE UserStep(th)
    BY <2>2 DEF UserStep, SaveUserOnly, ModifyUser, UserLookup, UserClose, ModifyReply
  <2> QED
    BY <1>5, <2>1, <2>2
<1> QED
  BY <1>1, <1>2, <1>3, <1>4, <1>5 DEF Next

(* A request passes user_find only within the timeout of the last renewal. *)
THEOREM RequestsAreFresh == Spec => AcceptedWhileFresh
<1> DEFINE Fresh == \A th \in Threads :
      pc[th] = "idle" /\ pc'[th] = "find_ok" => now <= renewed[copy'[th].token] + Timeout
<1>1. TypeInv /\ SoundInv /\ [Next]_vars => [Fresh]_vars
  <2> SUFFICES ASSUME TypeInv, SoundInv, Next,
                      NEW th \in Threads, pc[th] = "idle", pc'[th] = "find_ok"
               PROVE  now <= renewed[copy'[th].token] + Timeout
    OBVIOUS
  <2>1. PICK m \in Methods, id \in Tokens : UserFindOk(th, m, id)
    BY Gates
  <2>2. PICK s \in sessions : ~Expired(s) /\ copy' = [copy EXCEPT ![th] = s]
    BY <2>1 DEF UserFindOk, GetById
  <2>3. copy'[th] = s
    BY <2>2 DEF TypeInv, TypeOK
  <2>4. s.time <= renewed[s.token] /\ s.time \in Nat /\ renewed[s.token] \in Nat
    BY DEF SoundInv, Sound, TypeInv, TypeOK, Session
  <2> QED
    BY <2>2, <2>3, <2>4, TimeoutAssumption DEF Expired, TypeInv, TypeOK
<1> QED
  BY <1>1, TypeInvariant, SoundInvariant, PTL DEF Spec, AcceptedWhileFresh

(* After a password change only sessions that know the new password reach  *)
(* the manager.                                                            *)
THEOREM OnlyEntitledReachManager == Spec => OnlyEntitledConnect
<1> DEFINE Entitled == \A th \in Threads :
      pc[th] = "connect" /\ pc'[th] \in {"run", "renew"}
        => copy[th].token \in entitled[copy[th].owner]
<1>1. TypeInv /\ SoundInv /\ [Next]_vars => [Entitled]_vars
  <2> SUFFICES ASSUME TypeInv, SoundInv, Next,
                      NEW th \in Threads, pc[th] = "connect", pc'[th] \in {"run", "renew"}
               PROVE  copy[th].token \in entitled[copy[th].owner]
    OBVIOUS
  <2>1. Accepted(th)
    BY Gates DEF ManagerConnect
  <2>2. pc[th] \in Working
    BY DEF Working, PCs
  <2> QED
    BY <2>1, <2>2 DEF Accepted, SoundInv, Sound
<1> QED
  BY <1>1, TypeInvariant, SoundInvariant, PTL DEF Spec, OnlyEntitledConnect

-----------------------------------------------------------------------------
(***************************************************************************)
(* Where tokens go.  Every token stored or worked on after a step was      *)
(* stored, worked on or not yet issued before it.                          *)
(***************************************************************************)
Alive == TokensOf(sessions) \cup Held

TokenFlow ==
  /\ issued \subseteq issued'
  /\ Alive' \subseteq Alive \cup (issued' \ issued)

LEMMA ShuffleFlow ==
  ASSUME Shuffle
  PROVE  TokenFlow
<1>1. \A s \in sessions' : s.token \in Alive
  BY DEF Shuffle, Alive, Held, TokensOf
<1>2. ASSUME NEW x \in Threads, pc'[x] \in Working
      PROVE  copy'[x].token \in Alive
  BY <1>2 DEF Shuffle, Alive, Held, TokensOf
<1>3. Alive' \subseteq Alive
  BY <1>1, <1>2 DEF Alive, Held, TokensOf
<1> QED
  BY <1>3 DEF TokenFlow, Shuffle

(* A step that stores at most one record, of a token that is worked on or  *)
(* fresh, and after which handlers work on no other tokens than before.    *)
LEMMA StoreFlow ==
  ASSUME issued \subseteq issued',
         \A s \in sessions' :
           s \in sessions \/ s.token \in Held \/ s.token \in issued' \ issued,
         \A x \in Threads :
           pc'[x] \in Working => pc[x] \in Working /\ copy'[x].token = copy[x].token
  PROVE  TokenFlow
<1>1. \A s \in sessions' : s.token \in Alive \cup (issued' \ issued)
  BY DEF Alive, TokensOf
<1>2. ASSUME NEW x \in Threads, pc'[x] \in Working
      PROVE  copy'[x].token \in Alive
  BY <1>2 DEF Alive, Held
<1>3. Alive' \subseteq Alive \cup (issued' \ issued)
  BY <1>1, <1>2 DEF Alive, Held, TokensOf
<1> QED
  BY <1>3 DEF TokenFlow

LEMMA RenewingFlow ==
  ASSUME TypeInv, NEW th \in Threads, PostRenew(th) \/ RenewSession(th)
  PROVE  TokenFlow
<1>1. /\ pc[th] \in Working
      /\ sessions' = AddUser(sessions, Renewed(th)) /\ UNCHANGED issued
  BY DEF PostRenew, RenewSession, Goto, Working, PCs
<1>2. copy[th].token \in Held /\ Renewed(th).token = copy[th].token
  BY <1>1 DEF Held, Renewed, TypeInv, LocalTypes, Session
<1>3. \A s \in sessions' : s \in sessions \/ s.token \in Held
  BY <1>1, <1>2 DEF AddUser, RemoveUser
<1>4. ASSUME NEW x \in Threads, pc'[x] \in Working
      PROVE  pc[x] \in Working /\ copy'[x].token = copy[x].token
  <2>1. CASE PostRenew(th)
    BY <1>1, <1>4, <2>1 DEF PostRenew, Goto, TypeInv, TypeOK
  <2>2. CASE RenewSession(th)
    BY <1>4, <2>2, FinishLocal DEF RenewSession
  <2> QED
    BY <2>1, <2>2
<1> QED
  BY <1>1, <1>3, <1>4, StoreFlow

LEMMA ChangingFlow ==
  ASSUME TypeInv, NEW th \in Threads,
         \/ ChangePassword(th) \/ ChangePasswordUnanswered(th)
         \/ \E u \in Users : ModifyUser(th, u)
  PROVE  TokenFlow
<1>1. UNCHANGED <<sessions, issued>> /\ pc[th] \in Working
  BY DEF ChangePassword, ChangePasswordUnanswered, ModifyUser, Goto, Working, PCs
<1>2. ASSUME NEW x \in Threads, pc'[x] \in Working
      PROVE  pc[x] \in Working /\ copy'[x].token = copy[x].token
  <2>1. CASE ChangePassword(th)
    <3>1. copy' = [copy EXCEPT ![th] = [copy[th] EXCEPT !.secret = secret[copy[th].owner] + 1]]
      BY <2>1 DEF ChangePassword
    <3>2. copy[th] \in Session
      BY <1>1 DEF TypeInv, LocalTypes
    <3>3. \A y \in Threads \ {th} : pc'[y] = pc[y] /\ copy'[y] = copy[y]
      BY <2>1, <3>1 DEF ChangePassword, Goto, TypeInv, TypeOK
    <3>4. copy'[th].token = copy[th].token
      BY <3>1, <3>2 DEF TypeInv, TypeOK, Session
    <3> QED
      BY <1>1, <1>2, <3>3, <3>4
  <2>2. CASE ChangePasswordUnanswered(th)
    BY <1>2, <2>2, FinishLocal DEF ChangePasswordUnanswered
  <2>3. ASSUME NEW u \in Users, ModifyUser(th, u)
        PROVE  pc[x] \in Working /\ copy'[x].token = copy[x].token
    <3>1. CASE Finish(th, "error")
      BY <1>2, <3>1, FinishLocal
    <3>2. CASE pc' = [pc EXCEPT ![th] = "user_lookup"] /\ UNCHANGED copy
      BY <1>1, <1>2, <3>2 DEF TypeInv, TypeOK
    <3> QED
      BY <2>3, <3>1, <3>2 DEF ModifyUser
  <2> QED
    BY <2>1, <2>2, <2>3
<1> QED
  BY <1>1, <1>2, StoreFlow

LEMMA LoginFlow ==
  ASSUME TypeInv, NEW th \in Threads,
         \/ \E u \in Users : LoginAuthenticated(th, u)
         \/ \E t \in Tokens : UserAdd(th, t)
  PROVE  TokenFlow
<1>1. ASSUME NEW u \in Users, LoginAuthenticated(th, u)
      PROVE  TokenFlow
  <2>1. \A x \in Threads : pc'[x] \in Working => pc[x] \in Working /\ copy'[x] = copy[x]
    BY <1>1 DEF LoginAuthenticated, Goto, TypeInv, TypeOK, Working
  <2> QED
    BY <1>1, <2>1, StoreFlow DEF LoginAuthenticated
<1>2. ASSUME NEW t \in Tokens, UserAdd(th, t)
      PROVE  TokenFlow
  <2>1. issued' = issued \cup {t} /\ t \notin issued
    BY <1>2 DEF UserAdd, NewSession
  <2>2. \A s \in sessions' : s \in sessions \/ s.token = t
    BY <1>2 DEF UserAdd, NewSession, AddUser, RemoveUser, UserNewWithData
  <2>3. \A x \in Threads : pc'[x] \in Working => pc[x] \in Working /\ copy'[x] = copy[x]
    BY <1>2, FinishLocal DEF UserAdd
  <2> QED
    BY <2>1, <2>2, <2>3, StoreFlow
<1> QED
  BY <1>1, <1>2

LEMMA FlowStep ==
  TypeInv /\ [Next]_vars => TokenFlow
<1> SUFFICES ASSUME TypeInv, [Next]_vars PROVE TokenFlow
  OBVIOUS
<1>1. CASE Tick \/ UNCHANGED vars
  BY <1>1 DEF TokenFlow, Alive, Held, TokensOf, Tick, vars, local
<1>2. ASSUME NEW th \in Threads, LoginStep(th)
      PROVE  TokenFlow
  BY <1>2, LoginFlow, LoginShuffles, ShuffleFlow DEF LoginStep
<1>3. ASSUME NEW th \in Threads, FindStep(th)
      PROVE  TokenFlow
  BY <1>3, FindShuffles, ShuffleFlow
<1>4. ASSUME NEW th \in Threads, RequestStep(th)
      PROVE  TokenFlow
  BY <1>4, RequestShuffles, ShuffleFlow, RenewingFlow DEF RequestStep
<1>5. ASSUME NEW th \in Threads, SettingsStep(th) \/ UserStep(th)
      PROVE  TokenFlow
  BY <1>5, CommandShuffles, ShuffleFlow, ChangingFlow DEF SettingsStep, UserStep
<1> QED
  BY <1>1, <1>2, <1>3, <1>4, <1>5 DEF Next

(* A session closed while no request works on it never comes back.         *)
THEOREM ClosedSessionsStayClosed == Spec => ClosedForGood
<1>1. TokenFlow => Dead \subseteq Dead'
  BY DEF TokenFlow, Alive, Dead
<1>2. TypeInv /\ [Next]_vars => [Dead \subseteq Dead']_vars
  BY <1>1, FlowStep
<1> QED
  BY <1>2, TypeInvariant, PTL DEF Spec, ClosedForGood

-----------------------------------------------------------------------------
(* How the database changes: records are taken out, or one is added.       *)

LEMMA StoreSteps ==
  ASSUME [Next]_vars
  PROVE  sessions' \subseteq sessions \/ \E s : sessions' = AddUser(sessions, s)
<1>1. CASE Tick \/ UNCHANGED vars
  BY <1>1 DEF Tick, vars
<1>2. ASSUME NEW th \in Threads, LoginStep(th)
      PROVE  sessions' \subseteq sessions \/ \E s : sessions' = AddUser(sessions, s)
  BY <1>2 DEF LoginStep, LoginAuthenticated, LoginRefused, UserAddLookup,
              UserAddRemoveExpired, UserAdd, NewSession, RemoveUser
<1>3. ASSUME NEW th \in Threads, FindStep(th)
      PROVE  sessions' \subseteq sessions \/ \E s : sessions' = AddUser(sessions, s)
  BY <1>3 DEF FindStep, UserFindUnknown, UserFindExpired, UserFindMismatch,
              UserFindOk, UserFindRemove, UserFindAdd, RemoveUser
<1>4. ASSUME NEW th \in Threads, RequestStep(th)
      PROVE  sessions' \subseteq sessions \/ \E s : sessions' = AddUser(sessions, s)
  BY <1>4 DEF RequestStep, LogoutLookup, LogoutRemove, ManagerConnect, ManagerRefused,
              RunGet, PostRenew, RunPost, RenewSession, RemoveUser
<1>5. ASSUME NEW th \in Threads, SettingsStep(th) \/ UserStep(th)
      PROVE  sessions' \subseteq sessions \/ \E s : sessions' = AddUser(sessions, s)
  BY <1>5 DEF SettingsStep, UserStep, KeepPassword, ChangePassword,
              ChangePasswordUnanswered, CloseOthers, OtherSettings, WriteBack,
              SaveUserOnly, ModifyUser, UserLookup, UserClose, RemoveOtherSessions
<1> QED
  BY <1>1, <1>2, <1>3, <1>4, <1>5 DEF Next

(* No token ever names two sessions.                                       *)
THEOREM TokensAreUnique == Spec => []UniqueTokens
<1>1. Init => UniqueTokens
  BY DEF Init, UniqueTokens
<1>2. UniqueTokens /\ [Next]_vars => UniqueTokens'
  BY StoreSteps DEF UniqueTokens, AddUser, RemoveUser
<1> QED
  BY <1>1, <1>2, PTL DEF Spec

=============================================================================
