------------------------- MODULE BrowserSessionProofs -------------------------
(***************************************************************************)
(* The tabs of a browser keep their types, and none waits without a query  *)
(* for the status of its session, for any tabs, logins and bounds.         *)
(*                                                                         *)
(* The invariant adds to the types only that a login has a number, so that *)
(* gsad never opens a session without one. AskingQueried is inductive with *)
(* it: what takes a query away also changes the page.                      *)
(***************************************************************************)
EXTENDS BrowserSession, TLAPS

TabStates == [page : Pages, isLoggedIn : BOOLEAN]

LoginsNumbered == \A r \in requests : r.kind = "login" => r.id \in Logins

IInv == TypeOK /\ LoginsNumbered /\ AskingQueried

Query(rs, i) == \E r \in rs : r.tab = i /\ r.kind = "isAuthenticated"

-----------------------------------------------------------------------------
(* The bounds, and what the handlers are made of.                          *)

LEMMA UseType ==
  ASSUME TypeOK, NEW what \in {"logins", "loads", "disturbances"}, Use(what)
  PROVE  /\ used' \in [logins : 0 .. MaxLogins, loads : Nat, disturbances : Nat]
         /\ used'.logins <= MaxLogins
         /\ what = "logins" => used'.logins = used.logins + 1
<1>1. used \in [logins : 0 .. MaxLogins, loads : Nat, disturbances : Nat]
      /\ MaxLogins \in Nat
  BY BoundsAssumption DEF TypeOK
<1>2. used' \in [logins : Nat, loads : Nat, disturbances : Nat]
      /\ (what = "logins" => used'.logins = used.logins + 1)
  BY <1>1 DEF Use
<1>3. PICK b \in Bounds : \A x \in DOMAIN b : used'[x] <= b[x]
  BY DEF Use
<1>4. b \in [logins : Logins, loads : Nat, disturbances : Nat]
  BY BoundsAssumption
<1>5. used'.logins <= b.logins /\ b.logins \in 1 .. MaxLogins
  BY <1>3, <1>4 DEF Logins
<1>6. used'.logins <= MaxLogins /\ used'.logins \in 0 .. MaxLogins
  BY <1>1, <1>2, <1>5
<1> QED
  BY <1>2, <1>6

LEMMA SentType ==
  ASSUME TypeOK, NEW i \in Tabs, NEW kind \in Kinds, NEW id \in Ids
  PROVE  /\ Sent(i, kind, id) \in Requests
         /\ Sent(i, kind, id).tab = i /\ Sent(i, kind, id).kind = kind
         /\ Sent(i, kind, id).id = id
  BY DEF TypeOK, Sent, Requests, Ids

LEMMA MountedType ==
  ASSUME TypeOK, NEW rs \in SUBSET Requests, NEW i \in Tabs
  PROVE  /\ Mounted(rs, i) \in SUBSET Requests /\ Query(Mounted(rs, i), i)
         /\ \A r \in rs : r.tab # i => r \in Mounted(rs, i)
         /\ \A r \in Mounted(rs, i) : r \in rs \/ r.kind = "isAuthenticated"
<1>1. Sent(i, "isAuthenticated", None) \in Requests
      /\ Sent(i, "isAuthenticated", None).tab = i
      /\ Sent(i, "isAuthenticated", None).kind = "isAuthenticated"
  BY SentType DEF Kinds, Ids
<1> QED
  BY <1>1 DEF Mounted, Send, NoQuery, Query

LEMMA PageType ==
  ASSUME NEW tab \in TabStates
  PROVE  /\ LoggedOut(tab) \in TabStates /\ toLoginPage(tab) \in TabStates
         /\ LoggedOut(tab).page # "asking" /\ toLoginPage(tab).page # "asking"
         /\ LoggedIn(tab) \in TabStates
         /\ LoggedIn(tab).page = "asking" => tab.page # "app"
         /\ \A answer \in {"yes", "no", "error"} :
              Asked(tab, answer) \in TabStates /\ Asked(tab, answer).page # "asking"
<1>1. \A t \in TabStates : toLoginPage(t) \in TabStates /\ toLoginPage(t).page # "asking"
  BY DEF TabStates, Pages, toLoginPage
<1>2. [tab EXCEPT !.isLoggedIn = FALSE] \in TabStates
      /\ [tab EXCEPT !.page = "app", !.isLoggedIn = TRUE] \in TabStates
      /\ [tab EXCEPT !.page = "app", !.isLoggedIn = TRUE].page = "app"
  BY DEF TabStates, Pages
<1>3. Asked(tab, "yes") = [tab EXCEPT !.page = "app", !.isLoggedIn = TRUE]
      /\ Asked(tab, "no") = toLoginPage([tab EXCEPT !.isLoggedIn = FALSE])
      /\ Asked(tab, "error") = toLoginPage(tab)
  BY DEF Asked
<1>4. LoggedIn(tab) \in TabStates /\ (LoggedIn(tab).page = "asking" => tab.page # "app")
  BY DEF TabStates, Pages, LoggedIn
<1> QED
  BY <1>1, <1>2, <1>3, <1>4 DEF LoggedOut

-----------------------------------------------------------------------------
(* Steps, by what they do to the tabs and the requests.                    *)

(* What the requests of a step must be for the invariant to hold after it: *)
(* a tab that asks afterwards asked before and kept a query, or has a new  *)
(* one.                                                                    *)
LEMMA StepKeeps ==
  ASSUME IInv, TypeOK',
         \A r \in requests' : r.kind = "login" => r.id \in Logins,
         \A j \in Tabs : tabs'[j].page = "asking" =>
           \/ Query(requests', j)
           \/ tabs[j].page = "asking" /\ (Query(requests, j) => Query(requests', j))
  PROVE  IInv'
  BY DEF IInv, LoginsNumbered, AskingQueried, Query

(* A new request that is no login, in place of some that are no query.     *)
LEMMA SendKeeps ==
  ASSUME IInv, NEW rs \in SUBSET requests, NEW i \in Tabs, NEW kind \in Kinds,
         NEW id \in Ids, kind = "login" => id \in Logins,
         \A r \in requests \ rs : r.kind # "isAuthenticated"
  PROVE  /\ Send(rs, i, kind, id) \subseteq Requests
         /\ \A r \in Send(rs, i, kind, id) : r.kind = "login" => r.id \in Logins
         /\ \A j \in Tabs : Query(requests, j) => Query(Send(rs, i, kind, id), j)
  BY SentType DEF IInv, TypeOK, LoginsNumbered, Send, Query

LEMMA LoadPageKeeps ==
  ASSUME IInv, NEW i \in Tabs, NEW page \in {"asking", "login"}, LoadPage(i, page)
  PROVE  IInv'
<1> DEFINE others == {r \in requests : r.tab # i}
<1>1. /\ tabs' = [tabs EXCEPT ![i] = [NewTab EXCEPT !.page = page]]
      /\ requests' = (IF page = "asking" THEN Mounted(others, i) ELSE others)
      /\ UNCHANGED <<token, cookie, live, hyperion>>
      /\ TypeOK /\ tabs \in [Tabs -> TabStates] /\ others \in SUBSET Requests
  BY DEF LoadPage, IInv, TypeOK, TabStates
<1>2. [NewTab EXCEPT !.page = page] \in TabStates
      /\ [NewTab EXCEPT !.page = page].page = page
  BY DEF NewTab, TabStates, Pages
<1>3. /\ requests' \subseteq Requests /\ (page = "asking" => Query(requests', i))
      /\ \A r \in others : r \in requests'
      /\ \A r \in requests' : r \in requests \/ r.kind = "isAuthenticated"
  BY <1>1, MountedType
<1>4. TypeOK'
  BY <1>1, <1>2, <1>3, UseType DEF LoadPage, TypeOK, TabStates
<1>5. \A r \in requests' : r.kind = "login" => r.id \in Logins
  BY <1>3 DEF IInv, LoginsNumbered
<1>6. \A j \in Tabs : tabs'[j].page = "asking" =>
        \/ Query(requests', j)
        \/ tabs[j].page = "asking" /\ (Query(requests, j) => Query(requests', j))
  <2> TAKE j \in Tabs
  <2>1. CASE j = i
    BY <1>1, <1>2, <1>3, <2>1
  <2>2. CASE j # i
    BY <1>1, <1>3, <2>2 DEF Query
  <2> QED
    BY <2>1, <2>2
<1> QED
  BY <1>4, <1>5, <1>6, StepKeeps

LEMMA LoginKeeps ==
  ASSUME IInv, NEW i \in Tabs, login(i)
  PROVE  IInv'
<1>1. /\ requests' = Send(requests, i, "login", used.logins + 1)
      /\ UNCHANGED <<token, cookie, live, hyperion, tabs>> /\ TypeOK
      /\ used.logins \in Nat /\ MaxLogins \in Nat
  BY BoundsAssumption DEF login, IInv, TypeOK
<1>2. /\ used' \in [logins : 0 .. MaxLogins, loads : Nat, disturbances : Nat]
      /\ used.logins + 1 <= MaxLogins
  BY <1>1, UseType DEF login
<1>3. used.logins + 1 \in Logins
  BY <1>1, <1>2 DEF Logins
<1>4. /\ requests' \subseteq Requests
      /\ \A r \in requests' : r.kind = "login" => r.id \in Logins
      /\ \A j \in Tabs : Query(requests, j) => Query(requests', j)
  BY <1>1, <1>3, SendKeeps DEF Kinds, Ids
<1>5. TypeOK'
  BY <1>1, <1>2, <1>4 DEF TypeOK
<1> QED
  BY <1>1, <1>4, <1>5, StepKeeps

LEMMA LogoutKeeps ==
  ASSUME IInv, NEW i \in Tabs, handleLogout(i)
  PROVE  IInv'
<1>1. /\ requests' = Send(requests, i, "logout", token)
           \/ requests' = Send(requests, i, "logout2", None)
      /\ UNCHANGED <<token, cookie, live, hyperion, tabs, used>> /\ TypeOK /\ token \in Ids
  BY DEF handleLogout, IInv, TypeOK
<1>2. /\ requests' \subseteq Requests
      /\ \A r \in requests' : r.kind = "login" => r.id \in Logins
      /\ \A j \in Tabs : Query(requests, j) => Query(requests', j)
  BY <1>1, SendKeeps DEF Kinds, Ids
<1>3. TypeOK'
  BY <1>1, <1>2 DEF TypeOK
<1> QED
  BY <1>1, <1>2, <1>3, StepKeeps

LEMMA EffectKeeps ==
  ASSUME IInv, NEW i \in Tabs, LoginPageEffect(i)
  PROVE  IInv'
<1>1. /\ UNCHANGED <<token, cookie, live, hyperion, used>>
      /\ TypeOK /\ tabs \in [Tabs -> TabStates] /\ requests \in SUBSET Requests
  BY DEF LoginPageEffect, IInv, TypeOK, TabStates
<1>2. CASE tabs' = [tabs EXCEPT ![i].page = "asking"] /\ requests' = Mounted(requests, i)
  <2>1. /\ requests' \subseteq Requests /\ Query(requests', i)
        /\ \A r \in requests : r.tab # i => r \in requests'
        /\ \A r \in requests' : r \in requests \/ r.kind = "isAuthenticated"
    BY <1>1, <1>2, MountedType
  <2>2. /\ tabs' \in [Tabs -> TabStates]
        /\ \A j \in Tabs : j # i => tabs'[j] = tabs[j]
    BY <1>1, <1>2 DEF TabStates, Pages
  <2>3. TypeOK'
    BY <1>1, <2>1, <2>2 DEF TypeOK, TabStates
  <2> QED
    BY <2>1, <2>2, <2>3, StepKeeps DEF IInv, LoginsNumbered, Query
<1>3. CASE tabs' = [tabs EXCEPT ![i].page = "login"] /\ requests' = NoQuery(requests, i)
  <2>1. /\ requests' \subseteq requests
        /\ \A r \in requests : r.tab # i => r \in requests'
    BY <1>3 DEF NoQuery
  <2>2. /\ tabs' \in [Tabs -> TabStates] /\ tabs'[i].page = "login"
        /\ \A j \in Tabs : j # i => tabs'[j] = tabs[j]
    BY <1>1, <1>3 DEF TabStates, Pages
  <2>3. TypeOK'
    BY <1>1, <2>1, <2>2 DEF TypeOK, TabStates
  <2> QED
    BY <2>1, <2>2, <2>3, StepKeeps DEF IInv, LoginsNumbered, Query
<1> QED
  BY <1>2, <1>3 DEF LoginPageEffect

LEMMA LoadKeeps ==
  ASSUME IInv, NEW i \in Tabs, Load(i)
  PROVE  IInv'
<1>1. /\ requests' = Send(requests, i, "gmp", token) /\ TypeOK /\ token \in Ids
      /\ UNCHANGED <<token, cookie, live, hyperion, tabs, used>>
  BY DEF Load, IInv, TypeOK
<1>2. /\ requests' \subseteq Requests
      /\ \A r \in requests' : r.kind = "login" => r.id \in Logins
      /\ \A j \in Tabs : Query(requests, j) => Query(requests', j)
  BY <1>1, SendKeeps DEF Kinds
<1>3. TypeOK'
  BY <1>1, <1>2 DEF TypeOK
<1> QED
  BY <1>1, <1>2, <1>3, StepKeeps

-----------------------------------------------------------------------------
(* The servers answer.                                                     *)

LEMMA ServedKeeps ==
  ASSUME IInv, NEW r \in requests, NEW answer \in {"yes", "no", "error", "401"},
         Served(r, answer)
  PROVE  /\ requests' \subseteq Requests
         /\ \A q \in requests' : q.kind = "login" => q.id \in Logins
         /\ \A j \in Tabs : Query(requests, j) => Query(requests', j)
<1> DEFINE new == [r EXCEPT !.answer = answer]
<1>1. requests' = (requests \ {r}) \cup {new} /\ requests \subseteq Requests
  BY DEF Served, Done, IInv, TypeOK
<1>2. /\ new \in Requests /\ new.kind = r.kind /\ new.tab = r.tab /\ new.id = r.id
  BY <1>1 DEF Requests
<1> HIDE DEF new
<1> QED
  BY <1>1, <1>2 DEF IInv, LoginsNumbered, Query

LEMMA ServeKeeps ==
  ASSUME IInv, NEW r \in requests, Serve(r)
  PROVE  IInv'
<1>1. /\ TypeOK /\ UNCHANGED <<token, cookie, tabs, used>>
      /\ r.kind = "login" => r.id \in Logins
  BY DEF Serve, IInv, LoginsNumbered
<1>2. /\ \E answer \in {"yes", "no", "error"} : Served(r, answer)
      /\ live' \subseteq live \cup (IF r.kind = "login" THEN {r.id} ELSE {})
      /\ hyperion' \in BOOLEAN
  <2>1. CASE ServeGmp(r) \/ ServeIsAuthenticated(r)
    BY <1>1, <2>1 DEF ServeGmp, ServeIsAuthenticated, TypeOK
  <2>2. CASE ServeLogout(r)
    BY <1>1, <2>2 DEF ServeLogout, TypeOK
  <2>3. CASE ServeLogin(r)
    BY <1>1, <2>3 DEF ServeLogin, TypeOK
  <2>4. CASE ServeLogin2(r) \/ ServeLogout2(r)
    BY <1>1, <2>4 DEF ServeLogin2, ServeLogout2, TypeOK
  <2> QED
    BY <2>1, <2>2, <2>3, <2>4 DEF Serve
<1>3. /\ requests' \subseteq Requests
      /\ \A q \in requests' : q.kind = "login" => q.id \in Logins
      /\ \A j \in Tabs : Query(requests, j) => Query(requests', j)
  BY <1>2, ServedKeeps
<1>4. live' \subseteq Logins
  BY <1>1, <1>2 DEF TypeOK
<1>5. TypeOK'
  BY <1>1, <1>2, <1>3, <1>4 DEF TypeOK
<1> QED
  BY <1>1, <1>3, <1>5, StepKeeps

LEMMA FailKeeps ==
  ASSUME IInv, NEW r \in requests, Fail(r)
  PROVE  IInv'
<1>1. /\ TypeOK /\ UNCHANGED <<token, cookie, live, hyperion, tabs>>
      /\ used' \in [logins : 0 .. MaxLogins, loads : Nat, disturbances : Nat]
  BY UseType DEF Fail, IInv, TypeOK
<1>2. /\ requests' \subseteq Requests
      /\ \A q \in requests' : q.kind = "login" => q.id \in Logins
      /\ \A j \in Tabs : Query(requests, j) => Query(requests', j)
  BY ServedKeeps DEF Fail, Failures
<1>3. TypeOK'
  BY <1>1, <1>2 DEF TypeOK
<1> QED
  BY <1>1, <1>2, <1>3, StepKeeps

LEMMA SessionEndsKeeps ==
  ASSUME IInv, SessionEnds
  PROVE  IInv'
<1>1. /\ TypeOK /\ UNCHANGED <<token, cookie, tabs, requests>>
      /\ used' \in [logins : 0 .. MaxLogins, loads : Nat, disturbances : Nat]
      /\ live' \subseteq live /\ hyperion' \in BOOLEAN
  BY UseType DEF SessionEnds, IInv, TypeOK
<1>2. TypeOK'
  BY <1>1 DEF TypeOK
<1> QED
  BY <1>1, <1>2, StepKeeps DEF IInv, LoginsNumbered

-----------------------------------------------------------------------------
(* The tab handles an answer.                                              *)

\* What the step of a tab leaves alone.
LEMMA ReceivedKeeps ==
  ASSUME IInv, NEW i \in Tabs,
         token' \in Ids, cookie' \in Ids, UNCHANGED <<live, hyperion, used>>,
         tabs' \in [Tabs -> TabStates], \A j \in Tabs : j # i => tabs'[j] = tabs[j],
         requests' \subseteq Requests,
         \A r \in requests' : r.kind = "login" => r.id \in Logins,
         \A j \in Tabs : j # i => (Query(requests, j) => Query(requests', j)),
         tabs'[i].page = "asking" =>
           \/ Query(requests', i)
           \/ tabs[i].page = "asking" /\ (Query(requests, i) => Query(requests', i))
  PROVE  IInv'
<1>1. TypeOK'
  BY DEF IInv, TypeOK, TabStates
<1> QED
  BY <1>1, StepKeeps

LEMMA LogoutType ==
  ASSUME IInv, NEW r \in requests, Logout(r)
  PROVE  /\ token' \in Ids /\ tabs' \in [Tabs -> TabStates]
         /\ r.tab \in Tabs /\ \A j \in Tabs : j # r.tab => tabs'[j] = tabs[j]
         /\ tabs'[r.tab].page # "asking"
<1>1. tabs \in [Tabs -> TabStates] /\ r.tab \in Tabs
  BY DEF IInv, TypeOK, Requests, TabStates
<1>2. LoggedOut(tabs[r.tab]) \in TabStates /\ LoggedOut(tabs[r.tab]).page # "asking"
  BY <1>1, PageType
<1>3. tabs' = [tabs EXCEPT ![r.tab] = LoggedOut(tabs[r.tab])] /\ token' = None
  BY DEF Logout
<1> QED
  BY <1>1, <1>2, <1>3 DEF Ids

LEMMA CookieType ==
  ASSUME IInv, NEW r \in requests, r.answer # None
  PROVE  CookieOf(r) \in Ids
<1>1. r.id \in Ids /\ cookie \in Ids
  BY DEF IInv, TypeOK, Requests
<1> QED
  BY <1>1 DEF CookieOf, Ids

(* A refusal leaves the tab where it is or takes it to the login page.     *)
LEMMA RefusedType ==
  ASSUME IInv, NEW r \in requests, Refused(r)
  PROVE  /\ token' \in Ids /\ tabs' \in [Tabs -> TabStates]
         /\ \A j \in Tabs : j # r.tab => tabs'[j] = tabs[j]
         /\ tabs'[r.tab].page = "asking" => UNCHANGED tabs
<1>1. CASE Logout(r)
  BY <1>1, LogoutType
<1>2. CASE UNCHANGED <<token, tabs>>
  BY <1>2 DEF IInv, TypeOK, TabStates
<1> QED
  BY <1>1, <1>2 DEF Refused

LEMMA DoneKeeps ==
  ASSUME IInv, NEW r \in requests
  PROVE  /\ Done(r) \in SUBSET Requests /\ Done(r) \in SUBSET requests
         /\ \A q \in Done(r) : q.kind = "login" => q.id \in Logins
         /\ \A j \in Tabs : (j # r.tab \/ r.kind # "isAuthenticated") =>
              (Query(requests, j) => Query(Done(r), j))
  BY DEF IInv, TypeOK, LoginsNumbered, Done, Query

LEMMA ReceiveKeeps ==
  ASSUME IInv, NEW r \in requests, Receive(r)
  PROVE  IInv'
<1> DEFINE i == r.tab
<1>1. /\ r.answer # None /\ UNCHANGED <<live, hyperion, used>>
      /\ r \in Requests /\ i \in Tabs /\ r.id \in Ids
      /\ r.answer \in {"yes", "no", "error", "401"}
      /\ token \in Ids /\ cookie \in Ids /\ None \in Ids /\ TypeOK
      /\ tabs \in [Tabs -> TabStates] /\ tabs[i] \in TabStates
  BY DEF Receive, IInv, TypeOK, Requests, TabStates, Ids
<1>2. CASE GmpAnswered(r)
  <2>1. requests' = Done(r) /\ cookie' \in Ids /\ r.kind = "gmp"
    BY <1>1, <1>2, CookieType DEF GmpAnswered
  <2>2. CASE Logout(r)
    BY <1>1, <2>1, <2>2, LogoutType, DoneKeeps, ReceivedKeeps
  <2>3. CASE UNCHANGED <<token, tabs>>
    BY <1>1, <2>1, <2>3, DoneKeeps, ReceivedKeeps
  <2> QED
    BY <1>2, <2>2, <2>3 DEF GmpAnswered
<1>3. CASE LoginAnswered(r)
  <2>1. /\ cookie' \in Ids /\ r.kind = "login"
        /\ requests' = Send(Done(r), i, "login2", r.id) \/ requests' = Done(r)
    BY <1>1, <1>3, CookieType DEF LoginAnswered
  <2>2. \A q \in requests \ Done(r) : q.kind # "isAuthenticated"
    BY <2>1 DEF Done
  <2>3. /\ requests' \subseteq Requests
        /\ \A q \in requests' : q.kind = "login" => q.id \in Logins
        /\ \A j \in Tabs : Query(requests, j) => Query(requests', j)
    <3>1. CASE requests' = Done(r)
      BY <2>1, <3>1, DoneKeeps
    <3>2. CASE requests' = Send(Done(r), i, "login2", r.id)
      BY <1>1, <2>2, <3>2, DoneKeeps, SendKeeps DEF Kinds
    <3> QED
      BY <2>1, <3>1, <3>2
  <2>4. CASE Logout(r)
    BY <1>1, <2>1, <2>3, <2>4, LogoutType, ReceivedKeeps
  <2>5. CASE UNCHANGED <<token, tabs>>
    BY <1>1, <2>1, <2>3, <2>5, ReceivedKeeps
  <2> QED
    BY <1>3, <2>4, <2>5 DEF LoginAnswered
<1>4. CASE Login2Answered(r)
  <2>1. UNCHANGED cookie /\ r.kind = "login2"
    BY <1>4 DEF Login2Answered
  <2>2. CASE r.answer # "yes"
    <3>1. requests' = Done(r) /\ Refused(r)
      BY <1>4, <2>2 DEF Login2Answered
    <3> QED
      BY <1>1, <2>1, <3>1, RefusedType, DoneKeeps, ReceivedKeeps
  <2>3. CASE r.answer = "yes"
    <3>1. /\ tabs' = [tabs EXCEPT ![i] = LoggedIn(@)] /\ token' = r.id
          /\ requests' = IF tabs[i].page \in {"asking", "app"}
                         THEN Done(r) ELSE Mounted(Done(r), i)
      BY <1>4, <2>3 DEF Login2Answered
    <3>2. LoggedIn(tabs[i]) \in TabStates /\
          (LoggedIn(tabs[i]).page = "asking" => tabs[i].page # "app")
      BY <1>1, PageType
    <3>3. /\ tabs' \in [Tabs -> TabStates]
          /\ tabs'[i].page = "asking" => tabs[i].page # "app"
          /\ \A j \in Tabs : j # i => tabs'[j] = tabs[j]
      BY <1>1, <3>1, <3>2
    <3>4. CASE tabs[i].page \in {"asking", "app"}
      BY <1>1, <2>1, <3>1, <3>3, <3>4, DoneKeeps, ReceivedKeeps
    <3>5. CASE tabs[i].page \notin {"asking", "app"}
      <4>1. /\ requests' \subseteq Requests /\ Query(requests', i)
            /\ \A q \in Done(r) : q.tab # i => q \in requests'
            /\ \A q \in requests' : q \in Done(r) \/ q.kind = "isAuthenticated"
        BY <1>1, <3>1, <3>5, DoneKeeps, MountedType
      <4>2. \A j \in Tabs : j # i => (Query(requests, j) => Query(requests', j))
        BY <4>1, DoneKeeps DEF Query
      <4>3. \A q \in requests' : q.kind = "login" => q.id \in Logins
        BY <4>1, DoneKeeps
      <4> QED
        BY <1>1, <2>1, <3>1, <3>3, <4>1, <4>2, <4>3, ReceivedKeeps
    <3> QED
      BY <3>4, <3>5
  <2> QED
    BY <2>2, <2>3
<1>5. CASE LogoutAnswered(r)
  <2>1. /\ cookie' \in Ids /\ r.kind = "logout" /\ Logout(r)
        /\ requests' = Send(Done(r), i, "logout2", None)
    BY <1>1, <1>5 DEF LogoutAnswered
  <2>2. \A q \in requests \ Done(r) : q.kind # "isAuthenticated"
    BY <2>1 DEF Done
  <2>3. /\ requests' \subseteq Requests
        /\ \A q \in requests' : q.kind = "login" => q.id \in Logins
        /\ \A j \in Tabs : Query(requests, j) => Query(requests', j)
    BY <1>1, <2>1, <2>2, DoneKeeps, SendKeeps DEF Kinds
  <2> QED
    BY <1>1, <2>1, <2>3, LogoutType, ReceivedKeeps
<1>6. CASE Logout2Answered(r)
  <2>1. /\ UNCHANGED cookie /\ r.kind = "logout2" /\ requests' = Done(r)
        /\ \/ tabs' = [tabs EXCEPT ![i] = toLoginPage(@)] /\ UNCHANGED token
           \/ Refused(r)
    BY <1>6 DEF Logout2Answered
  <2>2. toLoginPage(tabs[i]) \in TabStates /\ toLoginPage(tabs[i]).page # "asking"
    BY <1>1, PageType
  <2>3. /\ tabs' \in [Tabs -> TabStates]
        /\ \A j \in Tabs : j # i => tabs'[j] = tabs[j]
        /\ tabs'[i].page = "asking" => tabs[i].page = "asking"
        /\ token' \in Ids
    BY <1>1, <2>1, <2>2, RefusedType
  <2> QED
    BY <1>1, <2>1, <2>3, DoneKeeps, ReceivedKeeps
<1>7. CASE IsAuthenticatedAnswered(r)
  <2>1. UNCHANGED cookie /\ r.kind = "isAuthenticated"
    BY <1>7 DEF IsAuthenticatedAnswered
  <2>2. CASE tabs[i].page # "asking" \/ r.answer = "401"
    <3>1. Refused(r) /\ requests' = Done(r)
      BY <1>7, <2>2 DEF IsAuthenticatedAnswered
    <3>2. tabs'[i].page # "asking"
      <4>1. CASE r.answer = "401"
        BY <3>1, <4>1, LogoutType DEF Refused
      <4>2. CASE r.answer # "401"
        BY <2>2, <3>1, <4>2 DEF Refused
      <4> QED
        BY <4>1, <4>2
    <3>3. \A j \in Tabs : j # i => (Query(requests, j) => Query(requests', j))
      BY <3>1, DoneKeeps
    <3> QED
      BY <1>1, <2>1, <3>1, <3>2, <3>3, RefusedType, DoneKeeps, ReceivedKeeps
  <2>3. CASE tabs[i].page = "asking" /\ r.answer # "401"
    <3>1. /\ tabs' = [tabs EXCEPT ![i] = Asked(@, r.answer)] /\ UNCHANGED token
          /\ requests' = Send(Done(r), i, "gmp", token) \/ requests' = Done(r)
      BY <1>7, <2>3 DEF IsAuthenticatedAnswered
    <3>2. Asked(tabs[i], r.answer) \in TabStates /\ Asked(tabs[i], r.answer).page # "asking"
      BY <1>1, <2>3, PageType
    <3>3. /\ tabs' \in [Tabs -> TabStates] /\ tabs'[i].page # "asking"
          /\ \A j \in Tabs : j # i => tabs'[j] = tabs[j]
      BY <1>1, <3>1, <3>2
    <3>4. Sent(i, "gmp", token) \in Requests /\ Sent(i, "gmp", token).kind = "gmp"
      BY <1>1, SentType DEF Kinds
    <3>5. /\ requests' \subseteq Requests
          /\ \A q \in requests' : q.kind = "login" => q.id \in Logins
          /\ \A j \in Tabs : j # i => (Query(requests, j) => Query(requests', j))
      <4>1. \A q \in Done(r) : q \in requests'
        BY <3>1 DEF Send
      <4>2. \A q \in requests' : q \in Done(r) \/ q = Sent(i, "gmp", token)
        BY <3>1 DEF Send
      <4>3. \A j \in Tabs : j # i => (Query(requests, j) => Query(requests', j))
        BY <4>1, DoneKeeps DEF Query
      <4> QED
        BY <3>4, <4>2, <4>3, DoneKeeps
    <3> QED
      BY <1>1, <2>1, <3>1, <3>3, <3>5, ReceivedKeeps
  <2> QED
    BY <2>2, <2>3
<1> QED
  BY <1>2, <1>3, <1>4, <1>5, <1>6, <1>7 DEF Receive

-----------------------------------------------------------------------------
(* The whole browser.                                                      *)

LEMMA InitHolds ==
  ASSUME Init
  PROVE  IInv
<1>1. used = [logins |-> 0, loads |-> 0, disturbances |-> 0] /\ MaxLogins \in Nat
  BY BoundsAssumption DEF Init
<1>2. used \in [logins : 0 .. MaxLogins, loads : Nat, disturbances : Nat]
  BY <1>1
<1>3. tabs \in [Tabs -> [page : Pages, isLoggedIn : BOOLEAN]]
  BY DEF Init, NewTab, Pages
<1>4. TypeOK
  BY <1>2, <1>3 DEF Init, TypeOK, Ids
<1> QED
  BY <1>4 DEF Init, IInv, LoginsNumbered, AskingQueried, NewTab

LEMMA NextKeeps ==
  ASSUME IInv, [Next]_vars
  PROVE  IInv'
<1>1. CASE \E i \in Tabs : (\E page \in {"asking", "login"} : LoadPage(i, page))
                             \/ login(i) \/ handleLogout(i)
                             \/ LoginPageEffect(i) \/ Load(i)
  BY <1>1, LoadPageKeeps, LoginKeeps, LogoutKeeps, EffectKeeps, LoadKeeps
<1>2. CASE \E r \in requests : Serve(r) \/ Fail(r) \/ Receive(r)
  BY <1>2, ServeKeeps, FailKeeps, ReceiveKeeps
<1>3. CASE SessionEnds
  BY <1>3, SessionEndsKeeps
<1>4. CASE UNCHANGED vars
  BY <1>4 DEF vars, IInv, TypeOK, LoginsNumbered, AskingQueried
<1> QED
  BY <1>1, <1>2, <1>3, <1>4 DEF Next

LEMMA Invariance == Spec => []IInv
<1>1. IInv /\ [Next]_vars => IInv'
  BY NextKeeps
<1> QED
  BY <1>1, InitHolds, PTL DEF Spec

(* The tabs, the storage they share, both servers and the requests between *)
(* them keep their types: gsad opens no session without a login (gmp.js).  *)
THEOREM BrowserTypeCorrect == Spec => []TypeOK
<1>1. IInv => TypeOK
  BY DEF IInv
<1> QED
  BY <1>1, Invariance, PTL

(* A tab that shows nothing because it waits for the status of the session *)
(* has a query under way (Authorized), for any number of tabs and logins.  *)
THEOREM NoTabWaitsForNothing == Spec => []AskingQueried
<1>1. IInv => AskingQueried
  BY DEF IInv
<1> QED
  BY <1>1, Invariance, PTL

=============================================================================
