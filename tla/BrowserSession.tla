--------------------------- MODULE BrowserSession ---------------------------
(* The session of a browser: the tabs that run gsa, what they share, and the  *)
(* two servers they log in to. gsad wants a token, which the tabs share in    *)
(* the local storage, and a cookie that belongs to it; the GraphQL server     *)
(* (Hyperion) wants a cookie only.                                            *)
(*                                                                            *)
(* A step is one task of the event loop of a tab, or one of a server. A tab   *)
(* shows the login page or what Authorized lets it show: nothing while the    *)
(* GraphQL server is asked whether the session is authenticated, and then     *)
(* the application. "entering" is the login page until its effect has run.    *)
EXTENDS Integers

CONSTANTS
  Tabs,
  None,
  MaxLogins,  \* bound: logins that are tried
  Bounds      \* bounds: how many logins, loads of tabs and disturbances (failed
              \* requests, sessions that end at a server) there are together;
              \* the query of Authorized fails without a bound

Logins == 1 .. MaxLogins

ASSUME BoundsAssumption ==
  /\ MaxLogins \in Nat
  /\ Bounds \subseteq [logins : Logins, loads : Nat, disturbances : Nat]
ASSUME NoneAssumption == None \notin Nat

VARIABLES
  token,     \* local storage
  cookie,    \* the cookie of gsad
  live,      \* the sessions of gsad
  hyperion,  \* whether the GraphQL server takes the browser as authenticated
  tabs,
  requests,
  used       \* how much of the bounds has been used

vars == <<token, cookie, live, hyperion, tabs, requests, used>>

Ids == Logins \cup {None}
Pages == {"login", "entering", "asking", "app"}
Kinds == {"gmp", "login", "logout",                \* gsad
          "isAuthenticated", "login2", "logout2"}  \* the GraphQL server

UserKinds == {"login", "login2", "logout", "logout2"}

\* A request of a tab: the token it carries or the login it tries, the cookie
\* that goes with it, and the answer once there is one.
Requests == [tab : Tabs, kind : Kinds, id : Ids, cookie : Ids,
             answer : {None, "yes", "no", "error", "401"}]

TypeOK ==
  /\ token \in Ids /\ cookie \in Ids /\ live \subseteq Logins /\ hyperion \in BOOLEAN
  /\ tabs \in [Tabs -> [page : Pages, isLoggedIn : BOOLEAN]]
  /\ requests \subseteq Requests
  /\ used \in [logins : 0 .. MaxLogins, loads : Nat, disturbances : Nat]

NewTab == [page |-> "login", isLoggedIn |-> FALSE]

Init ==
  /\ token = None /\ cookie = None /\ live = {} /\ hyperion = FALSE
  /\ tabs = [i \in Tabs |-> NewTab]
  /\ requests = {}
  /\ used = [logins |-> 0, loads |-> 0, disturbances |-> 0]

Use(what) ==
  /\ used' = [used EXCEPT ![what] = @ + 1]
  /\ \E b \in Bounds : \A x \in DOMAIN b : used'[x] <= b[x]

Valid(id, c) == id # None /\ id = c /\ id \in live

-----------------------------------------------------------------------------
(* What the handlers of a tab are made of: each maps <<tabs, requests>> to   *)
(* the next such pair.                                                       *)

Sent(i, kind, id) ==
  [tab |-> i, kind |-> kind, id |-> id,
   cookie |-> IF kind \in {"gmp", "logout"} THEN cookie ELSE None, answer |-> None]

Send(rs, i, kind, id) == rs \cup {Sent(i, kind, id)}

\* Authorized is unmounted, and with it goes the query it waits for.
NoQuery(rs, i) == {r \in rs : ~(r.tab = i /\ r.kind = "isAuthenticated")}

\* A query that is answered from a cache is not sent.
MountedCached(rs, i) == NoQuery(rs, i)

\* Authorized is mounted and asks.
Mounted(rs, i) == Send(NoQuery(rs, i), i, "isAuthenticated", None)

\* A path that no route knows.
toLoginPath(tab) == IF tab.page = "login" THEN tab ELSE [tab EXCEPT !.page = "/log"]

\* history.replace ('/login') out of Authorized: the login page is mounted.
toLoginPage(tab) == IF tab.page = "login" THEN tab ELSE [tab EXCEPT !.page = "entering"]

\* gmp.logout() in one tab: the listeners clear the store and go to the login page.
LoggedOut(tab) == toLoginPage([tab EXCEPT !.isLoggedIn = FALSE])

\* '/' is opened after a login, which mounts Authorized if it is not.
LoggedIn(tab) ==
  [tab EXCEPT !.isLoggedIn = TRUE, !.page = IF @ = "app" THEN @ ELSE "asking"]

\* gmp.logout(), after r has been answered.
Logout(r) ==
  /\ token' = None
  /\ tabs' = [tabs EXCEPT ![r.tab] = LoggedOut(@)]

Done(r) == requests \ {r}

\* Bound: of what the user does, and of what the pages load, a tab has one
\* request under way at a time.
Room(i, kinds) == \A r \in requests : r.tab = i => r.kind \notin kinds

-----------------------------------------------------------------------------
(* The user.                                                                 *)

\* A tab is opened or loaded anew: the stores are empty.
LoadPage(i, page) ==
  LET others == {r \in requests : r.tab # i} IN
  /\ Use("loads")
  /\ tabs' = [tabs EXCEPT ![i] = [NewTab EXCEPT !.page = page]]
  /\ requests' = IF page = "asking" THEN Mounted(others, i) ELSE others
  /\ UNCHANGED <<token, cookie, live, hyperion>>

\* The form is submitted.
login(i) ==
  /\ tabs[i].page = "login"
  /\ Room(i, UserKinds)
  /\ Use("logins")
  /\ requests' = Send(requests, i, "login", used.logins + 1)
  /\ UNCHANGED <<token, cookie, live, hyperion, tabs>>

\* doLogout: without a token gsad is not told, and nothing is cleared.
handleLogout(i) ==
  /\ tabs[i].page = "app" /\ Room(i, UserKinds)
  /\ requests' = IF token # None THEN Send(requests, i, "logout", token)
                                 ELSE Send(requests, i, "logout2", None)
  /\ UNCHANGED <<token, cookie, live, hyperion, tabs, used>>

-----------------------------------------------------------------------------
(* The pages.                                                                *)

\* The effect of the login page when it is mounted.
LoginPageEffect(i) ==
  /\ tabs[i].page = "entering"
  /\ IF tabs[i].isLoggedIn
     THEN /\ tabs' = [tabs EXCEPT ![i].page = "asking"]
          /\ requests' = Mounted(requests, i)
     ELSE /\ tabs' = [tabs EXCEPT ![i].page = "login"]
          /\ requests' = NoQuery(requests, i)
  /\ UNCHANGED <<token, cookie, live, hyperion, used>>

\* A page of the application loads, or reloads, what it shows.
Load(i) ==
  /\ tabs[i].page = "app"
  /\ Room(i, {"gmp"})
  /\ requests' = Send(requests, i, "gmp", token)
  /\ UNCHANGED <<token, cookie, live, hyperion, tabs, used>>

-----------------------------------------------------------------------------
(* The servers.                                                              *)

Served(r, answer) == requests' = Done(r) \cup {[r EXCEPT !.answer = answer]}

ServeGmp(r) ==
  /\ r.kind = "gmp"
  /\ Served(r, IF Valid(r.id, r.cookie) THEN "yes" ELSE "no")
  /\ UNCHANGED <<live, hyperion>>

ServeLogout(r) ==
  /\ r.kind = "logout"
  /\ Served(r, "yes")
  /\ live' = IF Valid(r.id, r.cookie) THEN live \ {r.id} ELSE live
  /\ UNCHANGED hyperion

\* The password is right or not.
ServeLogin(r) ==
  /\ r.kind = "login"
  /\ \/ Served(r, "yes") /\ live' = live \cup {r.id}
     \/ Served(r, "no") /\ UNCHANGED live
  /\ UNCHANGED hyperion

ServeLogin2(r) ==
  /\ r.kind = "login2"
  /\ \/ Served(r, "yes") /\ hyperion' = TRUE
     \/ Served(r, "no") /\ UNCHANGED hyperion
  /\ UNCHANGED live

ServeLogout2(r) ==
  /\ r.kind = "logout2"
  /\ Served(r, "yes")
  /\ hyperion' = FALSE
  /\ UNCHANGED live

ServeIsAuthenticated(r) ==
  /\ r.kind = "isAuthenticated"
  /\ Served(r, IF hyperion THEN "yes" ELSE "no")
  /\ UNCHANGED <<live, hyperion>>

Serve(r) ==
  /\ r.answer = None
  /\ \/ ServeGmp(r) \/ ServeLogout(r) \/ ServeLogin(r)
     \/ ServeLogin2(r) \/ ServeLogout2(r) \/ ServeIsAuthenticated(r)
  /\ UNCHANGED <<token, cookie, tabs, used>>

\* The server cannot be reached, fails or is too slow; or the GraphQL server
\* answers with the status 401.
Failures(kind) == IF kind \in {"gmp", "login", "logout"} THEN {"error"} ELSE {"error", "401"}

Fail(r) ==
  /\ r.answer = None
  /\ IF r.kind = "isAuthenticated" THEN UNCHANGED used ELSE Use("disturbances")
  /\ \E answer \in Failures(r.kind) : Served(r, answer)
  /\ UNCHANGED <<token, cookie, live, hyperion, tabs>>

\* A session ends at the server: it expires, or is closed there.
SessionEnds ==
  /\ Use("disturbances")
  /\ \/ \E n \in live : live' = live \ {n} /\ UNCHANGED hyperion
     \/ hyperion /\ hyperion' = FALSE /\ UNCHANGED live
  /\ UNCHANGED <<token, cookie, tabs, requests>>

-----------------------------------------------------------------------------
(* The answers. Those of gsad set its cookie, or remove it with a refusal.   *)
(* A 401 of gsad, to whatever request, ends the session in this browser:     *)
(* handleGmpErrorResponse. So does one of the GraphQL server: logoutLink.    *)

CookieOf(r) == CASE r.answer = "yes" -> r.id [] r.answer = "no" -> None [] OTHER -> cookie

\* The GraphQL server has not said yes: logoutLink looks for a 401.
Refused(r) == IF r.answer = "401" THEN Logout(r) ELSE UNCHANGED <<token, tabs>>

\* A 401 that only the caller is told of.
GmpIgnored(r) ==
  /\ r.kind = "gmp"
  /\ cookie' = CookieOf(r)
  /\ requests' = Done(r)
  /\ UNCHANGED <<token, tabs>>

GmpAnswered(r) ==
  /\ r.kind = "gmp"
  /\ IF r.answer = "no" THEN Logout(r) ELSE UNCHANGED <<token, tabs>>
  /\ cookie' = CookieOf(r)
  /\ requests' = Done(r)

\* Once gsad has let the user in, the GraphQL server is asked.
LoginAnswered(r) ==
  /\ r.kind = "login"
  /\ cookie' = CookieOf(r)
  /\ requests' = IF r.answer = "yes" THEN Send(Done(r), r.tab, "login2", r.id) ELSE Done(r)
  /\ IF r.answer = "no" THEN Logout(r) ELSE UNCHANGED <<token, tabs>>

\* "only store settings if both logins have been successfully".
Login2Answered(r) ==
  LET mounted == tabs[r.tab].page \in {"asking", "app"} IN
  /\ r.kind = "login2"
  /\ IF r.answer = "yes"
     THEN /\ token' = r.id
          /\ tabs' = [tabs EXCEPT ![r.tab] = LoggedIn(@)]
          /\ requests' = IF mounted THEN Done(r) ELSE Mounted(Done(r), r.tab)
     ELSE requests' = Done(r) /\ Refused(r)
  /\ UNCHANGED cookie

\* Whatever the answer of gsad is, the tab logs out, and then at the other server.
LogoutAnswered(r) ==
  /\ r.kind = "logout"
  /\ cookie' = IF r.answer = "error" THEN cookie ELSE None
  /\ Logout(r)
  /\ requests' = Send(Done(r), r.tab, "logout2", None)

\* history.push ('/login?type=logout'), if there was no error.
Logout2Answered(r) ==
  /\ r.kind = "logout2"
  /\ IF r.answer = "yes"
     THEN tabs' = [tabs EXCEPT ![r.tab] = toLoginPage(@)] /\ UNCHANGED token
     ELSE Refused(r)
  /\ requests' = Done(r)
  /\ UNCHANGED cookie

\* Without the effect for errors.
AskedInVain(tab, answer) ==
  CASE answer = "yes" -> [tab EXCEPT !.page = "app", !.isLoggedIn = TRUE]
    [] answer = "no" -> toLoginPage([tab EXCEPT !.isLoggedIn = FALSE])
    [] answer = "error" -> tab

\* The effects of Authorized, if it is still there: the application is shown,
\* with a renewal of the session, or the login page is; after an error too.
Asked(tab, answer) ==
  CASE answer = "yes" -> [tab EXCEPT !.page = "app", !.isLoggedIn = TRUE]
    [] answer = "no" -> toLoginPage([tab EXCEPT !.isLoggedIn = FALSE])
    [] answer = "error" -> toLoginPage(tab)

IsAuthenticatedAnswered(r) ==
  LET asking == tabs[r.tab].page = "asking" IN
  /\ r.kind = "isAuthenticated"
  /\ IF asking /\ r.answer # "401"
     THEN tabs' = [tabs EXCEPT ![r.tab] = Asked(@, r.answer)] /\ UNCHANGED token
     ELSE Refused(r)
  /\ requests' = IF asking /\ r.answer = "yes"
                 THEN Send(Done(r), r.tab, "gmp", token) ELSE Done(r)
  /\ UNCHANGED cookie

Receive(r) ==
  /\ r.answer # None
  /\ \/ GmpAnswered(r) \/ LoginAnswered(r) \/ Login2Answered(r)
     \/ LogoutAnswered(r) \/ Logout2Answered(r) \/ IsAuthenticatedAnswered(r)
  /\ UNCHANGED <<live, hyperion, used>>

-----------------------------------------------------------------------------
Next ==
  \/ \E i \in Tabs :
       \/ \E page \in {"asking", "login"} : LoadPage(i, page)
       \/ login(i) \/ handleLogout(i)
       \/ LoginPageEffect(i) \/ Load(i)
  \/ \E r \in requests : Serve(r) \/ Fail(r) \/ Receive(r)
  \/ SessionEnds

Spec == Init /\ [][Next]_vars

(* Each tab goes on as long as it can: its effects run, its requests are       *)
(* answered, and what it shows is reloaded, as the pages that use Reload do.   *)
Background(i) ==
  \/ Load(i)
  \/ \E r \in requests : r.tab = i /\ r.kind = "gmp" /\ (Serve(r) \/ Receive(r))

Foreground(i) ==
  \/ LoginPageEffect(i)
  \/ \E r \in requests : r.tab = i /\ r.kind # "gmp" /\ (Serve(r) \/ Receive(r))

Fairness == \A i \in Tabs : WF_vars(Background(i)) /\ WF_vars(Foreground(i))

FairSpec == Spec /\ Fairness

-----------------------------------------------------------------------------
\* A tab that shows nothing because it waits for the status of the session has
\* a query under way: no change of the page takes the query away and leaves
\* the tab waiting (Authorized is mounted and unmounted by logins, logouts and
\* refusals that overlap).
AskingQueried ==
  \A i \in Tabs :
    tabs[i].page = "asking" =>
      \E r \in requests : r.tab = i /\ r.kind = "isAuthenticated"

\* A tab never goes on showing the application with a session that gsad does
\* not accept: however the token of one tab and the cookie of another get
\* mixed, whichever session ends and whatever fails before, the next request
\* that gsad answers leads to the login page (handleGmpErrorResponse), or the
\* credentials are good again.
EndedSessionNoticed ==
  \A i \in Tabs :
    (tabs[i].page = "app" /\ ~Valid(token, cookie))
      ~> (tabs[i].page # "app" \/ Valid(token, cookie))

\* The query of Authorized has failed and the tab has not handled that yet.
QueryFailed(i) ==
  \E r \in requests : r.tab = i /\ r.kind = "isAuthenticated" /\ r.answer = "error"

\* A tab that waits for the status of the session (Authorized) comes to the
\* application or to the login page, whatever is answered or dropped when pages
\* change, unless its query fails; and after a failure it does not go on
\* waiting without a new query. When every query fails, a tab that takes itself
\* for logged in asks again for ever (LoginPageAfterError).
AskingEnds ==
  \A i \in Tabs :
    (tabs[i].page = "asking") ~> (tabs[i].page \in {"app", "login"} \/ QueryFailed(i))

\* "redirect to login page if an error has occurred when requesting the
\* authentication status. this should be a general issue with the setup and
\* therefore we should avoid rendering anything then the login page."
\* (authorized.js:72): after such an error the tab comes to the login page.
LoginPageAfterError ==
  \A i \in Tabs :
    (tabs[i].page = "asking" /\ QueryFailed(i)) ~> (tabs[i].page = "login")

=============================================================================
