-------------------------- MODULE MCBrowserSession --------------------------
(* Small instances of BrowserSession.                                       *)
EXTENDS BrowserSession

\* Two logins; or one login, with a tab opened beside it and something that
\* fails; or one login and two loads of tabs.
ThreeBounds == {[logins |-> 2, loads |-> 0, disturbances |-> 0],
                [logins |-> 1, loads |-> 1, disturbances |-> 1],
                [logins |-> 1, loads |-> 2, disturbances |-> 0]}

\* One login, and something that fails.
OneBound == {[logins |-> 1, loads |-> 0, disturbances |-> 1]}

=============================================================================
