---------------------------- MODULE MCDashboard ----------------------------
(* Small instances of Dashboard.                                            *)
EXTENDS Dashboard

\* Two rows; the user may not see the display 3.
TwoRows == << <<1, 2>>, <<3>> >>

=============================================================================
