---------------------------- MODULE MCSessionArray ---------------------------
(* A small instance of SessionArray.                                       *)
EXTENDS SessionArray

CONSTANTS t1, t2, t3, t4, u1, u2

Rec(t, u) == [token |-> t, owner |-> u, secret |-> 0, time |-> 0]

\* Three sessions of one user: one stays, and the loop that removes the others
\* may find them side by side. One of another user.
FewRecords == {Rec(t1, u1), Rec(t2, u1), Rec(t3, u1), Rec(t4, u2)}

=============================================================================
